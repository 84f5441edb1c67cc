--------------------------- MODULE AccountsProofs ---------------------------
(***************************************************************************)
(* Proofs about the accounts kept with customers, suppliers and employees: *)
(* Cheques, Payroll and SupplierAccount, for every set of documents,       *)
(* workers and amounts.  The three share no variable.                      *)
(***************************************************************************)
EXTENDS Cheques, Payroll, SupplierAccount, Sums

---------------------------------------------------------------------------
(***************************************************************************)
(* Cheques                                                                 *)
(***************************************************************************)

\* The shape of the rows, and what a request in hand knows.
Shapes ==
    /\ DOMAIN kind = Cheque /\ DOMAIN row = Cheque /\ DOMAIN book = Cheque
    /\ DOMAIN cached = Cheque /\ DOMAIN doc = Cheque /\ DOMAIN part = Cheque
    /\ DOMAIN raced = Cheque /\ DOMAIN edited = Cheque /\ DOMAIN was = Cheque
    /\ \A c \in Cheque :
          /\ DOMAIN row[c] = {"st", "amt", "active"} /\ row[c].st \in Status
          /\ row[c].amt \in Int
          /\ DOMAIN book[c] = {"held", "party", "bank", "fx"}
          /\ book[c].held \in Int /\ book[c].party \in Int
          /\ book[c].bank \in Int /\ book[c].fx \in Int
          /\ cached[c] \in Int /\ DOMAIN part[c] = Part
    /\ DOMAIN req = Request
    /\ \A r \in Request : req[r].pc = "read" =>
          req[r].on \in Cheque /\ req[r].amt \in Int /\ req[r].st \in Open \cup Closed

\* The books and the cached balance while the cheque is undisturbed.
Money(c) ==
    /\ row[c].st \in Open => /\ book[c].held = row[c].amt /\ book[c].party = row[c].amt
                             /\ book[c].bank = 0 /\ book[c].fx = 0
    /\ row[c].st = "cleared" => /\ book[c].held = 0 /\ book[c].party = row[c].amt
                                /\ book[c].bank = row[c].amt + book[c].fx
    /\ row[c].st \in {"bounced", "cancelled"} =>
          book[c].held = 0 /\ book[c].party = 0 /\ book[c].bank = 0
    /\ kind[c] \in Linked =>
          \/ cached[c] = book[c].party
          \/ row[c].st = "cancelled" /\ (kind[c] = "receipt" \/ "bounced" \in was[c])

NoPart(c)  == \A p \in Part : ~part[c][p]
OnePart(c) == \E p \in Part : part[c][p] /\ \A q \in Part : part[c][q] => q = p

\* The linked receipt or payment, and the sales paid from it, while no write was stale.
Papers(c) ==
    /\ kind[c] \notin Linked => doc[c] = "none"
    /\ kind[c] \in Linked =>
          doc[c] = IF row[c].st \in Open THEN "waiting"
                   ELSE IF row[c].st = "cleared" THEN "confirmed" ELSE "rejected"
    /\ IF row[c].st = "cleared" /\ kind[c] = "receipt" /\ Part # {} THEN OnePart(c) ELSE NoPart(c)

Life(c) == /\ row[c].st = "none" => doc[c] = "none" /\ NoPart(c)
           /\ row[c].st = "bounced" => "bounced" \in was[c]
           /\ Undisturbed(c) /\ row[c].st # "purged" => Money(c)
           /\ ~raced[c] /\ row[c].st \notin Absent => Papers(c)

ChequeInv == Shapes /\ \A c \in Cheque : Life(c)

---------------------------------------------------------------------------
\* A cheque that was never entered leads no life yet.
LEMMA InitCheque == Init => ChequeInv
BY DEF Init, ChequeInv, Shapes, Life, NoBook, NoRead, Status, Open, Closed, Absent, Undisturbed,
   NoPart

\* A step that leaves another cheque alone leaves its life alone.
LEMMA OtherLife ==
  ASSUME NEW c \in Cheque, Life(c), kind'[c] = kind[c], row'[c] = row[c], book'[c] = book[c],
         cached'[c] = cached[c], doc'[c] = doc[c], part'[c] = part[c], raced'[c] = raced[c],
         edited'[c] = edited[c], was'[c] = was[c]
  PROVE  Life(c)'
BY DEF Life, Undisturbed, Money, Papers, NoPart, OnePart

\* Entering a cheque begins its life as pending, in the books with its amount.
LEMMA EnterCheque ==
  ASSUME ChequeInv, NEW c \in Cheque, NEW k \in Kind, NEW a \in Amounts, Enter(c, k, a),
         \/ /\ k \in Linked /\ cached' = [cached EXCEPT ![c] = a]
            /\ doc' = [doc EXCEPT ![c] = "waiting"]
         \/ k \notin Linked /\ UNCHANGED <<cached, doc>>
  PROVE  ChequeInv'
<1>1. /\ kind' = [kind EXCEPT ![c] = k]
      /\ row' = [row EXCEPT ![c] = [st |-> "pending", amt |-> a, active |-> TRUE]]
      /\ book' = [book EXCEPT ![c] = IssueEntry(a)] /\ was' = [was EXCEPT ![c] = {"pending"}]
      /\ UNCHANGED <<part, req, served, raced, edited>> /\ row[c].st = "none"
  BY DEF Enter
<1>2. a \in Int
  BY ChequeAssumption
<1>3. /\ DOMAIN IssueEntry(a) = {"held", "party", "bank", "fx"}
      /\ IssueEntry(a).held = a /\ IssueEntry(a).party = a
      /\ IssueEntry(a).bank = 0 /\ IssueEntry(a).fx = 0
  BY DEF IssueEntry, NoBook
<1>4. /\ row'[c].st = "pending" /\ row'[c].amt = a /\ DOMAIN row'[c] = {"st", "amt", "active"}
      /\ book'[c] = IssueEntry(a) /\ kind'[c] = k /\ part'[c] = part[c]
      /\ \/ k \in Linked /\ cached'[c] = a /\ doc'[c] = "waiting"
         \/ k \notin Linked /\ doc'[c] = doc[c] /\ cached'[c] = cached[c]
  BY <1>1 DEF ChequeInv, Shapes
<1>5. ASSUME NEW d \in Cheque, d # c
      PROVE  /\ kind'[d] = kind[d] /\ row'[d] = row[d] /\ book'[d] = book[d]
             /\ cached'[d] = cached[d] /\ doc'[d] = doc[d] /\ part'[d] = part[d]
             /\ raced'[d] = raced[d] /\ edited'[d] = edited[d] /\ was'[d] = was[d]
  BY <1>1, <1>5 DEF ChequeInv, Shapes
<1>6. Life(c)'
  <2>1. doc[c] = "none" /\ NoPart(c)
    BY <1>1 DEF ChequeInv, Life
  <2>2. Money(c)'
    BY <1>3, <1>4 DEF Money, Open
  <2>3. Papers(c)'
    BY <1>4, <2>1 DEF Papers, Open, NoPart
  <2> QED
    BY <1>4, <2>2, <2>3 DEF Life
<1>7. Shapes'
  <2>1. ASSUME NEW d \in Cheque
        PROVE  /\ DOMAIN row'[d] = {"st", "amt", "active"} /\ row'[d].st \in Status
               /\ row'[d].amt \in Int
               /\ DOMAIN book'[d] = {"held", "party", "bank", "fx"}
               /\ book'[d].held \in Int /\ book'[d].party \in Int
               /\ book'[d].bank \in Int /\ book'[d].fx \in Int
               /\ cached'[d] \in Int /\ DOMAIN part'[d] = Part
    BY <1>2, <1>3, <1>4, <1>5 DEF ChequeInv, Shapes, Status, Open
  <2> QED
    BY <1>1, <2>1 DEF ChequeInv, Shapes
<1> QED
  BY <1>5, <1>6, <1>7, OtherLife DEF ChequeInv

\* From f to g at most the value of cheque c changes.
Only(f, g, c) == DOMAIN g = Cheque /\ \A d \in Cheque : d # c => g[d] = f[d]

\* A write changes the values of its cheque only.
LEMMA WriteCheque ==
  ASSUME ChequeInv, NEW r \in Request, NEW c \in Cheque, Answer(r), kind' = kind,
         Only(row, row', c), Only(book, book', c), Only(cached, cached', c), Only(doc, doc', c),
         Only(part, part', c), Only(raced, raced', c), Only(edited, edited', c), Only(was, was', c),
         DOMAIN row'[c] = {"st", "amt", "active"}, row'[c].st \in Status, row'[c].amt \in Int,
         DOMAIN book'[c] = {"held", "party", "bank", "fx"},
         book'[c].held \in Int, book'[c].party \in Int, book'[c].bank \in Int, book'[c].fx \in Int,
         cached'[c] \in Int, DOMAIN part'[c] = Part, Life(c)'
  PROVE  ChequeInv'
<1>1. \A d \in Cheque : Life(d)'
  BY OtherLife DEF ChequeInv, Only
<1>2. ASSUME NEW d \in Cheque
      PROVE  /\ DOMAIN row'[d] = {"st", "amt", "active"} /\ row'[d].st \in Status
             /\ row'[d].amt \in Int
             /\ DOMAIN book'[d] = {"held", "party", "bank", "fx"}
             /\ book'[d].held \in Int /\ book'[d].party \in Int
             /\ book'[d].bank \in Int /\ book'[d].fx \in Int
             /\ cached'[d] \in Int /\ DOMAIN part'[d] = Part
  BY DEF ChequeInv, Shapes, Only
<1>3. /\ DOMAIN req' = Request
      /\ \A u \in Request : req'[u].pc = "read" =>
            req'[u].on \in Cheque /\ req'[u].amt \in Int /\ req'[u].st \in Open \cup Closed
  BY DEF Answer, NoRead, ChequeInv, Shapes
<1> QED
  BY <1>1, <1>2, <1>3 DEF ChequeInv, Shapes, Only

\* The cheque a request has in hand, as it is and as it was read.
LEMMA InHand ==
  ASSUME ChequeInv, NEW r \in Request, req[r].pc = "read", NEW c, c = On(r)
  PROVE  /\ c \in Cheque /\ req[r].amt \in Int /\ req[r].st \in Open \cup Closed /\ Life(c)
         /\ DOMAIN row[c] = {"st", "amt", "active"} /\ row[c].st \in Status /\ row[c].amt \in Int
         /\ DOMAIN book[c] = {"held", "party", "bank", "fx"} /\ DOMAIN part[c] = Part
         /\ book[c].held \in Int /\ book[c].party \in Int /\ book[c].bank \in Int
         /\ book[c].fx \in Int /\ cached[c] \in Int
         /\ Only(row, row, c) /\ Only(book, book, c) /\ Only(cached, cached, c)
         /\ Only(doc, doc, c) /\ Only(part, part, c) /\ Only(edited, edited, c)
         /\ Only(was, was, c)
BY DEF ChequeInv, Shapes, On, Only

\* A stale write marks its cheque, and a mark stays.
LEMMA Marked ==
  ASSUME ChequeInv, NEW r \in Request, req[r].pc = "read", NEW c, c = On(r), Mark(r)
  PROVE  /\ Only(raced, raced', c)
         /\ ~raced'[c] => ~raced[c] /\ row[c].st = req[r].st /\ row[c].amt = req[r].amt
<1>1. c \in Cheque /\ DOMAIN raced = Cheque
  BY InHand DEF ChequeInv, Shapes
<1>2. raced' = [raced EXCEPT ![c] = raced[c] \/ Stale(r)]
  BY DEF Mark
<1>3. raced'[c] = (raced[c] \/ Stale(r)) /\ Only(raced, raced', c)
  BY <1>1, <1>2 DEF Only
<1> QED
  BY <1>3 DEF Stale

\* SetStatus writes the status and nothing else.
LEMMA StatusSet ==
  ASSUME ChequeInv, NEW r \in Request, req[r].pc = "read", NEW c, c = On(r), NEW s, SetStatus(r, s)
  PROVE  /\ Only(row, row', c) /\ Only(was, was', c)
         /\ row'[c].st = s /\ row'[c].amt = row[c].amt /\ DOMAIN row'[c] = {"st", "amt", "active"}
         /\ was'[c] = was[c] \cup {s}
<1>1. /\ c \in Cheque /\ DOMAIN row = Cheque /\ DOMAIN was = Cheque
      /\ DOMAIN row[c] = {"st", "amt", "active"}
  BY InHand DEF ChequeInv, Shapes
<1>2. /\ row' = [row EXCEPT ![c] = [row[c] EXCEPT !.st = s]]
      /\ was' = [was EXCEPT ![c] = was[c] \cup {s}]
  BY DEF SetStatus
<1> QED
  BY <1>1, <1>2 DEF Only

\* Depositing changes the status alone.
LEMMA DepositCheque ==
  ASSUME ChequeInv, NEW r \in Request, NEW c, c = On(r), Deposit(r)
  PROVE  ChequeInv'
<1>1. /\ req[r].pc = "read" /\ req[r].st = "pending" /\ row[c].st # "purged"
      /\ SetStatus(r, "deposited") /\ Mark(r) /\ Answer(r)
      /\ UNCHANGED <<kind, book, cached, doc, part, edited>>
  BY DEF Deposit, Reaches, Accepts, MayDeposit
<1>2. /\ row'[c].st = "deposited" /\ row'[c].amt = row[c].amt /\ was'[c] = was[c] \cup {"deposited"}
      /\ ~raced'[c] => ~raced[c] /\ row[c].st = "pending"
  BY <1>1, StatusSet, Marked
<1>3. Life(c)
  BY <1>1, InHand
<1>4. Life(c)'
  <2>1. Undisturbed(c)' => Money(c)'
    BY <1>1, <1>2, <1>3 DEF Life, Undisturbed, Money, Open, Absent
  <2>2. ~raced'[c] => Papers(c)'
    BY <1>1, <1>2, <1>3 DEF Life, Papers, Open, Absent, NoPart
  <2> QED
    BY <1>2, <2>1, <2>2 DEF Life
<1> QED
  BY <1>1, <1>2, <1>4, InHand, StatusSet, Marked, WriteCheque DEF Status, Open

\* Book entries add whole amounts to the four totals.
LEMMA Clearance ==
  ASSUME NEW b, DOMAIN b = {"held", "party", "bank", "fx"}, NEW a, NEW g
  PROVE  /\ DOMAIN ClearEntry(b, a, g) = DOMAIN b
         /\ ClearEntry(b, a, g).held = b.held - a /\ ClearEntry(b, a, g).party = b.party
         /\ ClearEntry(b, a, g).bank = b.bank + a + g /\ ClearEntry(b, a, g).fx = b.fx + g
BY DEF ClearEntry

\* A returned cheque is no longer held, and the party owes its amount again.
LEMMA ComingBack ==
  ASSUME NEW b, DOMAIN b = {"held", "party", "bank", "fx"}, NEW a
  PROVE  /\ DOMAIN ReturnEntry(b, a) = DOMAIN b
         /\ ReturnEntry(b, a).held = b.held - a /\ ReturnEntry(b, a).party = b.party - a
         /\ ReturnEntry(b, a).bank = b.bank /\ ReturnEntry(b, a).fx = b.fx
BY DEF ReturnEntry

\* Clearing books the cheque out and confirms what was linked to it.
LEMMA ClearCheque ==
  ASSUME ChequeInv, NEW r \in Request, NEW c, c = On(r), NEW g \in Gains, Clear(r, g)
  PROVE  ChequeInv'
<1>1. /\ req[r].pc = "read" /\ req[r].st \in {"deposited", "pending"} /\ row[c].st # "purged"
      /\ SetStatus(r, "cleared") /\ ConfirmFirst(c) /\ Mark(r) /\ Answer(r)
      /\ book' = [book EXCEPT ![c] = ClearEntry(book[c], req[r].amt, g)]
      /\ UNCHANGED <<kind, cached, edited>>
  BY DEF Clear, Reaches, Accepts, MayClear
<1>2. /\ row'[c].st = "cleared" /\ row'[c].amt = row[c].amt
      /\ ~raced'[c] => ~raced[c] /\ row[c].st \in Open /\ row[c].amt = req[r].amt
  BY <1>1, StatusSet, Marked DEF Open
<1>3. /\ Life(c) /\ c \in Cheque /\ g \in Int /\ req[r].amt \in Int /\ row[c].amt \in Int
      /\ book[c].held \in Int /\ book[c].party \in Int /\ book[c].bank \in Int /\ book[c].fx \in Int
      /\ DOMAIN book = Cheque /\ DOMAIN doc = Cheque /\ DOMAIN part = Cheque
      /\ DOMAIN book[c] = {"held", "party", "bank", "fx"} /\ DOMAIN part[c] = Part
  BY <1>1, InHand, ChequeAssumption DEF ChequeInv, Shapes
<1>4. /\ Only(book, book', c) /\ DOMAIN book'[c] = {"held", "party", "bank", "fx"}
      /\ book'[c].held = book[c].held - req[r].amt /\ book'[c].party = book[c].party
      /\ book'[c].bank = book[c].bank + req[r].amt + g /\ book'[c].fx = book[c].fx + g
  <2> DEFINE new == ClearEntry(book[c], req[r].amt, g)
  <2>1. /\ DOMAIN new = {"held", "party", "bank", "fx"} /\ new.held = book[c].held - req[r].amt
        /\ new.party = book[c].party /\ new.bank = book[c].bank + req[r].amt + g
        /\ new.fx = book[c].fx + g
    <3>1. DOMAIN book[c] = {"held", "party", "bank", "fx"}
      BY <1>3
    <3> QED
      BY <3>1, Clearance
  <2>2. book' = [book EXCEPT ![c] = new]
    BY <1>1
  <2> HIDE DEF new
  <2>3. book'[c] = new /\ Only(book, book', c)
    BY <1>3, <2>2 DEF Only
  <2> QED
    BY <2>1, <2>3
<1>5. /\ doc'[c] = (IF doc[c] = "none" THEN "none" ELSE "confirmed") /\ Only(doc, doc', c)
  BY <1>1, <1>3 DEF ConfirmFirst, Only
<1>6. /\ Only(part, part', c) /\ DOMAIN part'[c] = Part
      /\ NoPart(c) => IF kind[c] = "receipt" /\ Part # {} THEN OnePart(c)' ELSE NoPart(c)'
  <2>1. CASE kind[c] = "receipt" /\ Part # {}
    <3>1. PICK p \in Part : part' = [part EXCEPT ![c] = [part[c] EXCEPT ![p] = TRUE]]
      BY <1>1, <2>1 DEF ConfirmFirst
    <3>2. Only(part, part', c) /\ part'[c] = [part[c] EXCEPT ![p] = TRUE]
      BY <1>3, <3>1 DEF Only
    <3>3. part'[c][p] /\ DOMAIN part'[c] = Part /\ \A q \in Part : q # p => part'[c][q] = part[c][q]
      BY <1>3, <3>2
    <3>4. NoPart(c) => OnePart(c)'
      BY <3>3 DEF NoPart, OnePart
    <3> QED
      BY <2>1, <3>2, <3>3, <3>4
  <2>2. CASE ~(kind[c] = "receipt" /\ Part # {})
    <3>1. part' = part
      BY <1>1, <2>2 DEF ConfirmFirst
    <3> QED
      BY <1>3, <2>2, <3>1 DEF NoPart, Only
  <2> QED
    BY <2>1, <2>2
<1>7. Life(c)'
  <2>1. Undisturbed(c)' => Money(c)'
    <3>1. SUFFICES ASSUME ~raced'[c], ~edited'[c] PROVE Money(c)'
      BY DEF Undisturbed
    <3>2. Money(c) /\ row[c].st \in Open /\ row[c].amt = req[r].amt
      BY <1>1, <1>2, <1>3, <3>1 DEF Life, Undisturbed, Open
    <3>3. /\ book[c].held = row[c].amt /\ book[c].party = row[c].amt
          /\ book[c].bank = 0 /\ book[c].fx = 0
      BY <3>2 DEF Money
    <3>4. /\ book'[c].held = 0 /\ book'[c].party = row'[c].amt
          /\ book'[c].bank = row'[c].amt + book'[c].fx
      BY <1>2, <1>3, <1>4, <3>2, <3>3
    <3>5. kind[c] \in Linked => cached'[c] = book'[c].party
      BY <1>1, <1>4, <3>2 DEF Money, Open
    <3> QED
      BY <1>1, <1>2, <3>4, <3>5 DEF Money, Open
  <2>2. ~raced'[c] => Papers(c)'
    <3>1. SUFFICES ASSUME ~raced'[c] PROVE Papers(c)'
      OBVIOUS
    <3>2. Papers(c) /\ row[c].st \in Open
      BY <1>2, <1>3, <3>1 DEF Life, Open, Absent
    <3>3. NoPart(c)
      BY <3>2 DEF Papers, Open
    <3> QED
      BY <1>1, <1>2, <1>5, <1>6, <3>2, <3>3 DEF Papers, Open
  <2> QED
    BY <1>2, <2>1, <2>2 DEF Life
<1>8. "cleared" \in Status
  BY DEF Status, Closed
<1>9. /\ book'[c].held \in Int /\ book'[c].party \in Int /\ book'[c].bank \in Int
      /\ book'[c].fx \in Int
  BY <1>3, <1>4
<1> QED
  BY <1>1, <1>2, <1>4, <1>5, <1>6, <1>7, <1>8, <1>9, InHand, StatusSet, Marked, WriteCheque

\* Rejecting a receipt or payment takes back the sales paid from it.
LEMMA Rejected ==
  ASSUME ChequeInv, NEW c \in Cheque, Reject(c)
  PROVE  /\ Only(doc, doc', c) /\ doc'[c] = IF doc[c] = "none" THEN "none" ELSE "rejected"
         /\ Only(part, part', c) /\ DOMAIN part'[c] = Part /\ NoPart(c)'
<1>1. DOMAIN doc = Cheque /\ DOMAIN part = Cheque
  BY DEF ChequeInv, Shapes
<1>2. part'[c] = [p \in Part |-> FALSE] /\ Only(part, part', c)
  BY <1>1 DEF Reject, Only
<1> QED
  BY <1>1, <1>2 DEF Reject, Only, NoPart

\* A cheque that comes back: its entry is taken back unless it was before, and the cached
\* balance by some amount.
LEMMA ReturnCheque ==
  ASSUME ChequeInv, NEW r \in Request, NEW c, c = On(r), req[r].pc = "read",
         NEW s \in {"bounced", "cancelled"}, SetStatus(r, s), Reject(c), Mark(r), Answer(r),
         UNCHANGED <<kind, edited>>, row[c].st # "purged", NEW m \in Int,
         cached' = [cached EXCEPT ![c] = cached[c] - m],
         \/ req[r].st = "bounced" /\ s = "cancelled" /\ book' = [book EXCEPT ![c] = book[c]]
         \/ /\ req[r].st \in Open
            /\ book' = [book EXCEPT ![c] = ReturnEntry(book[c], req[r].amt)],
         \/ kind[c] \notin Linked
         \/ m = req[r].amt /\ req[r].st \in Open
         \/ s = "cancelled" /\ (kind[c] = "receipt" \/ req[r].st = "bounced")
  PROVE  ChequeInv'
<1>1. /\ row'[c].st = s /\ row'[c].amt = row[c].amt /\ was'[c] = was[c] \cup {s}
      /\ Only(row, row', c) /\ Only(was, was', c) /\ DOMAIN row'[c] = {"st", "amt", "active"}
      /\ Only(raced, raced', c)
      /\ ~raced'[c] => ~raced[c] /\ row[c].st = req[r].st /\ row[c].amt = req[r].amt
  BY StatusSet, Marked
<1>2. /\ Life(c) /\ c \in Cheque /\ req[r].amt \in Int /\ row[c].amt \in Int
      /\ book[c].held \in Int /\ book[c].party \in Int /\ book[c].bank \in Int /\ book[c].fx \in Int
      /\ cached[c] \in Int /\ DOMAIN book = Cheque /\ DOMAIN cached = Cheque
      /\ DOMAIN book[c] = {"held", "party", "bank", "fx"} /\ Only(book, book, c)
      /\ Only(edited, edited, c)
  BY InHand DEF ChequeInv, Shapes
<1>3. /\ Only(cached, cached', c) /\ cached'[c] = cached[c] - m /\ cached'[c] \in Int
  BY <1>2 DEF Only
<1>4. CASE req[r].st \in Open
  <2>1. book' = [book EXCEPT ![c] = ReturnEntry(book[c], req[r].amt)]
    BY <1>4 DEF Open
  <2>2. /\ Only(book, book', c) /\ DOMAIN book'[c] = {"held", "party", "bank", "fx"}
        /\ book'[c].held = book[c].held - req[r].amt /\ book'[c].party = book[c].party - req[r].amt
        /\ book'[c].bank = book[c].bank /\ book'[c].fx = book[c].fx
    <3> DEFINE new == ReturnEntry(book[c], req[r].amt)
    <3>1. /\ DOMAIN new = {"held", "party", "bank", "fx"} /\ new.held = book[c].held - req[r].amt
          /\ new.party = book[c].party - req[r].amt /\ new.bank = book[c].bank
          /\ new.fx = book[c].fx
      <4>1. DOMAIN book[c] = {"held", "party", "bank", "fx"}
        BY <1>2
      <4> QED
        BY <4>1, ComingBack
    <3>2. book' = [book EXCEPT ![c] = new]
      BY <2>1
    <3> HIDE DEF new
    <3>3. book'[c] = new /\ Only(book, book', c)
      BY <1>2, <3>2 DEF Only
    <3> QED
      BY <3>1, <3>3
  <2>3. ASSUME Undisturbed(c)' PROVE Money(c)'
    <3>1. /\ book[c].held = req[r].amt /\ book[c].party = req[r].amt /\ book[c].bank = 0
          /\ kind[c] \in Linked => cached[c] = book[c].party
      <4>1. Undisturbed(c) /\ row[c].st \in Open /\ row[c].amt = req[r].amt
        BY <1>1, <1>4, <2>3 DEF Undisturbed, Open
      <4> QED
        BY <1>2, <4>1 DEF Life, Money, Open
    <3>2. book'[c].held = 0 /\ book'[c].party = 0 /\ book'[c].bank = 0
      BY <1>2, <2>2, <3>1
    <3>3. kind[c] \in Linked /\ m = req[r].amt => cached'[c] = book'[c].party
      BY <1>2, <1>3, <2>2, <3>1
    <3> QED
      BY <1>1, <1>4, <3>2, <3>3 DEF Money, Open
  <2>4. /\ book'[c].held \in Int /\ book'[c].party \in Int /\ book'[c].bank \in Int
        /\ book'[c].fx \in Int
    BY <1>2, <2>2
  <2>5. ASSUME ~raced'[c] PROVE Papers(c)'
    <3>1. Papers(c) /\ row[c].st \in Open
      BY <1>1, <1>2, <1>4, <2>5 DEF Life, Open, Absent
    <3> QED
      BY <1>1, <1>2, <3>1, Rejected DEF Papers, Open
  <2>6. Life(c)'
    BY <1>1, <2>3, <2>5 DEF Life
  <2> QED
    BY <1>1, <1>2, <1>3, <2>2, <2>4, <2>6, Rejected, WriteCheque DEF Status, Closed
<1>5. CASE req[r].st = "bounced"
  <2>1. book'[c] = book[c] /\ Only(book, book', c) /\ s = "cancelled"
    BY <1>2, <1>5 DEF Open, Only
  <2>2. ASSUME Undisturbed(c)' PROVE Money(c)'
    <3>1. Undisturbed(c) /\ row[c].st = "bounced"
      BY <1>1, <1>5, <2>2 DEF Undisturbed
    <3>2. book[c].held = 0 /\ book[c].party = 0 /\ book[c].bank = 0 /\ "bounced" \in was[c]
      BY <1>2, <3>1 DEF Life, Money
    <3> QED
      BY <1>1, <2>1, <3>2 DEF Money, Open
  <2>3. ASSUME ~raced'[c] PROVE Papers(c)'
    <3>1. Papers(c) /\ row[c].st = "bounced"
      BY <1>1, <1>2, <1>5, <2>3 DEF Life, Absent
    <3> QED
      BY <1>1, <1>2, <2>1, <3>1, Rejected DEF Papers, Open
  <2>4. Life(c)'
    BY <1>1, <2>1, <2>2, <2>3 DEF Life
  <2> QED
    BY <1>1, <1>2, <1>3, <2>1, <2>4, Rejected, WriteCheque DEF Status, Closed
<1> QED
  BY <1>4, <1>5

\* Bouncing books the cheque back and rejects what was linked to it.
LEMMA BounceCheque ==
  ASSUME ChequeInv, NEW r \in Request, NEW c, c = On(r), Bounce(r)
  PROVE  ChequeInv'
<1> DEFINE m == BouncedBack(kind[c], req[r].amt)
<1>1. /\ req[r].pc = "read" /\ req[r].st \in Open /\ row[c].st # "purged"
      /\ SetStatus(r, "bounced") /\ Reject(c) /\ Mark(r) /\ Answer(r)
      /\ book' = [book EXCEPT ![c] = ReturnEntry(book[c], req[r].amt)]
      /\ cached' = [cached EXCEPT ![c] = cached[c] - m] /\ UNCHANGED <<kind, edited>>
  BY DEF Bounce, Reaches, Accepts, MayBounce, Open
<1>2. m \in Int /\ (kind[c] \in Linked => m = req[r].amt)
  <2>1. req[r].amt \in Int
    BY <1>1, InHand
  <2> QED
    BY <2>1 DEF BouncedBack, Linked
<1> HIDE DEF m
<1> QED
  BY <1>1, <1>2, ReturnCheque

\* Cancelling books the cheque back as well.
LEMMA CancelCheque ==
  ASSUME ChequeInv, NEW r \in Request, NEW c, c = On(r), Cancel(r)
  PROVE  ChequeInv'
<1> DEFINE m == CancelledBack(kind[c], req[r].amt)
<1>1. /\ req[r].pc = "read" /\ row[c].st # "purged"
      /\ req[r].st \notin {"cleared", "cancelled"}
      /\ SetStatus(r, "cancelled") /\ Reject(c) /\ Mark(r) /\ Answer(r)
      /\ book' = [book EXCEPT ![c] = CancelEntry(book[c], req[r].st, req[r].amt)]
      /\ cached' = [cached EXCEPT ![c] = cached[c] - m] /\ UNCHANGED <<kind, edited>>
  BY DEF Cancel, Reaches, Accepts, MayCancel
<1>2. req[r].st \in Open \cup {"bounced"} /\ req[r].amt \in Int
  BY <1>1, InHand DEF Closed
<1>3. m \in Int /\ (kind[c] \in Linked => m = req[r].amt \/ kind[c] = "receipt")
  BY <1>2 DEF CancelledBack, Linked
<1>4. \/ req[r].st = "bounced" /\ book' = [book EXCEPT ![c] = book[c]]
      \/ req[r].st \in Open /\ book' = [book EXCEPT ![c] = ReturnEntry(book[c], req[r].amt)]
  BY <1>1, <1>2 DEF CancelEntry, Open
<1> HIDE DEF m
<1> QED
  BY <1>1, <1>2, <1>3, <1>4, ReturnCheque

\* An edit that changes the amount makes the cheque an edited one.
LEMMA EditCheque ==
  ASSUME ChequeInv, NEW r \in Request, NEW c, c = On(r), NEW a \in Amounts, Edit(r, a)
  PROVE  ChequeInv'
<1>1. /\ req[r].pc = "read" /\ Mark(r) /\ Answer(r)
      /\ row' = [row EXCEPT ![c] = [row[c] EXCEPT !.amt = IF a = req[r].amt THEN row[c].amt ELSE a]]
      /\ edited' = [edited EXCEPT ![c] = edited[c] \/ a # req[r].amt]
      /\ UNCHANGED <<kind, book, cached, doc, part, was>>
  BY DEF Edit, Reaches
<1>2. c \in Cheque /\ DOMAIN row = Cheque /\ DOMAIN edited = Cheque /\ a \in Int
  BY <1>1, InHand, ChequeAssumption DEF ChequeInv, Shapes
<1>3. /\ row'[c].st = row[c].st /\ DOMAIN row'[c] = {"st", "amt", "active"}
      /\ row'[c].amt = (IF a = req[r].amt THEN row[c].amt ELSE a) /\ row'[c].amt \in Int
      /\ Only(row, row', c)
  BY <1>1, <1>2, InHand DEF Only
<1>4. edited'[c] = (edited[c] \/ a # req[r].amt) /\ Only(edited, edited', c)
  BY <1>1, <1>2 DEF Only
<1>5. ~raced'[c] => ~raced[c]
  BY <1>1, Marked
<1>6. Life(c)'
  <2>1. Life(c)
    BY <1>1, InHand
  <2>2. Undisturbed(c)' => row'[c].amt = row[c].amt /\ Undisturbed(c)
    BY <1>3, <1>4, <1>5 DEF Undisturbed
  <2>3. Undisturbed(c)' /\ row'[c].st # "purged" => Money(c)'
    BY <1>1, <1>3, <2>1, <2>2 DEF Life, Money
  <2>4. ~raced'[c] /\ row'[c].st \notin Absent => Papers(c)'
    BY <1>1, <1>3, <1>5, <2>1 DEF Life, Papers, OnePart, NoPart
  <2> QED
    BY <1>1, <1>3, <2>1, <2>3, <2>4 DEF Life, NoPart
<1> QED
  BY <1>1, <1>3, <1>4, <1>6, InHand, Marked, WriteCheque

\* A cheque that is deleted is archived or purged; one that is restored is as it was.
LEMMA DeleteCheque ==
  ASSUME ChequeInv, NEW r \in Request, NEW c, c = On(r), Delete(r) \/ Restore(r)
  PROVE  ChequeInv'
<1>1. /\ req[r].pc = "read" /\ Answer(r) /\ UNCHANGED <<kind, book, cached, doc, part, edited>>
      /\ Mark(r) \/ raced' = raced
  BY DEF Delete, Restore, Reaches
<1>2. /\ c \in Cheque /\ DOMAIN row = Cheque /\ DOMAIN raced = Cheque
      /\ DOMAIN row[c] = {"st", "amt", "active"} /\ Life(c) /\ row[c].st \in Status
      /\ row[c].amt \in Int
  BY <1>1, InHand DEF ChequeInv, Shapes
<1>3. (~raced'[c] => ~raced[c]) /\ Only(raced, raced', c)
  BY <1>1, <1>2, Marked DEF Only
<1>4. CASE SetStatus(r, "purged")
  <2>1. /\ row'[c].st = "purged" /\ row'[c].amt = row[c].amt /\ Only(row, row', c)
        /\ Only(was, was', c) /\ DOMAIN row'[c] = {"st", "amt", "active"}
    BY <1>1, <1>4, StatusSet
  <2>2. Life(c)'
    BY <2>1 DEF Life, Absent
  <2> QED
    BY <1>1, <1>3, <2>1, <2>2, InHand, WriteCheque DEF Status, Absent
<1>5. ASSUME NEW v, row' = [row EXCEPT ![c].active = v], UNCHANGED was PROVE ChequeInv'
  <2>1. row' = [row EXCEPT ![c] = [row[c] EXCEPT !.active = v]]
    BY <1>5
  <2>2. /\ row'[c].st = row[c].st /\ row'[c].amt = row[c].amt /\ Only(row, row', c)
        /\ DOMAIN row'[c] = {"st", "amt", "active"}
    BY <1>2, <2>1 DEF Only
  <2>3. Life(c)'
    BY <1>1, <1>2, <1>3, <1>5, <2>2 DEF Life, Undisturbed, Money, Papers, NoPart, OnePart
  <2> QED
    BY <1>1, <1>2, <1>3, <1>5, <2>2, <2>3, InHand, WriteCheque
<1> QED
  BY <1>4, <1>5 DEF Delete, Restore

\* Reading a cheque, and giving up, leave every life alone.
LEMMA ReadCheque ==
  ASSUME ChequeInv, NEW r \in Request, NEW op \in Operation, NEW c \in Cheque, Read(r, op, c)
  PROVE  ChequeInv'
<1>1. /\ UNCHANGED <<kind, row, book, cached, doc, part, raced, edited, was>>
      /\ req' = [req EXCEPT ![r] = [pc |-> "read", op |-> op, on |-> c,
                                    st |-> row[c].st, amt |-> row[c].amt]]
      /\ row[c].st \in Open \cup Closed /\ row[c].amt \in Int
  BY DEF Read, ChequeInv, Shapes, Status
<1>2. Shapes'
  BY <1>1 DEF ChequeInv, Shapes
<1> QED
  BY <1>1, <1>2, OtherLife DEF ChequeInv

\* So does a step that changes nothing.
LEMMA IdleCheque ==
  ASSUME ChequeInv, UNCHANGED vars \/ \E r \in Request : EndUnwritten(r)
  PROVE  ChequeInv'
<1>1. UNCHANGED <<kind, row, book, cached, doc, part, raced, edited, was>>
  BY DEF vars, EndUnwritten, Untouched
<1>2. /\ DOMAIN req' = Request
      /\ \A u \in Request : req'[u].pc = "read" =>
            req'[u].on \in Cheque /\ req'[u].amt \in Int /\ req'[u].st \in Open \cup Closed
  BY DEF vars, EndUnwritten, Answer, NoRead, ChequeInv, Shapes
<1>3. Shapes'
  BY <1>1, <1>2 DEF ChequeInv, Shapes
<1> QED
  BY <1>1, <1>3, OtherLife DEF ChequeInv

\* Every step keeps every life.
LEMMA NextCheque ==
  ASSUME ChequeInv, [Next]_vars
  PROVE  ChequeInv'
<1>1. ASSUME NEW c \in Cheque, NEW a \in Amounts,
             \/ EnterReceipt(c, a) \/ EnterPayment(c, a) \/ EnterExpense(c, a)
             \/ \E k \in {"entered", "issued"} : EnterOnPage(c, k, a)
      PROVE  ChequeInv'
  BY <1>1, EnterCheque DEF EnterReceipt, EnterPayment, EnterExpense, EnterOnPage, Linked, Kind,
     Incoming, Outgoing
<1>2. ASSUME NEW r \in Request, Write(r) PROVE ChequeInv'
  BY <1>2, DepositCheque, ClearCheque, BounceCheque, CancelCheque, EditCheque, DeleteCheque
     DEF Write
<1> QED
  BY <1>1, <1>2, ReadCheque, IdleCheque DEF Next, Serve, Done

\* The invariant behind the theorems below.
THEOREM ChequeSafety == Spec => []ChequeInv
<1>1. ChequeInv /\ [Next]_vars => ChequeInv'
  BY NextCheque
<1> QED
  BY <1>1, InitCheque, PTL DEF Spec

\* Whatever handlers ran in whatever order, the clearing account, the party and the bank are
\* where the status of the cheque says, unless a write was stale or the amount was edited
\* (_create_*_journal_entry).
THEOREM JournalFollows == Spec => []JournalFollowsCheque
<1>1. ASSUME ChequeInv PROVE JournalFollowsCheque
  <2> SUFFICES ASSUME NEW c \in Cheque, Undisturbed(c), row[c].st # "purged"
               PROVE  /\ book[c].held = IF row[c].st \in Open THEN row[c].amt ELSE 0
                      /\ row[c].st \in Closed =>
                           /\ book[c].party = IF row[c].st = "cleared" THEN row[c].amt ELSE 0
                           /\ book[c].bank = IF row[c].st = "cleared" THEN row[c].amt + book[c].fx
                                             ELSE 0
    BY DEF JournalFollowsCheque
  <2>1. Money(c) /\ row[c].st \in Open \cup Closed
    BY <1>1 DEF ChequeInv, Shapes, Life, Undisturbed, Status, Absent
  <2> QED
    BY <2>1 DEF Money, Open, Closed
<1> QED
  BY <1>1, ChequeSafety, PTL

\* The cached balance of a linked party agrees with the journal but for the two cases the
\* code forgets.
THEOREM CacheFollows == Spec => []CacheFollowsJournal
<1>1. ChequeInv => CacheFollowsJournal
  BY DEF ChequeInv, Life, Money, CacheFollowsJournal
<1> QED
  BY <1>1, ChequeSafety, PTL

\* The document of a cheque is confirmed exactly while it is cleared, and one sale paid from
\* it with it (process_cheque_clear, reject_receipt, reject_payment).
THEOREM Confirmed == Spec => []ConfirmedOnClearance
<1>1. ASSUME ChequeInv PROVE ConfirmedOnClearance
  <2> SUFFICES ASSUME NEW c \in Cheque, ~raced[c], row[c].st \notin Absent
               PROVE  /\ doc[c] = "confirmed" <=> kind[c] \in Linked /\ row[c].st = "cleared"
                      /\ doc[c] = "rejected" <=>
                           kind[c] \in Linked /\ row[c].st \in {"bounced", "cancelled"}
                      /\ Cardinality({p \in Part : part[c][p]}) =
                           IF kind[c] = "receipt" /\ row[c].st = "cleared" /\ Part # {} THEN 1 ELSE 0
    BY DEF ConfirmedOnClearance
  <2>1. Papers(c) /\ row[c].st \in Open \cup Closed
    BY <1>1 DEF ChequeInv, Shapes, Life, Status
  <2>2. /\ doc[c] = "confirmed" <=> kind[c] \in Linked /\ row[c].st = "cleared"
        /\ doc[c] = "rejected" <=> kind[c] \in Linked /\ row[c].st \in {"bounced", "cancelled"}
    BY <2>1 DEF Papers, Open, Closed
  <2>3. ASSUME OnePart(c) PROVE Cardinality({p \in Part : part[c][p]}) = 1
    <3>1. PICK p \in Part : part[c][p] /\ \A q \in Part : part[c][q] => q = p
      BY <2>3 DEF OnePart
    <3>2. {q \in Part : part[c][q]} = {p}
      BY <3>1
    <3> QED
      BY <3>2, FS_Singleton
  <2>4. ASSUME NoPart(c) PROVE Cardinality({p \in Part : part[c][p]}) = 0
    <3>1. {q \in Part : part[c][q]} = {}
      BY <2>4 DEF NoPart
    <3> QED
      BY <3>1, FS_EmptySet
  <2> QED
    BY <2>1, <2>2, <2>3, <2>4 DEF Papers
<1> QED
  BY <1>1, ChequeSafety, PTL

\* A cleared or cancelled cheque keeps its status unless the write was stale.
THEOREM FinalKept == Spec => FinalStays
<1> DEFINE Stays == \A c \in Cheque : row[c].st \in {"cleared", "cancelled"} =>
                                         row'[c].st = row[c].st \/ raced'[c]
<1>1. ASSUME ChequeInv, [Next]_vars PROVE Stays
  <2> SUFFICES ASSUME NEW c \in Cheque, row[c].st \in {"cleared", "cancelled"}
               PROVE  row'[c].st = row[c].st \/ raced'[c]
    OBVIOUS
  <2>1. CASE UNCHANGED row
    BY <2>1
  <2>2. ASSUME NEW d \in Cheque, NEW k, NEW a, Enter(d, k, a) PROVE row'[c].st = row[c].st
    BY <1>1, <2>2 DEF Enter, ChequeInv, Shapes
  <2>3. ASSUME NEW r \in Request, Write(r) PROVE row'[c].st = row[c].st \/ raced'[c]
    <3>1. req[r].pc = "read"
      BY <2>3 DEF Write, Deposit, Bounce, Cancel, Delete, Restore, Clear, Edit, Reaches
    <3>2. /\ On(r) \in Cheque /\ DOMAIN row = Cheque
          /\ \A d \in Cheque : DOMAIN row[d] = {"st", "amt", "active"}
      BY <1>1, <3>1, InHand DEF ChequeInv, Shapes
    <3>3. ASSUME NEW s, SetStatus(r, s), Mark(r), On(r) = c => req[r].st # row[c].st
          PROVE  row'[c].st = row[c].st \/ raced'[c]
      <4>1. CASE On(r) = c
        BY <1>1, <3>1, <3>3, <4>1, Marked
      <4>2. CASE On(r) # c
        BY <3>2, <3>3, <4>2 DEF SetStatus
      <4> QED
        BY <4>1, <4>2
    <3>4. CASE Deposit(r)
      BY <3>3, <3>4 DEF Deposit, Reaches, Accepts, MayDeposit
    <3>5. CASE Bounce(r)
      BY <3>3, <3>5 DEF Bounce, Reaches, Accepts, MayBounce
    <3>6. CASE Cancel(r)
      BY <3>3, <3>6 DEF Cancel, Reaches, Accepts, MayCancel
    <3>7. CASE \E g \in Gains : Clear(r, g)
      BY <3>3, <3>7 DEF Clear, Reaches, Accepts, MayClear
    <3>8. CASE \E a \in Amounts : Edit(r, a)
      BY <3>2, <3>8 DEF Edit
    <3>9. CASE Delete(r)
      <4>1. CASE HasLinks(kind[On(r)], req[r].st)
        BY <3>2, <3>9, <4>1 DEF Delete
      <4>2. CASE ~HasLinks(kind[On(r)], req[r].st)
        <5>1. SetStatus(r, "purged") /\ Mark(r) /\ req[r].st = "pending"
          BY <3>9, <4>2 DEF Delete, HasLinks
        <5> QED
          BY <3>3, <5>1
      <4> QED
        BY <4>1, <4>2
    <3>10. CASE Restore(r)
      BY <3>2, <3>10 DEF Restore
    <3> QED
      BY <2>3, <3>4, <3>5, <3>6, <3>7, <3>8, <3>9, <3>10 DEF Write
  <2> QED
    BY <1>1, <2>1, <2>2, <2>3 DEF Next, Serve, Done, vars, EndUnwritten, Untouched, Read,
       EnterReceipt, EnterPayment, EnterExpense, EnterOnPage
<1>2. ChequeInv /\ [Next]_vars => [Stays]_vars
  BY <1>1
<1> QED
  BY <1>2, ChequeSafety, PTL DEF Spec, FinalStays

---------------------------------------------------------------------------
(***************************************************************************)
(* Payroll                                                                 *)
(***************************************************************************)

Fields == DOMAIN NoRun

\* The shape of the rows and of the runs.
SlipShapes ==
    /\ DOMAIN slip = Employee /\ entries \in [Employee -> [Month -> Nat]]
    /\ \A e \in Employee : DOMAIN slip[e] = Month
    /\ \A e \in Employee, m \in Month : slip[e][m].there \in BOOLEAN
    /\ DOMAIN run = Runner /\ \A w \in Runner : DOMAIN run[w] = Fields
    /\ \A w \in Runner : run[w].pc = "run" => run[w].m \in Month

\* Whom a run has handled, and what it worked out for one of them.
Handled(w)      == {d.e : d \in run[w].done}
Deduction(w, e) == CHOOSE d \in run[w].done : d.e = e

\* A run from the page has everybody on a monthly salary still to do, done, or paid
\* already.
NobodyForgotten ==
    \A w \in Runner : run[w].pc = "run" /\ run[w].kind = "branch" =>
        \A e \in Salaried : \/ e \in run[w].todo \/ e \in Handled(w)
                            \/ slip[e][run[w].m].there

\* Only the assistant goes on with a salary that was not posted.
OnlyAssistant == \A w \in Runner : \A d \in run[w].done : d.posted \/ run[w].kind = "assistant"

PayInv == SlipShapes /\ PaidOncePerMonth /\ NobodyForgotten /\ OnlyAssistant

\* A salary is worked out, with the terms the run may have.
Processes(w, e) == \E t \in TermsOf(run[w].kind), posted \in BOOLEAN : Process(w, e, t, posted)

Step(w) == \/ \E m \in Month : \/ \E e \in Employee : BeginOne(w, e, m)
                               \/ \E how \in {"branch", "assistant"} : BeginBranch(w, m, how)
           \/ \E e \in Employee : Skip(w, e) \/ Processes(w, e)
           \/ Commit(w) \/ Fails(w)

---------------------------------------------------------------------------
\* Nothing is paid before the first run.
LEMMA InitPay == PayrollInit => PayInv
<1> SUFFICES ASSUME PayrollInit PROVE PayInv
  OBVIOUS
<1>1. SlipShapes
  BY DEF PayrollInit, SlipShapes, NoSlip, NoRun, Fields
<1>2. PaidOncePerMonth
  BY DEF PayrollInit, PaidOncePerMonth, NoSlip
<1>3. NobodyForgotten /\ OnlyAssistant
  BY DEF PayrollInit, NobodyForgotten, OnlyAssistant, NoRun
<1> QED
  BY <1>1, <1>2, <1>3 DEF PayInv

\* Only a commit writes slips and entries.
LEMMA RowsOnlyAtCommit ==
  ASSUME NEW w \in Runner, Step(w), ~Commit(w)
  PROVE  UNCHANGED <<slip, entries>>
BY DEF Step, BeginOne, BeginBranch, Run, Skip, Processes, Process, Fails, Stop

\* The slip a run writes for an employee, and its entry if it has one.
SlipOf(w, e) == [there |-> TRUE, off |-> Deduction(w, e).off, by |-> run[w].kind]
Books(w, e)  == e \in Handled(w) /\ Deduction(w, e).posted

LEMMA SlipFields ==
  ASSUME NEW w \in Runner, NEW e \in Employee
  PROVE  /\ SlipOf(w, e).there = TRUE /\ SlipOf(w, e).there
         /\ SlipOf(w, e).off = Deduction(w, e).off /\ SlipOf(w, e).by = run[w].kind
BY DEF SlipOf

\* What a commit writes.
LEMMA CommitTables ==
  ASSUME NEW w \in Runner, Commit(w)
  PROVE  /\ slip' = [e \in Employee |-> IF e \in Handled(w)
                        THEN [slip[e] EXCEPT ![run[w].m] = SlipOf(w, e)] ELSE slip[e]]
         /\ entries' = [e \in Employee |-> IF Books(w, e)
                           THEN [entries[e] EXCEPT ![run[w].m] = @ + 1] ELSE entries[e]]
         /\ receivable' = [e \in Employee |->
               receivable[e] - (IF Books(w, e) THEN Deduction(w, e).off ELSE 0)]
         /\ run[w].pc = "run" /\ \A e \in Handled(w) : ~slip[e][run[w].m].there
BY DEF Commit, Handled, Deduction, SlipOf, Books, Free

\* What a commit does to the rows of an employee.
LEMMA CommitRows ==
  ASSUME SlipShapes, NEW w \in Runner, Commit(w)
  PROVE  /\ run[w].m \in Month
         /\ DOMAIN slip' = Employee /\ entries' \in [Employee -> [Month -> Nat]]
         /\ \A e \in Employee : DOMAIN slip'[e] = Month
<1>1. run[w].m \in Month
  BY DEF Commit, SlipShapes
<1>2. DOMAIN slip' = Employee /\ entries' \in [Employee -> [Month -> Nat]]
  BY <1>1, CommitTables DEF SlipShapes
<1>3. ASSUME NEW e \in Employee PROVE DOMAIN slip'[e] = Month
  <2>1. slip'[e] = IF e \in Handled(w)
                     THEN [slip[e] EXCEPT ![run[w].m] = SlipOf(w, e)] ELSE slip[e]
    BY CommitTables
  <2> QED
    BY <2>1 DEF SlipShapes
<1> QED
  BY <1>1, <1>2, <1>3

\* A slip of the month for whoever the run handled, and an entry if it was posted; nothing
\* else.
LEMMA CommitCell ==
  ASSUME SlipShapes, NEW w \in Runner, Commit(w), NEW e \in Employee, NEW m \in Month
  PROVE  IF e \in Handled(w) /\ m = run[w].m
           THEN /\ ~slip[e][m].there /\ slip'[e][m] = SlipOf(w, e)
                /\ entries'[e][m] = IF Books(w, e) THEN entries[e][m] + 1 ELSE entries[e][m]
           ELSE slip'[e][m] = slip[e][m] /\ entries'[e][m] = entries[e][m]
<1> DEFINE k == run[w].m
<1>1. DOMAIN slip[e] = Month /\ entries[e] \in [Month -> Nat]
  BY DEF SlipShapes
<1>2. /\ slip'[e] = IF e \in Handled(w) THEN [slip[e] EXCEPT ![k] = SlipOf(w, e)] ELSE slip[e]
      /\ entries'[e] = IF Books(w, e) THEN [entries[e] EXCEPT ![k] = @ + 1] ELSE entries[e]
      /\ e \in Handled(w) => ~slip[e][k].there
  BY CommitTables
<1>3. Books(w, e) => e \in Handled(w)
  BY DEF Books
<1> HIDE DEF k
<1>4. CASE e \in Handled(w)
  BY <1>1, <1>2, <1>4 DEF k
<1>5. CASE e \notin Handled(w)
  BY <1>2, <1>3, <1>5
<1> QED
  BY <1>4, <1>5

\* So whoever the run handled has a new slip of the month.
LEMMA CommitPaid ==
  ASSUME SlipShapes, NEW w \in Runner, Commit(w), NEW e \in Handled(w), e \in Employee,
         NEW m \in Month, m = run[w].m
  PROVE  /\ ~slip[e][m].there /\ slip'[e][m].there
         /\ slip'[e][m].off = Deduction(w, e).off /\ slip'[e][m].by = run[w].kind
         /\ entries'[e][m] = IF Books(w, e) THEN entries[e][m] + 1 ELSE entries[e][m]
<1>1. slip'[e][m] = SlipOf(w, e)
  BY CommitCell
<1>2. ~slip[e][m].there
  BY CommitTables
<1>3. entries'[e][m] = IF Books(w, e) THEN entries[e][m] + 1 ELSE entries[e][m]
  BY CommitCell
<1> QED
  BY <1>1, <1>2, <1>3, SlipFields

\* A worker's step leaves the other runs alone and its own run whole.
LEMMA RunStep ==
  ASSUME SlipShapes, NEW w \in Runner, Step(w)
  PROVE  /\ DOMAIN run' = Runner
         /\ \A u \in Runner \ {w} : run'[u] = run[u]
         /\ DOMAIN run'[w] = Fields
         /\ run'[w].pc = "run" => run'[w].m \in Month
<1> USE DEF SlipShapes
<1>1. CASE \E m \in Month, e \in Employee : BeginOne(w, e, m)
  BY <1>1 DEF BeginOne, Run, NoRun, Fields
<1>2. CASE \E m \in Month, how \in {"branch", "assistant"} : BeginBranch(w, m, how)
  BY <1>2 DEF BeginBranch, Run, NoRun, Fields
<1>3. CASE \E e \in Employee : Skip(w, e)
  BY <1>3 DEF Skip, NoRun, Fields
<1>4. CASE \E e \in Employee : Processes(w, e)
  BY <1>4 DEF Processes, Process, NoRun, Fields
<1>5. CASE Commit(w)
  BY <1>5 DEF Commit, NoRun, Fields
<1>6. CASE Fails(w)
  BY <1>6 DEF Fails, Stop, NoRun, Fields
<1> QED
  BY <1>1, <1>2, <1>3, <1>4, <1>5, <1>6 DEF Step

\* The run of a branch goes on from where it was.
LEMMA BranchStep ==
  ASSUME SlipShapes, NobodyForgotten, NEW w \in Runner, Step(w), ~Commit(w),
         run'[w].pc = "run", run'[w].kind = "branch", NEW e \in Salaried
  PROVE  e \in run'[w].todo \/ e \in Handled(w)' \/ slip[e][run'[w].m].there
<1> USE DEF SlipShapes
<1>1. CASE \E m \in Month, f \in Employee : BeginOne(w, f, m)
  BY <1>1 DEF BeginOne, Run, NoRun
<1>2. CASE \E m \in Month, how \in {"branch", "assistant"} : BeginBranch(w, m, how)
  BY <1>2, PayrollAssumption DEF BeginBranch, Run, NoRun
<1>3. ASSUME NEW f \in Employee, Skip(w, f)
      PROVE  e \in run'[w].todo \/ e \in Handled(w)' \/ slip[e][run'[w].m].there
  <2>1. /\ run[w].pc = "run" /\ run[w].kind = "branch" /\ run'[w].m = run[w].m
        /\ run'[w].done = run[w].done /\ run'[w].todo = run[w].todo \ {f}
    BY <1>3 DEF Skip, AtHand, NoRun, Fields
  <2>2. slip[f][run[w].m].there \/ f \notin Salaried
    BY <1>3, <2>1 DEF Skip, LeftOut, GoesOn
  <2> QED
    BY <2>1, <2>2 DEF NobodyForgotten, Handled
<1>4. ASSUME NEW f \in Employee, Processes(w, f)
      PROVE  e \in run'[w].todo \/ e \in Handled(w)' \/ slip[e][run'[w].m].there
  <2>1. PICK d : /\ d.e = f
                 /\ run' = [run EXCEPT ![w].todo = @ \ {f}, ![w].done = @ \cup {d}]
    BY <1>4 DEF Processes, Process
  <2>2. /\ run'[w].kind = run[w].kind /\ run'[w].m = run[w].m
        /\ run'[w].done = run[w].done \cup {d} /\ run'[w].todo = run[w].todo \ {f}
    BY <2>1 DEF NoRun, Fields
  <2>3. run[w].pc = "run" /\ run[w].kind = "branch"
    BY <1>4, <2>2 DEF Processes, Process, AtHand
  <2>4. e \in run[w].todo \/ e \in Handled(w) \/ slip[e][run[w].m].there
    BY <2>3 DEF NobodyForgotten
  <2>5. Handled(w)' = Handled(w) \cup {f}
    BY <2>1, <2>2 DEF Handled
  <2> QED
    BY <2>2, <2>4, <2>5
<1>5. CASE Fails(w)
  BY <1>5 DEF Fails, Stop, NoRun
<1> QED
  BY <1>1, <1>2, <1>3, <1>4, <1>5 DEF Step

\* Whoever goes on with a salary that was not posted is the assistant.
LEMMA AssistantStep ==
  ASSUME SlipShapes, OnlyAssistant, NEW w \in Runner, Step(w)
  PROVE  OnlyAssistant'
<1> USE DEF SlipShapes
<1> SUFFICES ASSUME NEW u \in Runner, NEW d \in run'[u].done
             PROVE  d.posted \/ run'[u].kind = "assistant"
  BY DEF OnlyAssistant
<1>1. CASE u # w
  BY <1>1, RunStep DEF OnlyAssistant
<1>2. CASE u = w /\ run'[w].done \subseteq run[w].done /\ run'[w].kind = run[w].kind
  BY <1>2 DEF OnlyAssistant
<1>3. CASE u = w /\ run'[w].done = {}
  BY <1>3
<1>4. CASE u = w /\ \E e \in Employee : Processes(w, e)
  <2>1. PICK e \in Employee, t \in TermsOf(run[w].kind), posted \in BOOLEAN :
           Process(w, e, t, posted)
    BY <1>4 DEF Processes
  <2>2. PICK x : /\ x.posted = posted
                 /\ run' = [run EXCEPT ![w].todo = @ \ {e}, ![w].done = @ \cup {x}]
    BY <2>1 DEF Process
  <2>3. run'[w].kind = run[w].kind /\ run'[w].done = run[w].done \cup {x}
    BY <2>2 DEF NoRun, Fields
  <2>4. posted \/ run[w].kind = "assistant"
    BY <2>1 DEF Process, GoesOn
  <2> QED
    BY <1>4, <2>2, <2>3, <2>4 DEF OnlyAssistant
<1>5. \/ run'[w].done = {}
      \/ run'[w].done \subseteq run[w].done /\ run'[w].kind = run[w].kind
      \/ \E e \in Employee : Processes(w, e)
  <2>1. CASE \E m \in Month, f \in Employee : BeginOne(w, f, m)
    BY <2>1 DEF BeginOne, Run, NoRun
  <2>2. CASE \E m \in Month, how \in {"branch", "assistant"} : BeginBranch(w, m, how)
    BY <2>2 DEF BeginBranch, Run, NoRun
  <2>3. CASE \E e \in Employee : Skip(w, e)
    BY <2>3 DEF Skip, NoRun, Fields
  <2>4. CASE Commit(w)
    BY <2>4 DEF Commit, NoRun
  <2>5. CASE Fails(w)
    BY <2>5 DEF Fails, Stop, NoRun
  <2> QED
    BY <2>1, <2>2, <2>3, <2>4, <2>5 DEF Step
<1> QED
  BY <1>1, <1>2, <1>3, <1>4, <1>5

---------------------------------------------------------------------------
\* A step of one run keeps the slips, the advances and the hands of every run.
LEMMA StepPay ==
  ASSUME PayInv, NEW w \in Runner, Step(w)
  PROVE  PayInv'
<1> USE DEF PayInv
<1>1. CASE ~Commit(w)
  <2>1. UNCHANGED <<slip, entries>>
    BY <1>1, RowsOnlyAtCommit
  <2>2. SlipShapes'
    BY <2>1, RunStep DEF SlipShapes
  <2>3. PaidOncePerMonth'
    BY <2>1 DEF PaidOncePerMonth
  <2>4. NobodyForgotten'
    BY <1>1, <2>1, RunStep, BranchStep DEF NobodyForgotten, Handled
  <2> QED
    BY <2>2, <2>3, <2>4, AssistantStep
<1>2. CASE Commit(w)
  <2>1. \A e \in Employee, m \in Month : slip'[e][m].there \in BOOLEAN
    <3> TAKE e \in Employee, m \in Month
    <3>1. slip[e][m].there \in BOOLEAN
      BY DEF SlipShapes
    <3> QED
      BY <1>2, <3>1, CommitCell, SlipFields
  <2>2. SlipShapes'
    <3>1. /\ DOMAIN slip' = Employee /\ entries' \in [Employee -> [Month -> Nat]]
          /\ \A e \in Employee : DOMAIN slip'[e] = Month
      BY <1>2, CommitRows
    <3>2. /\ DOMAIN run' = Runner /\ \A u \in Runner : DOMAIN run'[u] = Fields
          /\ \A u \in Runner : run'[u].pc = "run" => run'[u].m \in Month
      BY RunStep DEF SlipShapes
    <3> QED
      BY <2>1, <3>1, <3>2 DEF SlipShapes, Fields
  <2>3. PaidOncePerMonth'
    <3> SUFFICES ASSUME NEW e \in Employee, NEW m \in Month
                 PROVE  /\ entries'[e][m] \in {0, 1}
                        /\ entries'[e][m] = 1 => slip'[e][m].there
                        /\ slip'[e][m].there /\ entries'[e][m] = 0
                              => slip'[e][m].by = "assistant"
      BY DEF PaidOncePerMonth
    <3>1. /\ entries[e][m] \in {0, 1}
          /\ entries[e][m] = 1 => slip[e][m].there
          /\ slip[e][m].there /\ entries[e][m] = 0 => slip[e][m].by = "assistant"
      BY DEF PaidOncePerMonth
    <3>2. CASE e \in Handled(w) /\ m = run[w].m
      <4>1. /\ ~slip[e][m].there /\ slip'[e][m].there /\ slip'[e][m].by = run[w].kind
            /\ entries'[e][m] = IF Books(w, e) THEN entries[e][m] + 1 ELSE entries[e][m]
        BY <1>2, <3>2, CommitPaid
      <4>2. Books(w, e) \/ run[w].kind = "assistant"
        <5>1. Deduction(w, e) \in run[w].done
          BY <3>2 DEF Handled, Deduction
        <5> QED
          BY <3>2, <5>1 DEF OnlyAssistant, Books
      <4> QED
        BY <3>1, <4>1, <4>2
    <3>3. CASE ~(e \in Handled(w) /\ m = run[w].m)
      <4>1. slip'[e][m] = slip[e][m] /\ entries'[e][m] = entries[e][m]
        BY <1>2, <3>3, CommitCell
      <4> QED
        BY <3>1, <4>1
    <3> QED
      BY <3>2, <3>3
  <2>4. NobodyForgotten'
    <3> SUFFICES ASSUME NEW u \in Runner, run'[u].pc = "run", run'[u].kind = "branch",
                        NEW e \in Salaried
                 PROVE  e \in run'[u].todo \/ e \in Handled(u)' \/ slip'[e][run'[u].m].there
      BY DEF NobodyForgotten
    <3>1. u # w
      BY <1>2 DEF Commit, NoRun, SlipShapes
    <3>2. run'[u] = run[u] /\ Handled(u)' = Handled(u)
      BY <3>1, RunStep DEF Handled
    <3>3. e \in run[u].todo \/ e \in Handled(u) \/ slip[e][run[u].m].there
      BY <3>2 DEF NobodyForgotten
    <3>4. run[u].m \in Month /\ e \in Employee
      BY <3>2, PayrollAssumption DEF SlipShapes
    <3>5. slip[e][run[u].m].there => slip'[e][run[u].m].there
      BY <1>2, <3>4, CommitCell, SlipFields
    <3> QED
      BY <3>2, <3>3, <3>5
  <2> QED
    BY <2>2, <2>3, <2>4, AssistantStep
<1> QED
  BY <1>1, <1>2

\* So does every step.
LEMMA NextPay ==
  ASSUME PayInv, [PayrollNext]_payroll
  PROVE  PayInv'
<1>1. CASE UNCHANGED payroll
  BY <1>1 DEF payroll, PayInv, SlipShapes, PaidOncePerMonth, NobodyForgotten, OnlyAssistant, Handled
<1>2. CASE \E a \in Advance, e \in Employee, x \in Loans : CreateAdvance(a, e, x)
  <2>1. UNCHANGED <<slip, entries, run>>
    BY <1>2 DEF CreateAdvance
  <2> QED
    BY <2>1 DEF PayInv, SlipShapes, PaidOncePerMonth, NobodyForgotten, OnlyAssistant, Handled
<1>3. CASE \E w \in Runner : Step(w)
  BY <1>3, StepPay
<1> QED
  BY <1>1, <1>2, <1>3 DEF PayrollNext, Step, Processes, NobodyRuns

\* PayInv is an invariant for any number of employees, months, advances and workers.
THEOREM PaySafety == PayrollSpec => []PayInv
<1>1. PayrollInit => PayInv
  BY InitPay
<1>2. PayInv /\ [PayrollNext]_payroll => PayInv'
  BY NextPay
<1> QED
  BY <1>1, <1>2, PTL DEF PayrollSpec

\* Whatever runs overlap, the journal has at most one payment of an employee for a month,
\* none without a slip, and one for every slip but those the assistant left without an
\* entry: process_payroll checks without a lock, the unique index makes the later run fail
\* with everything it posted.
THEOREM PaidOnce == PayrollSpec => []PaidOncePerMonth
BY PaySafety, PTL DEF PayInv

\* generate_branch_payroll from the page pays everybody of the branch who is on a monthly
\* salary, or nobody: when it succeeds each of them has a slip of the month, its own or one
\* it found or ran into.
THEOREM BranchPaidWhole == PayrollSpec => BranchIsWhole
<1> DEFINE A == \A w \in Runner : Commit(w) /\ run[w].kind = "branch"
                                     => \A e \in Salaried : slip'[e][run[w].m].there
<1>1. PayInv /\ [PayrollNext]_payroll => [A]_payroll
  <2> SUFFICES ASSUME PayInv, NEW w \in Runner, Commit(w), run[w].kind = "branch",
                      NEW e \in Salaried
               PROVE  slip'[e][run[w].m].there
    OBVIOUS
  <2>1. run[w].pc = "run" /\ run[w].todo = {}
    BY DEF Commit
  <2>2. e \in Handled(w) \/ slip[e][run[w].m].there
    BY <2>1 DEF PayInv, NobodyForgotten
  <2>3. run[w].m \in Month /\ e \in Employee
    BY CommitRows, PayrollAssumption DEF PayInv
  <2> QED
    BY <2>2, <2>3, CommitCell, SlipFields DEF PayInv
<1> QED
  BY <1>1, PaySafety, PTL DEF PayrollSpec, BranchIsWhole

---------------------------------------------------------------------------
(***************************************************************************)
(* Advances                                                                *)
(***************************************************************************)

Mine(e)  == {a \in Advance : adv[a].of = e}
LeftOf   == [a \in Advance |-> Left(a)]
GoneOf   == [a \in Advance |-> adv[a].gone]

Loan == [of : Employee \union {"nobody"}, total : Nat, gone : Nat, open : BOOLEAN]

LoanTypes ==
    /\ adv \in [Advance -> Loan] /\ \A a \in Advance : adv[a].gone <= adv[a].total
    /\ receivable \in [Employee -> Int]
    /\ \A e \in Employee, m \in Month :
          slip[e][m].off \in Nat /\ (~slip[e][m].there => slip[e][m].off = 0)

\* A deduction a run has worked out: an advance it draws on has not been repaid any less
\* since, and is open unless it has been repaid more - or the employee's advances were
\* written over.
Sound(d) ==
    /\ d.e \in Employee /\ d.off \in Nat
    /\ DOMAIN d.f \subseteq Advance /\ DOMAIN d.was = DOMAIN d.f
    /\ SumFunctionOnSet(d.f, DOMAIN d.f) = d.off
    /\ \A a \in DOMAIN d.f :
          /\ d.f[a] \in Nat /\ d.was[a] \in Nat
          /\ adv[a].of = d.e /\ d.was[a] + d.f[a] <= adv[a].total
          /\ d.e \notin overlapped => /\ d.was[a] <= adv[a].gone
                                      /\ d.was[a] = adv[a].gone => adv[a].open = TRUE

\* The ledger's claim and what was taken off the salaries agree with the advances.
Square(e) == /\ receivable[e] = SumFunctionOnSet(LeftOf, Pending(e))
                                  + SumFunctionOnSet(Deducted(e), Untold(e))
             /\ SumFunctionOnSet(Deducted(e), Month) = SumFunctionOnSet(GoneOf, Mine(e))

CollectInv == /\ SlipShapes /\ LoanTypes
              /\ \A w \in Runner : \A d \in run[w].done : Sound(d)
              /\ \A e \in Employee \ overlapped : Square(e)

\* Fields of an advance.
LEMMA LoanFields ==
  ASSUME LoanTypes, NEW a \in Advance
  PROVE  /\ adv[a].of \in Employee \union {"nobody"} /\ adv[a].total \in Nat
         /\ adv[a].gone \in Nat /\ adv[a].open \in BOOLEAN /\ Left(a) \in Nat
         /\ DOMAIN adv[a] = {"of", "total", "gone", "open"}
<1>1. adv[a] \in Loan /\ adv[a].gone <= adv[a].total
  BY DEF LoanTypes
<1>2. /\ adv[a].of \in Employee \union {"nobody"} /\ adv[a].total \in Nat
      /\ adv[a].gone \in Nat /\ adv[a].open \in BOOLEAN
      /\ DOMAIN adv[a] = {"of", "total", "gone", "open"}
  BY <1>1 DEF Loan
<1> QED
  BY <1>1, <1>2 DEF Left

\* What is due is a natural number.
LEMMA DueNatural ==
  ASSUME LoanTypes, NEW e
  PROVE  Due(e) \in Nat
<1> DEFINE S == Pending(e)
           f == [a \in Advance |-> Left(a)]
<1>1. IsFiniteSet(S)
  BY PayrollAssumption, FS_Subset DEF Pending
<1>2. \A a \in S : f[a] \in Nat
  BY LoanFields DEF Pending
<1> HIDE DEF S, f
<1>3. SumFunctionOnSet(f, S) \in Nat
  BY <1>1, <1>2, SumNatural
<1> QED
  BY <1>3 DEF Due, S, f

\* What no entry tells the ledger is a whole number.
LEMMA UntoldType ==
  ASSUME LoanTypes, NEW e \in Employee
  PROVE  SumFunctionOnSet(Deducted(e), Untold(e)) \in Int
<1>1. IsFiniteSet(Untold(e)) /\ \A m \in Untold(e) : Deducted(e)[m] \in Int
  BY PayrollAssumption, FS_Subset DEF Untold, Deducted, LoanTypes
<1> QED
  BY <1>1, SumType

\* The invariant holds at the start.
LEMMA InitCollect == PayrollInit => CollectInv
<1> SUFFICES ASSUME PayrollInit PROVE CollectInv
  OBVIOUS
<1>1. SlipShapes
  BY InitPay DEF PayInv
<1>2. LoanTypes
  <2>1. ASSUME NEW a \in Advance PROVE adv[a] \in Loan /\ adv[a].gone <= adv[a].total
    BY DEF PayrollInit, Loan
  <2>2. DOMAIN adv = Advance /\ adv = [a \in Advance |-> adv[a]]
    BY DEF PayrollInit
  <2>3. adv \in [Advance -> Loan]
    BY <2>1, <2>2
  <2> QED
    BY <2>1, <2>3 DEF PayrollInit, LoanTypes, NoSlip, NoRun
<1>3. \A w \in Runner : run[w].done = {}
  BY DEF PayrollInit, NoRun
<1>4. ASSUME NEW e \in Employee PROVE Square(e)
  <2>1. Pending(e) = {} /\ receivable[e] = 0 /\ Mine(e) = {}
    BY PayrollAssumption DEF PayrollInit, Pending, Mine
  <2>2. IsFiniteSet(Month) /\ IsFiniteSet({}) /\ Untold(e) = Month
    BY PayrollAssumption, FS_EmptySet DEF PayrollInit, Untold
  <2>3. SumFunctionOnSet(LeftOf, {}) = 0 /\ SumFunctionOnSet(GoneOf, {}) = 0
    BY <2>2, SumUnfolds
  <2>4. SumFunctionOnSet(Deducted(e), Month) = 0
    <3> DEFINE f == Deducted(e)
    <3>1. \A m \in Month : f[m] = 0
      BY DEF PayrollInit, Deducted, NoSlip
    <3> HIDE DEF f
    <3>2. PICK T \in SUBSET Month : T = {}
      OBVIOUS
    <3>3. SumFunctionOnSet(f, Month) = SumFunctionOnSet(f, T)
      BY <2>2, <3>1, <3>2, SumDrops
    <3>4. SumFunctionOnSet(f, T) = 0
      BY <2>2, <3>2, SumUnfolds
    <3> QED
      BY <3>3, <3>4 DEF f
  <2> QED
    BY <2>1, <2>2, <2>3, <2>4 DEF Square
<1> QED
  BY <1>1, <1>2, <1>3, <1>4 DEF CollectInv

\* The invariant gives the property, and is what the property says but for the runs.
LEMMA Collected == CollectInv => AdvancesCollected
<1> SUFFICES ASSUME CollectInv, NEW e \in Employee \ overlapped
             PROVE  /\ receivable[e] = Due(e) + SumFunctionOnSet(Deducted(e), Untold(e))
                    /\ SumFunctionOnSet(Deducted(e), Month)
                         = SumFunctionOnSet([a \in Advance |-> adv[a].gone],
                                            {a \in Advance : adv[a].of = e})
                    /\ \A a \in {a \in Advance : adv[a].of = e} : Left(a) >= 0
  BY DEF AdvancesCollected
<1>1. LoanTypes /\ Square(e)
  BY DEF CollectInv
<1>2. \A a \in Advance : Left(a) >= 0
  BY <1>1, LoanFields
<1> QED
  BY <1>1, <1>2 DEF Square, Due, LeftOf, GoneOf, Mine

---------------------------------------------------------------------------
\* An advance is granted: nobody drew on it, and its employee owes that much more.
LEMMA Granted ==
  ASSUME CollectInv, SlipShapes', NEW a \in Advance, NEW e \in Employee, NEW x \in Loans,
         CreateAdvance(a, e, x)
  PROVE  CollectInv'
<1> DEFINE new == [of |-> e, total |-> x, gone |-> 0, open |-> TRUE]
<1>1. /\ LoanTypes /\ adv[a].of = "nobody" /\ "nobody" \notin Employee
      /\ adv' = [adv EXCEPT ![a] = new] /\ adv \in [Advance -> Loan]
      /\ receivable' = [receivable EXCEPT ![e] = @ + x] /\ receivable \in [Employee -> Int]
      /\ x \in Nat /\ UNCHANGED <<slip, entries, run, runs, overlapped>>
  BY PayrollAssumption DEF CreateAdvance, CollectInv, LoanTypes
<1>2. new \in Loan /\ new.gone <= new.total
  BY <1>1 DEF Loan
<1>3. adv' \in [Advance -> Loan] /\ adv'[a] = new /\ \A b \in Advance \ {a} : adv'[b] = adv[b]
  <2> HIDE DEF new
  <2> QED
    BY <1>1, <1>2
<1>4. LoanTypes'
  <2>1. \A b \in Advance : adv'[b].gone <= adv'[b].total
    BY <1>1, <1>2, <1>3 DEF LoanTypes
  <2>2. receivable' \in [Employee -> Int]
    BY <1>1
  <2> HIDE DEF new
  <2> QED
    BY <1>1, <1>3, <2>1, <2>2 DEF LoanTypes
<1>5. ASSUME NEW w \in Runner, NEW d \in run'[w].done PROVE Sound(d)'
  <2>1. Sound(d)
    BY <1>1, <1>5 DEF CollectInv
  <2>2. \A b \in DOMAIN d.f : b \in Advance \ {a}
    BY <1>1, <2>1 DEF Sound
  <2>3. \A b \in DOMAIN d.f : adv'[b] = adv[b]
    BY <1>3, <2>2
  <2> QED
    BY <1>1, <2>1, <2>3 DEF Sound
<1>6. ASSUME NEW g \in Employee \ overlapped PROVE Square(g)'
  <2>1. Square(g)
    BY DEF CollectInv
  <2>2. Deducted(g)' = Deducted(g) /\ Untold(g)' = Untold(g)
    BY <1>1 DEF Deducted, Untold
  <2>3. \A b \in Advance : b # a => LeftOf'[b] = LeftOf[b] /\ GoneOf'[b] = GoneOf[b]
    BY <1>3 DEF LeftOf, GoneOf, Left
  <2>4. LeftOf'[a] = x /\ GoneOf'[a] = 0
    BY <1>1, <1>3 DEF LeftOf, GoneOf, Left
  <2>5. a \notin Pending(g) /\ a \notin Mine(g)
    BY <1>1 DEF Pending, Mine
  <2>6. IsFiniteSet(Pending(g)) /\ IsFiniteSet(Mine(g))
    BY PayrollAssumption, FS_Subset DEF Pending, Mine
  <2>7. \A b \in Advance : LeftOf'[b] \in Int /\ GoneOf'[b] \in Int
    <3>1. \A b \in Advance : LeftOf[b] \in Int /\ GoneOf[b] \in Int
      BY <1>1, LoanFields DEF LeftOf, GoneOf
    <3> QED
      BY <1>1, <2>3, <2>4, <3>1
  <2>8. /\ SumFunctionOnSet(LeftOf', Pending(g)) = SumFunctionOnSet(LeftOf, Pending(g))
        /\ SumFunctionOnSet(GoneOf', Mine(g)) = SumFunctionOnSet(GoneOf, Mine(g))
    <3>1. /\ \A b \in Pending(g) : LeftOf'[b] = LeftOf[b]
          /\ \A b \in Mine(g) : GoneOf'[b] = GoneOf[b]
      BY <2>3, <2>5 DEF Pending, Mine
    <3> QED
      BY <2>6, <3>1, SumSame
  <2>9. CASE g # e
    <3>1. Pending(g)' = Pending(g) /\ Mine(g)' = Mine(g)
      BY <1>1, <1>3, <2>9 DEF Pending, Mine
    <3>2. receivable'[g] = receivable[g]
      BY <1>1, <2>9
    <3> QED
      BY <2>1, <2>2, <2>8, <3>1, <3>2 DEF Square
  <2>10. CASE g = e
    <3>1. Pending(g)' = Pending(g) \union {a} /\ Mine(g)' = Mine(g) \union {a}
      BY <1>1, <1>3, <2>10 DEF Pending, Mine
    <3>2. /\ \A b \in Pending(g) : LeftOf'[b] \in Int
          /\ \A b \in Mine(g) : GoneOf'[b] \in Int
          /\ LeftOf'[a] \in Int /\ GoneOf'[a] \in Int
      BY <2>7 DEF Pending, Mine
    <3>3. SumFunctionOnSet(LeftOf', Pending(g) \union {a})
            = SumFunctionOnSet(LeftOf', Pending(g)) + LeftOf'[a]
      BY <2>5, <2>6, <3>2, SumAdds
    <3>4. SumFunctionOnSet(GoneOf', Mine(g) \union {a})
            = SumFunctionOnSet(GoneOf', Mine(g)) + GoneOf'[a]
      BY <2>5, <2>6, <3>2, SumAdds
    <3>5. SumFunctionOnSet(GoneOf', Mine(g)) \in Int
      BY <2>6, <3>2, SumType
    <3>6. receivable'[g] = receivable[g] + x /\ receivable[g] \in Int
      BY <1>1, <2>10
    <3>7. SumFunctionOnSet(LeftOf', Pending(g)) \in Int
      BY <2>6, <3>2, SumType
    <3>8. PICK n : n = SumFunctionOnSet(Deducted(g), Untold(g))
      OBVIOUS
    <3>9. n \in Int
      BY <1>1, <3>8, UntoldType
    <3>10. SumFunctionOnSet(Deducted(g)', Untold(g)') = n
      BY <2>2, <3>8
    <3>11. receivable'[g] = SumFunctionOnSet(LeftOf', Pending(g)') + n
      <4>1. receivable[g] = SumFunctionOnSet(LeftOf', Pending(g)) + n
        BY <2>1, <2>8, <3>8 DEF Square
      <4>2. SumFunctionOnSet(LeftOf', Pending(g)') = SumFunctionOnSet(LeftOf', Pending(g)) + x
        BY <2>4, <3>1, <3>3
      <4>3. x \in Int
        BY <1>1
      <4> QED
        BY <3>6, <3>7, <3>9, <4>1, <4>2, <4>3
    <3>12. SumFunctionOnSet(GoneOf', Mine(g)') = SumFunctionOnSet(GoneOf, Mine(g))
      BY <2>4, <2>8, <3>1, <3>4, <3>5
    <3>13. SumFunctionOnSet(Deducted(g)', Month) = SumFunctionOnSet(GoneOf', Mine(g)')
      BY <2>1, <2>2, <3>12 DEF Square
    <3> QED
      BY <3>10, <3>11, <3>13 DEF Square
  <2> QED
    BY <2>9, <2>10
<1> QED
  BY <1>1, <1>4, <1>5, <1>6 DEF CollectInv

\* A step that leaves the advances and the books alone.
LEMMA BooksAlone ==
  ASSUME CollectInv, SlipShapes', UNCHANGED <<adv, slip, entries, receivable, overlapped>>,
         \A w \in Runner : \A d \in run'[w].done : Sound(d)
  PROVE  CollectInv'
<1>1. LoanTypes'
  BY DEF CollectInv, LoanTypes
<1>2. \A d : Sound(d)' <=> Sound(d)
  BY DEF Sound
<1>3. \A e \in Employee : Square(e)' <=> Square(e)
  BY DEF Square, LeftOf, GoneOf, Deducted, Untold, Mine, Pending, Left
<1> QED
  BY <1>1, <1>2, <1>3 DEF CollectInv

\* A salary before the advances is a whole number.
LEMMA GrossType ==
  ASSUME NEW how, NEW t \in TermsOf(how), NEW e \in Employee
  PROVE  Gross(e, t) \in Int
<1>1. t.days \in Nat /\ t.plus \in Nat /\ t.minus \in Nat
  BY PayrollAssumption DEF TermsOf, Plain
<1>2. Salary[e] \in Nat
  BY PayrollAssumption
<1> QED
  BY <1>1, <1>2 DEF Gross

\* The deduction process_payroll works out is sound, posted or not.
LEMMA WorkedOut ==
  ASSUME CollectInv, NEW e \in Employee, NEW gross \in Int, NEW posted \in BOOLEAN,
         ~Refused(e, gross), NEW f \in Splits(e, Withheld(e, gross))
  PROVE  Sound([e |-> e, off |-> Withheld(e, gross), f |-> f,
                was |-> [a \in Pending(e) |-> adv[a].gone], posted |-> posted])
<1> DEFINE off == Withheld(e, gross)
           d == [e |-> e, off |-> off, f |-> f, was |-> [a \in Pending(e) |-> adv[a].gone],
                 posted |-> posted]
<1>1. LoanTypes /\ Due(e) \in Nat
  BY DueNatural DEF CollectInv
<1>2. off \in Nat
  BY <1>1 DEF Withheld, Refused
<1> HIDE DEF off
<1>3. /\ f \in [Pending(e) -> 0 .. off] /\ SumFunctionOnSet(f, Pending(e)) = off
      /\ \A a \in Pending(e) : f[a] <= Left(a)
  BY DEF Splits, off
<1>4. /\ d.e = e /\ d.off = off /\ d.f = f /\ DOMAIN d.f = Pending(e)
      /\ DOMAIN d.was = Pending(e) /\ Pending(e) \subseteq Advance
      /\ \A a \in Pending(e) : d.was[a] = adv[a].gone
  BY <1>3 DEF Pending
<1> HIDE DEF d
<1>5. ASSUME NEW a \in Pending(e)
      PROVE  /\ d.f[a] \in Nat /\ d.was[a] \in Nat
             /\ adv[a].of = d.e /\ d.was[a] + d.f[a] <= adv[a].total
             /\ d.was[a] <= adv[a].gone /\ adv[a].open = TRUE
  <2>1. /\ a \in Advance /\ adv[a].of = e /\ adv[a].open = TRUE
        /\ adv[a].gone \in Nat /\ adv[a].total \in Nat
    BY <1>1, LoanFields DEF Pending
  <2>2. f[a] \in Nat /\ f[a] <= adv[a].total - adv[a].gone
    BY <1>2, <1>3 DEF Left
  <2> QED
    BY <1>4, <2>1, <2>2
<1>6. Sound(d)
  BY <1>2, <1>3, <1>4, <1>5 DEF Sound
<1> QED
  BY <1>6 DEF d, off

---------------------------------------------------------------------------
(***************************************************************************)
(* The commit of a run                                                     *)
(***************************************************************************)

\* What the run of w took off each advance of e.
Share(w, e) == [a \in Advance |-> IF a \in DOMAIN Deduction(w, e).f
                                   THEN Deduction(w, e).f[a] ELSE 0]

\* A run holds exactly one deduction of every employee it has handled.
LEMMA TheDeduction ==
  ASSUME CollectInv, NEW w \in Runner, NEW e \in Handled(w)
  PROVE  /\ Deduction(w, e) \in run[w].done /\ Deduction(w, e).e = e /\ e \in Employee
         /\ Sound(Deduction(w, e)) /\ Deduction(w, e).off \in Nat
         /\ SumFunctionOnSet(Share(w, e), Mine(e)) = Deduction(w, e).off
         /\ \A a \in Advance : Share(w, e)[a] \in Nat /\ (Share(w, e)[a] # 0 => adv[a].of = e)
<1>1. \E d \in run[w].done : d.e = e
  BY DEF Handled
<1>2. Deduction(w, e) \in run[w].done /\ Deduction(w, e).e = e
  BY <1>1 DEF Deduction
<1>3. PICK d \in run[w].done : d = Deduction(w, e)
  BY <1>2
<1>4. Sound(d) /\ d.e = e
  BY <1>2, <1>3 DEF CollectInv
<1>5. PICK F : F = Share(w, e)
  OBVIOUS
<1>6. \A a \in Advance : F[a] = IF a \in DOMAIN d.f THEN d.f[a] ELSE 0
  BY <1>3, <1>5 DEF Share
<1>7. \A a \in Advance : F[a] \in Nat /\ (F[a] # 0 => adv[a].of = e)
  BY <1>4, <1>6 DEF Sound
<1>8. SumFunctionOnSet(F, Mine(e)) = d.off
  <2>1. IsFiniteSet(Mine(e)) /\ \A a \in Mine(e) : F[a] \in Int
    BY <1>7, PayrollAssumption, FS_Subset DEF Mine
  <2>2. PICK T \in SUBSET Mine(e) : T = DOMAIN d.f
    <3>1. DOMAIN d.f \subseteq Mine(e)
      BY <1>4 DEF Sound, Mine
    <3> QED
      BY <3>1
  <2>3. \A a \in Mine(e) \ T : F[a] = 0
    BY <1>6, <2>2 DEF Mine
  <2>4. SumFunctionOnSet(F, Mine(e)) = SumFunctionOnSet(F, T)
    BY <2>1, <2>3, SumDrops
  <2>5. IsFiniteSet(T) /\ \A a \in T : F[a] = d.f[a]
    BY <1>6, <2>1, <2>2, FS_Subset DEF Mine
  <2>6. SumFunctionOnSet(F, T) = SumFunctionOnSet(d.f, T)
    BY <2>5, SumSame
  <2> QED
    BY <1>4, <2>2, <2>4, <2>6 DEF Sound
<1> QED
  BY <1>2, <1>3, <1>4, <1>5, <1>7, <1>8 DEF Sound

\* What a commit does to one advance.
LEMMA CommitLoan ==
  ASSUME CollectInv, NEW w \in Runner, Commit(w), NEW a \in Advance
  PROVE  /\ adv'[a] \in Loan /\ adv'[a].of = adv[a].of /\ adv'[a].total = adv[a].total
         /\ adv'[a].gone <= adv'[a].total
         /\ \/ /\ adv'[a] = adv[a]
               /\ adv[a].of \in Handled(w) => Share(w, adv[a].of)[a] = 0
            \/ /\ adv[a].of \in Handled(w) /\ Share(w, adv[a].of)[a] > 0
               /\ a \in DOMAIN Deduction(w, adv[a].of).f
               /\ adv'[a].gone = Deduction(w, adv[a].of).was[a] + Share(w, adv[a].of)[a]
               /\ adv'[a].open = (adv[a].open /\ adv'[a].gone < adv[a].total)
               /\ adv[a].of \notin overlapped'
                     => adv[a].gone = Deduction(w, adv[a].of).was[a]
<1> DEFINE e == adv[a].of
           d == Deduction(w, e)
           drawn == adv[a].of \in Handled(w) /\ a \in DOMAIN d.f /\ d.f[a] > 0
           gone == d.was[a] + d.f[a]
<1>1. adv'[a] = IF drawn THEN [adv[a] EXCEPT !.gone = gone,
                                            !.open = @ /\ ~WorkedOff(adv[a].total, gone)]
                         ELSE adv[a]
  BY DEF Commit, Handled, Deduction
<1>2. /\ adv[a] \in Loan /\ adv[a].total \in Nat /\ adv[a].gone \in Nat
      /\ adv[a].open \in BOOLEAN /\ DOMAIN adv[a] = {"of", "total", "gone", "open"}
      /\ adv[a].gone <= adv[a].total
  BY LoanFields DEF CollectInv, LoanTypes
<1>3. CASE ~drawn
  <2>1. adv'[a] = adv[a]
    BY <1>1, <1>3
  <2>2. e \in Handled(w) => Share(w, e)[a] = 0
    <3>1. SUFFICES ASSUME e \in Handled(w) PROVE Share(w, e)[a] = 0
      OBVIOUS
    <3>2. Share(w, e)[a] = IF a \in DOMAIN d.f THEN d.f[a] ELSE 0
      BY DEF Share
    <3>3. Share(w, e)[a] \in Nat
      BY <3>1, TheDeduction
    <3> QED
      BY <1>3, <3>1, <3>2, <3>3
  <2> QED
    BY <1>2, <2>1, <2>2
<1>4. CASE drawn
  <2>1. /\ d.e = e /\ Sound(d) /\ d \in run[w].done
    BY <1>4, TheDeduction
  <2>2. d.f[a] \in Nat /\ d.was[a] \in Nat /\ gone \in Nat /\ gone <= adv[a].total
    BY <1>4, <2>1 DEF Sound
  <2>3. Share(w, e)[a] = d.f[a]
    BY <1>4 DEF Share
  <2>4. PICK t \in BOOLEAN : t = (adv[a].open /\ ~WorkedOff(adv[a].total, gone))
    OBVIOUS
  <2>5. PICK g \in Nat : g = gone
    BY <2>2
  <2>6. adv'[a] = [[adv[a] EXCEPT !.gone = g] EXCEPT !.open = t]
    BY <1>1, <1>4, <2>4, <2>5
  <2>7. /\ adv'[a].of = e /\ adv'[a].total = adv[a].total /\ adv'[a].gone = g
        /\ adv'[a].open = t /\ adv'[a] \in Loan
    BY <1>2, <2>6 DEF Loan
  <2>8. t = (adv[a].open /\ g < adv[a].total)
    BY <1>2, <2>4, <2>5 DEF WorkedOff
  <2>9. e \notin overlapped' => adv[a].gone = d.was[a]
    <3>1. overlapped' = overlapped \cup
              {f \in Handled(w) :
                 \E b \in {c \in DOMAIN Deduction(w, f).f : Deduction(w, f).f[c] > 0} :
                    adv[b].gone # Deduction(w, f).was[b]}
      BY DEF Commit, Handled, Deduction
    <3> QED
      BY <1>4, <3>1
  <2>10. adv'[a].open = (adv[a].open /\ adv'[a].gone < adv[a].total)
    BY <2>7, <2>8
  <2>11. /\ e \in Handled(w) /\ Share(w, e)[a] > 0 /\ a \in DOMAIN d.f
         /\ adv'[a].gone = d.was[a] + Share(w, e)[a] /\ adv'[a].gone <= adv'[a].total
    BY <1>4, <2>2, <2>3, <2>5, <2>7
  <2> QED
    BY <2>7, <2>9, <2>10, <2>11
<1> QED
  BY <1>3, <1>4

\* A commit forgets nobody whose advances were written over.
LEMMA OverlapsStay ==
  ASSUME NEW w \in Runner, Commit(w)
  PROVE  overlapped \subseteq overlapped'
BY DEF Commit

\* After a commit the accounts of an employee square, if nothing of theirs was written over.
LEMMA CommitSquare ==
  ASSUME CollectInv, PaidOncePerMonth, NEW w \in Runner, Commit(w), NEW e \in Employee \ overlapped'
  PROVE  Square(e)'
<1> DEFINE off == IF e \in Handled(w) THEN Deduction(w, e).off ELSE 0
<1>1. /\ Square(e) /\ LoanTypes /\ SlipShapes /\ adv \in [Advance -> Loan]
      /\ receivable \in [Employee -> Int]
  BY DEF Commit, CollectInv, LoanTypes
<1>2. PICK F : /\ \A a \in Advance : F[a] = IF e \in Handled(w) THEN Share(w, e)[a] ELSE 0
               /\ \A a \in Advance : F[a] \in Nat /\ (F[a] # 0 => adv[a].of = e)
  <2> DEFINE F == [a \in Advance |-> IF e \in Handled(w) THEN Share(w, e)[a] ELSE 0]
  <2>1. \A a \in Advance : F[a] \in Nat /\ (F[a] # 0 => adv[a].of = e)
    BY TheDeduction
  <2> QED
    BY <2>1
<1>3. off \in Nat /\ SumFunctionOnSet(F, Mine(e)) = off
  <2>1. CASE e \in Handled(w)
    <3>1. IsFiniteSet(Mine(e)) /\ \A a \in Mine(e) : F[a] = Share(w, e)[a]
      BY <1>2, <2>1, PayrollAssumption, FS_Subset DEF Mine
    <3>2. SumFunctionOnSet(F, Mine(e)) = SumFunctionOnSet(Share(w, e), Mine(e))
      BY <3>1, SumSame
    <3> QED
      BY <2>1, <3>2, TheDeduction
  <2>2. CASE e \notin Handled(w)
    <3>1. IsFiniteSet(Mine(e)) /\ \A a \in Mine(e) : F[a] = 0
      BY <1>2, <2>2, PayrollAssumption, FS_Subset DEF Mine
    <3>2. PICK T \in SUBSET Mine(e) : T = {}
      OBVIOUS
    <3>3. SumFunctionOnSet(F, Mine(e)) = SumFunctionOnSet(F, T)
      BY <3>1, <3>2, SumDrops
    <3>4. SumFunctionOnSet(F, T) = 0
      BY <3>2, FS_EmptySet, SumUnfolds
    <3> QED
      BY <2>2, <3>3, <3>4
  <2> QED
    BY <2>1, <2>2
<1> HIDE DEF off
<1>4. ASSUME NEW a \in Mine(e)
      PROVE  /\ adv'[a].of = e /\ adv'[a].total = adv[a].total
             /\ adv'[a].gone = adv[a].gone + F[a]
             /\ adv'[a].open = (adv[a].open /\ (F[a] = 0 \/ adv'[a].gone < adv[a].total))
             /\ F[a] # 0 => adv[a].open
             /\ adv[a].gone \in Nat /\ adv[a].total \in Nat
  <2>1. /\ a \in Advance /\ adv[a].of = e /\ adv[a].gone \in Nat /\ adv[a].total \in Nat
        /\ adv[a].open \in BOOLEAN
    BY <1>1, LoanFields DEF Mine
  <2>2. CASE adv'[a] = adv[a] /\ (e \in Handled(w) => Share(w, e)[a] = 0)
    <3>1. F[a] = 0
      BY <1>2, <2>1, <2>2
    <3>2. adv[a].open = (adv[a].open /\ (F[a] = 0 \/ adv'[a].gone < adv[a].total))
      BY <2>1, <3>1
    <3> QED
      BY <2>1, <2>2, <3>1, <3>2
  <2>3. CASE /\ e \in Handled(w) /\ Share(w, e)[a] > 0 /\ a \in DOMAIN Deduction(w, e).f
             /\ adv'[a].gone = Deduction(w, e).was[a] + Share(w, e)[a]
             /\ adv'[a].open = (adv[a].open /\ adv'[a].gone < adv[a].total)
             /\ adv[a].gone = Deduction(w, e).was[a]
             /\ adv'[a].of = e /\ adv'[a].total = adv[a].total
    <3>1. F[a] = Share(w, e)[a] /\ F[a] # 0
      BY <1>2, <2>1, <2>3
    <3>2. PICK d : d = Deduction(w, e)
      OBVIOUS
    <3>3. Sound(d) /\ d.e = e /\ e \notin overlapped
      BY <2>3, <3>2, TheDeduction, OverlapsStay
    <3>4. adv[a].open = TRUE
      BY <2>3, <3>2, <3>3 DEF Sound
    <3>5. adv'[a].gone = adv[a].gone + F[a]
      BY <2>3, <3>1
    <3>6. adv'[a].open = (adv[a].open /\ (F[a] = 0 \/ adv'[a].gone < adv[a].total))
      BY <2>3, <3>1
    <3> QED
      BY <2>1, <2>3, <3>4, <3>5, <3>6
  <2>4. adv'[a].of = e /\ adv'[a].total = adv[a].total
    BY <2>1, CommitLoan
  <2> QED
    BY <2>1, <2>2, <2>3, <2>4, CommitLoan
<1>5. Mine(e)' = Mine(e)
  <2>1. \A a \in Advance : adv'[a].of = adv[a].of
    BY CommitLoan
  <2> QED
    BY <2>1 DEF Mine
<1>6. IsFiniteSet(Mine(e)) /\ IsFiniteSet(Pending(e)) /\ Pending(e) \subseteq Mine(e)
  BY PayrollAssumption, FS_Subset DEF Mine, Pending
<1>7. SumFunctionOnSet(GoneOf', Mine(e)) = SumFunctionOnSet(GoneOf, Mine(e)) + off
  <2>1. \A a \in Mine(e) : /\ GoneOf[a] \in Int /\ F[a] \in Int
                           /\ GoneOf'[a] = GoneOf[a] + F[a]
    BY <1>2, <1>4 DEF GoneOf, Mine
  <2>2. SumFunctionOnSet(GoneOf', Mine(e)) =
           SumFunctionOnSet(GoneOf, Mine(e)) + SumFunctionOnSet(F, Mine(e))
    BY <1>6, <2>1, SumPlus
  <2> QED
    BY <1>3, <2>2
<1>8. SumFunctionOnSet(LeftOf', Pending(e)') = SumFunctionOnSet(LeftOf, Pending(e)) - off
  <2>1. PICK P \in SUBSET Mine(e) : P = Pending(e)
    BY <1>6
  <2>2. PICK R : R = Pending(e)'
    OBVIOUS
  <2>3. R \in SUBSET P
    <3>1. ASSUME NEW a \in R PROVE a \in P
      <4>1. a \in Advance /\ adv'[a].of = e /\ adv'[a].open
        BY <2>2 DEF Pending
      <4>2. a \in Mine(e)
        BY <1>5, <4>1 DEF Mine
      <4>3. adv[a].open /\ adv[a].of = e
        BY <1>4, <4>1, <4>2 DEF Mine
      <4> QED
        BY <2>1, <4>1, <4>3 DEF Pending
    <3> QED
      BY <3>1
  <2>4. \A a \in P : LeftOf'[a] \in Int /\ LeftOf[a] \in Int /\ F[a] \in Int
                     /\ LeftOf[a] = LeftOf'[a] + F[a]
    BY <1>2, <1>4, <2>1 DEF LeftOf, Left, Mine
  <2>5. ASSUME NEW a \in P \ R PROVE LeftOf'[a] = 0
    <3>1. a \in Advance /\ a \in Mine(e) /\ adv[a].open /\ adv[a].of = e
      BY <2>1 DEF Pending, Mine
    <3>2. ~adv'[a].open
      BY <1>4, <2>2, <2>5, <3>1 DEF Pending
    <3>3. ~(adv'[a].gone < adv[a].total)
      BY <1>4, <3>1, <3>2
    <3>4. /\ adv'[a].gone \in Nat /\ adv'[a].total \in Nat /\ adv'[a].total = adv[a].total
          /\ adv'[a].gone <= adv'[a].total
      BY <1>2, <1>4, <3>1, CommitLoan
    <3> QED
      BY <3>1, <3>3, <3>4 DEF LeftOf, Left
  <2>6. SumFunctionOnSet(LeftOf', P) = SumFunctionOnSet(LeftOf', R)
    BY <1>6, <2>1, <2>3, <2>4, <2>5, SumDrops
  <2>7. SumFunctionOnSet(LeftOf, P) = SumFunctionOnSet(LeftOf', P) + SumFunctionOnSet(F, P)
    BY <1>6, <2>1, <2>4, SumPlus
  <2>8. SumFunctionOnSet(F, Mine(e)) = SumFunctionOnSet(F, P)
    <3>1. \A a \in Mine(e) : F[a] \in Int
      BY <1>2 DEF Mine
    <3>2. \A a \in Mine(e) \ P : F[a] = 0
      BY <1>4, <2>1 DEF Mine, Pending
    <3> QED
      BY <1>6, <2>1, <3>1, <3>2, SumDrops
  <2>9. SumFunctionOnSet(LeftOf', P) \in Int
    BY <1>6, <2>1, <2>4, SumType
  <2> QED
    BY <1>3, <2>1, <2>2, <2>6, <2>7, <2>8, <2>9
<1>9. /\ SumFunctionOnSet(Deducted(e)', Month) = SumFunctionOnSet(Deducted(e), Month) + off
      /\ SumFunctionOnSet(Deducted(e)', Untold(e)') =
            SumFunctionOnSet(Deducted(e), Untold(e)) + (IF Books(w, e) THEN 0 ELSE off)
  <2> DEFINE k == run[w].m
             f == Deducted(e)
             g == Deducted(e)'
             U == Untold(e)
             V == Untold(e)'
  <2>1. k \in Month /\ IsFiniteSet(Month) /\ IsFiniteSet(U) /\ U \subseteq Month
    BY <1>1, CommitRows, PayrollAssumption, FS_Subset DEF Untold
  <2>2. \A m \in Month : f[m] = slip[e][m].off /\ g[m] = slip'[e][m].off /\ f[m] \in Nat
    BY <1>1 DEF Deducted, LoanTypes
  <2>3. ASSUME NEW m \in Month, m # k PROVE g[m] = f[m] /\ (m \in V <=> m \in U)
    <3>1. slip'[e][m] = slip[e][m] /\ entries'[e][m] = entries[e][m]
      BY <1>1, <2>3, CommitCell
    <3> QED
      BY <2>2, <2>3, <3>1 DEF Untold
  <2>4. /\ g[k] = f[k] + off
        /\ e \in Handled(w) => f[k] = 0 /\ k \in U
        /\ Books(w, e) => k \notin V
        /\ ~Books(w, e) => (k \in V <=> k \in U)
    <3>1. CASE e \in Handled(w)
      <4>1. /\ ~slip[e][k].there /\ f[k] = 0 /\ slip'[e][k].off = Deduction(w, e).off
            /\ entries'[e][k] = IF Books(w, e) THEN entries[e][k] + 1 ELSE entries[e][k]
        <5>1. /\ ~slip[e][k].there /\ slip'[e][k].off = Deduction(w, e).off
              /\ entries'[e][k] = IF Books(w, e) THEN entries[e][k] + 1 ELSE entries[e][k]
          BY <1>1, <2>1, <3>1, CommitPaid
        <5>2. f[k] = 0
          BY <1>1, <2>1, <2>2, <5>1 DEF LoanTypes
        <5> QED
          BY <5>1, <5>2
      <4>2. entries[e][k] = 0
        BY <2>1, <4>1 DEF PaidOncePerMonth
      <4> QED
        BY <1>3, <2>1, <2>2, <3>1, <4>1, <4>2 DEF off, Untold
    <3>2. CASE e \notin Handled(w)
      <4>1. slip'[e][k] = slip[e][k] /\ entries'[e][k] = entries[e][k] /\ ~Books(w, e)
        BY <1>1, <2>1, <3>2, CommitCell DEF Books
      <4> QED
        BY <2>1, <2>2, <3>2, <4>1 DEF off, Untold
    <3> QED
      BY <3>1, <3>2
  <2>5. \A m \in Month : f[m] \in Int /\ g[m] \in Int
    <3>1. ASSUME NEW m \in Month PROVE f[m] \in Int /\ g[m] \in Int
      <4>1. f[m] \in Int /\ f[k] \in Int
        BY <2>1, <2>2
      <4> HIDE DEF f, g, k, U, V
      <4> QED
        BY <1>3, <2>3, <2>4, <4>1
    <3> QED
      BY <3>1
  <2>6. V \subseteq Month
    BY DEF Untold
  <2>7. off # 0 => e \in Handled(w)
    BY DEF off
  <2> HIDE DEF f, g, k, U, V
  <2>8. SumFunctionOnSet(g, Month) = SumFunctionOnSet(f, Month) + (g[k] - f[k])
    BY <2>1, <2>3, <2>5, SumChanges
  <2>9. g[k] - f[k] = off
    BY <1>3, <2>1, <2>4, <2>5
  <2>10. SumFunctionOnSet(g, V) = SumFunctionOnSet(f, U) + (IF Books(w, e) THEN 0 ELSE off)
    <3>1. CASE Books(w, e)
      <4>1. k \in U /\ f[k] = 0
        BY <2>4, <3>1 DEF Books
      <4>2. PICK W \in SUBSET U : W = U \ {k}
        OBVIOUS
      <4>3. V = W
        BY <2>1, <2>3, <2>4, <2>6, <3>1, <4>2
      <4>4. SumFunctionOnSet(f, U) = SumFunctionOnSet(f, W)
        <5>1. \A m \in U : f[m] \in Int
          BY <2>1, <2>5
        <5>2. \A m \in U \ W : f[m] = 0
          BY <4>1, <4>2
        <5> QED
          BY <2>1, <5>1, <5>2, SumDrops
      <4>5. SumFunctionOnSet(g, W) = SumFunctionOnSet(f, W)
        <5>1. IsFiniteSet(W) /\ \A m \in W : g[m] = f[m]
          BY <2>1, <2>3, <4>2, FS_Subset
        <5> QED
          BY <5>1, SumSame
      <4>6. SumFunctionOnSet(f, U) \in Int
        <5>1. \A m \in U : f[m] \in Int
          BY <2>1, <2>5
        <5> QED
          BY <2>1, <5>1, SumType
      <4> QED
        BY <3>1, <4>3, <4>4, <4>5, <4>6
    <3>2. CASE ~Books(w, e) /\ k \in U
      <4>1. V = U
        BY <2>1, <2>3, <2>4, <2>6, <3>2
      <4>2. \A m \in U : f[m] \in Int /\ g[m] \in Int /\ (m # k => g[m] = f[m])
        BY <2>1, <2>3, <2>5
      <4>3. SumFunctionOnSet(g, U) = SumFunctionOnSet(f, U) + (g[k] - f[k])
        BY <2>1, <3>2, <4>2, SumChanges
      <4> QED
        BY <2>9, <3>2, <4>1, <4>3
    <3>3. CASE ~Books(w, e) /\ k \notin U
      <4>1. V = U /\ off = 0
        BY <2>1, <2>3, <2>4, <2>6, <2>7, <3>3
      <4>2. \A m \in U : g[m] = f[m] /\ f[m] \in Int
        BY <2>1, <2>3, <2>5, <3>3
      <4>3. SumFunctionOnSet(g, U) = SumFunctionOnSet(f, U) /\ SumFunctionOnSet(f, U) \in Int
        BY <2>1, <4>2, SumSame, SumType
      <4> QED
        BY <3>3, <4>1, <4>3
    <3> QED
      BY <3>1, <3>2, <3>3
  <2> QED
    BY <2>8, <2>9, <2>10 DEF f, g, U, V
<1>10. receivable'[e] = receivable[e] - (IF Books(w, e) THEN off ELSE 0)
  <2>1. receivable'[e] = receivable[e] - (IF Books(w, e) THEN Deduction(w, e).off ELSE 0)
    BY CommitTables
  <2>2. Books(w, e) => off = Deduction(w, e).off
    BY DEF Books, off
  <2> QED
    BY <2>1, <2>2
<1>11. receivable'[e] = SumFunctionOnSet(LeftOf', Pending(e)')
                          + SumFunctionOnSet(Deducted(e)', Untold(e)')
  <2>1. /\ receivable[e] = SumFunctionOnSet(LeftOf, Pending(e))
                            + SumFunctionOnSet(Deducted(e), Untold(e))
        /\ receivable[e] \in Int /\ off \in Int
    BY <1>1, <1>3 DEF Square
  <2>2. SumFunctionOnSet(Deducted(e), Untold(e)) \in Int
    BY <1>1, UntoldType
  <2>3. SumFunctionOnSet(LeftOf, Pending(e)) \in Int
    <3>1. \A a \in Pending(e) : LeftOf[a] \in Int
      BY <1>1, LoanFields DEF LeftOf, Pending
    <3> QED
      BY <1>6, <3>1, SumType
  <2>4. CASE Books(w, e)
    BY <1>8, <1>9, <1>10, <2>1, <2>2, <2>3, <2>4
  <2>5. CASE ~Books(w, e)
    BY <1>8, <1>9, <1>10, <2>1, <2>2, <2>3, <2>5
  <2> QED
    BY <2>4, <2>5
<1> QED
  BY <1>1, <1>5, <1>7, <1>9, <1>11 DEF Square

\* A commit keeps what the other runs have worked out sound.
LEMMA CommitSound ==
  ASSUME CollectInv, NEW w \in Runner, Commit(w), NEW d, Sound(d)
  PROVE  Sound(d)'
<1>1. ASSUME NEW a \in DOMAIN d.f
      PROVE  /\ adv'[a].of = d.e /\ d.was[a] + d.f[a] <= adv'[a].total
             /\ d.e \notin overlapped' => /\ d.was[a] <= adv'[a].gone
                                          /\ d.was[a] = adv'[a].gone => adv'[a].open = TRUE
  <2>1. /\ a \in Advance /\ adv[a].of = d.e /\ d.was[a] \in Nat
        /\ d.was[a] + d.f[a] <= adv[a].total
        /\ d.e \notin overlapped => /\ d.was[a] <= adv[a].gone
                                    /\ d.was[a] = adv[a].gone => adv[a].open = TRUE
    BY DEF Sound
  <2>2. adv'[a].of = adv[a].of /\ adv'[a].total = adv[a].total /\ adv[a].gone \in Nat
    BY <2>1, CommitLoan, LoanFields DEF CollectInv
  <2>3. SUFFICES ASSUME d.e \notin overlapped'
                 PROVE  d.was[a] <= adv'[a].gone /\ (d.was[a] = adv'[a].gone => adv'[a].open = TRUE)
    BY <2>1, <2>2
  <2>4. d.e \notin overlapped
    BY <2>3 DEF Commit
  <2>5. CASE adv'[a] = adv[a]
    BY <2>1, <2>4, <2>5
  <2>6. CASE /\ Share(w, d.e)[a] > 0 /\ d.e \in Handled(w)
             /\ adv'[a].gone = adv[a].gone + Share(w, d.e)[a]
    <3>1. Share(w, d.e)[a] \in Nat
      BY <2>1, <2>6, TheDeduction
    <3> QED
      BY <2>1, <2>2, <2>4, <2>6, <3>1
  <2> QED
    BY <2>1, <2>3, <2>5, <2>6, CommitLoan
<1> QED
  BY <1>1 DEF Sound

\* A commit keeps the types.
LEMMA CommitTypes ==
  ASSUME CollectInv, NEW w \in Runner, Commit(w)
  PROVE  LoanTypes'
<1>1. LoanTypes /\ SlipShapes /\ receivable \in [Employee -> Int]
  BY DEF CollectInv, LoanTypes
<1>2. \A a \in Advance : adv'[a] \in Loan /\ adv'[a].gone <= adv'[a].total
  BY CommitLoan
<1>3. DOMAIN adv' = Advance /\ adv' = [a \in Advance |-> adv'[a]]
  BY DEF Commit
<1>4. adv' \in [Advance -> Loan]
  BY <1>2, <1>3
<1>5. receivable' \in [Employee -> Int]
  <2>1. receivable' = [e \in Employee |->
              receivable[e] - (IF Books(w, e) THEN Deduction(w, e).off ELSE 0)]
    BY CommitTables
  <2>2. \A e \in Employee : Books(w, e) => Deduction(w, e).off \in Int
    BY TheDeduction DEF Books
  <2> QED
    BY <1>1, <2>1, <2>2
<1>6. ASSUME NEW e \in Employee, NEW m \in Month
      PROVE  slip'[e][m].off \in Nat /\ (~slip'[e][m].there => slip'[e][m].off = 0)
  <2>1. slip[e][m].off \in Nat /\ (~slip[e][m].there => slip[e][m].off = 0)
    BY <1>1 DEF LoanTypes
  <2>2. CASE e \in Handled(w) /\ m = run[w].m
    <3>1. slip'[e][m] = SlipOf(w, e)
      BY <1>1, <2>2, CommitCell
    <3>2. Deduction(w, e).off \in Nat
      BY <2>2, TheDeduction
    <3> QED
      BY <3>1, <3>2 DEF SlipOf
  <2>3. CASE ~(e \in Handled(w) /\ m = run[w].m)
    <3>1. slip'[e][m] = slip[e][m]
      BY <1>1, <2>3, CommitCell
    <3> QED
      BY <2>1, <3>1
  <2> QED
    BY <2>2, <2>3
<1> QED
  BY <1>2, <1>4, <1>5, <1>6 DEF LoanTypes

\* Every step keeps the advances accounted for.
LEMMA NextCollect ==
  ASSUME CollectInv, PaidOncePerMonth, SlipShapes', [PayrollNext]_payroll
  PROVE  CollectInv'
<1>1. SlipShapes /\ LoanTypes /\ \A u \in Runner : \A d \in run[u].done : Sound(d)
  BY DEF CollectInv
<1>2. CASE \E a \in Advance, e \in Employee, x \in Loans : CreateAdvance(a, e, x)
  BY <1>2, Granted
<1>3. ASSUME NEW w \in Runner, Commit(w) PROVE CollectInv'
  <2>1. run' = [run EXCEPT ![w] = NoRun] /\ DOMAIN run = Runner
    BY <1>1, <1>3 DEF Commit, SlipShapes
  <2>2. ASSUME NEW u \in Runner, NEW d \in run'[u].done PROVE Sound(d)'
    <3>1. u # w /\ d \in run[u].done
      BY <2>1, <2>2 DEF NoRun
    <3> QED
      BY <1>1, <1>3, <3>1, CommitSound
  <2>3. ASSUME NEW e \in Employee \ overlapped' PROVE Square(e)'
    BY <1>3, CommitSquare
  <2> QED
    BY <1>3, <2>2, <2>3, CommitTypes DEF CollectInv
<1>4. ASSUME NEW w \in Runner, Step(w), ~Commit(w), \A d \in run'[w].done : Sound(d)
      PROVE  CollectInv'
  <2>1. UNCHANGED <<adv, slip, entries, receivable, overlapped>>
    BY <1>4 DEF Step, BeginOne, BeginBranch, Run, Skip, Processes, Process, Fails, Stop
  <2>2. \A u \in Runner \ {w} : run'[u] = run[u]
    BY <1>1, <1>4, RunStep
  <2>3. \A u \in Runner : \A d \in run'[u].done : Sound(d)
    BY <1>1, <1>4, <2>2
  <2> QED
    BY <2>1, <2>3, BooksAlone
<1>5. ASSUME NEW w \in Runner, Step(w), ~Commit(w) PROVE CollectInv'
  <2>1. DOMAIN run = Runner /\ DOMAIN run[w] = Fields
    BY <1>1 DEF SlipShapes
  <2>2. CASE \E m \in Month, e \in Employee : BeginOne(w, e, m)
    <3>1. run'[w].done = {}
      BY <2>1, <2>2 DEF BeginOne, Run, NoRun
    <3> QED
      BY <1>4, <1>5, <3>1
  <2>3. CASE \E m \in Month, how \in {"branch", "assistant"} : BeginBranch(w, m, how)
    <3>1. run'[w].done = {}
      BY <2>1, <2>3 DEF BeginBranch, Run, NoRun
    <3> QED
      BY <1>4, <1>5, <3>1
  <2>4. CASE \E e \in Employee : Skip(w, e)
    <3>1. run'[w].done = run[w].done
      BY <2>1, <2>4 DEF Skip, Fields, NoRun
    <3> QED
      BY <1>1, <1>4, <1>5, <3>1
  <2>5. CASE \E e \in Employee : Processes(w, e)
    <3>1. PICK e \in Employee, t \in TermsOf(run[w].kind), posted \in BOOLEAN :
             Process(w, e, t, posted)
      BY <2>5 DEF Processes
    <3>2. PICK gross \in Int : gross = Gross(e, t)
      BY GrossType
    <3> DEFINE New(f) == [e |-> e, off |-> Withheld(e, gross), f |-> f,
                          was |-> [a \in Pending(e) |-> adv[a].gone], posted |-> posted]
    <3>3. PICK f \in Splits(e, Withheld(e, gross)) :
             run' = [run EXCEPT ![w].todo = @ \ {e}, ![w].done = @ \cup {New(f)}]
      BY <3>1, <3>2 DEF Process
    <3>4. ~Refused(e, gross)
      BY <3>1, <3>2 DEF Process
    <3>5. Sound(New(f))
      BY <3>4, WorkedOut
    <3> HIDE DEF New
    <3>6. run'[w].done = run[w].done \cup {New(f)}
      BY <2>1, <3>3 DEF Fields, NoRun
    <3> QED
      BY <1>1, <1>4, <1>5, <3>5, <3>6
  <2>6. CASE Fails(w)
    <3>1. run'[w] = NoRun
      BY <2>1, <2>6 DEF Fails, Stop
    <3> QED
      BY <1>4, <1>5, <3>1 DEF NoRun
  <2> QED
    BY <1>5, <2>2, <2>3, <2>4, <2>5, <2>6 DEF Step
<1>6. CASE UNCHANGED payroll
  <2>1. UNCHANGED <<adv, slip, entries, receivable, overlapped, run>>
    BY <1>6 DEF payroll
  <2> QED
    BY <1>1, <2>1, BooksAlone
<1> QED
  BY <1>2, <1>3, <1>5, <1>6 DEF PayrollNext, NobodyRuns, Step, Processes

\* Unless two runs worked on an employee's advances at once, everything taken off the
\* salaries is recorded on an advance, and the ledger's claim is what the open advances have
\* left and what slips without an entry took off (process_payroll writes deducted_amount
\* from the row it read, before it posts).
THEOREM AdvancesAreCollected == PayrollSpec => []AdvancesCollected
<1>1. PayrollInit => PayInv /\ CollectInv
  BY InitPay, InitCollect
<1>2. PayInv /\ [PayrollNext]_payroll => PayInv'
  BY NextPay
<1>3. (PayInv => PaidOncePerMonth) /\ (PayInv' => SlipShapes')
  BY DEF PayInv
<1>4. CollectInv /\ PaidOncePerMonth /\ SlipShapes' /\ [PayrollNext]_payroll => CollectInv'
  BY NextCollect
<1>5. CollectInv => AdvancesCollected
  BY Collected
<1> QED
  BY <1>1, <1>2, <1>3, <1>4, <1>5, PTL DEF PayrollSpec

---------------------------------------------------------------------------
(***************************************************************************)
(* The account of a supplier                                               *)
(***************************************************************************)

\* A purchase that is not quick moved stock, so only a quick one is ever deleted.
BuyOK(p) ==
    /\ DOMAIN buy[p] = {"st", "quick", "stocked", "back"}
    /\ buy[p].st \in {"none", "confirmed", "cancelled", "deleted"}
    /\ buy[p].back \in Nat /\ buy[p].quick \in BOOLEAN
    /\ buy[p].st = "none" => buy[p].back = 0 /\ buy[p].quick = FALSE
    /\ buy[p].st # "none" /\ buy[p].quick = FALSE => buy[p].stocked = TRUE
    /\ buy[p].st = "deleted" => buy[p].quick = TRUE

\* What waits is a cheque paid out.
PayOK(q) ==
    /\ DOMAIN pay[q] = {"st", "for", "amt", "in", "cheque"}
    /\ pay[q].st \in {"none", "waiting", "paid", "rejected", "deleted"}
    /\ pay[q].amt \in Nat /\ pay[q].for \in Purchase \union {"none"}
    /\ pay[q].in \in BOOLEAN /\ pay[q].cheque \in BOOLEAN
    /\ pay[q].st = "waiting" => pay[q].in = FALSE /\ pay[q].cheque = TRUE
    /\ pay[q].st = "none" => pay[q].for = "none"

\* What a request knows of the document it read.
HandOK(w) ==
    LET x == work[w].on IN
    /\ DOMAIN work[w] = {"pc", "on", "amt", "read"}
    /\ work[w].pc \in {"cancel", "return", "drop", "pay"} => x \in Purchase /\ buy[x].st # "none"
    /\ work[w].pc = "cancel" => work[w].read \in Int
    /\ work[w].pc = "drop" => buy[x].stocked = FALSE
    /\ work[w].pc = "pay" => /\ work[w].amt \in Nat /\ work[w].read \in Int
                             /\ work[w].read + work[w].amt <= Amount
    /\ work[w].pc = "unpay" => /\ x \in Payment /\ pay[x].for = "none"
                               /\ pay[x].st \in {"paid", "deleted"}

Rows == /\ DOMAIN buy = Purchase /\ DOMAIN pay = Payment /\ DOMAIN work = Worker
        /\ bought \in Int /\ paid \in Int /\ lost \in BOOLEAN /\ overtaken \in BOOLEAN
        /\ \A p \in Purchase : BuyOK(p)
        /\ \A q \in Payment : PayOK(q)
        /\ \A w \in Worker : HandOK(w)

---------------------------------------------------------------------------
(***************************************************************************)
(* The totals, as sums over all documents.  P and R stand for tables of    *)
(* payments, B and C for tables of purchases: the lemmas are used with the *)
(* table before a step and the one after it.                               *)
(***************************************************************************)

SomePayments(P)  == \A q \in Payment : P[q].amt \in Nat /\ P[q].in \in BOOLEAN
SomePurchases(B) == \A p \in Purchase : B[p].back \in Nat /\ B[p].quick \in BOOLEAN

\* What a payment is worth to the paid total, and to the balance of purchase p.
Worth(P, q) == IF P[q].st \in {"paid", "waiting"} /\ ~P[q].in THEN P[q].amt
               ELSE IF P[q].st = "paid" /\ P[q].in THEN 0 - P[q].amt ELSE 0
PaidFor(P, p, q) == IF P[q].st = "paid" /\ P[q].for = p THEN P[q].amt ELSE 0

\* What a purchase stands for in the purchase total, and whether it is one the total follows.
Stands(B, p) == IF B[p].st = "confirmed" /\ ~B[p].quick THEN Amount - B[p].back ELSE 0
Follows(B, p) == IF B[p].quick THEN B[p].st = "confirmed" /\ B[p].back = 0
                 ELSE B[p].back <= (IF B[p].st = "cancelled" THEN 0 ELSE Amount)

AmountOf(P, S) == SumFunctionOnSet([q \in Payment |-> P[q].amt], S)

Net(P) == AmountOf(P, {q \in Payment : P[q].st \in {"paid", "waiting"} /\ ~P[q].in})
          - AmountOf(P, {q \in Payment : P[q].st = "paid" /\ P[q].in})
Direct(P, p) == AmountOf(P, {q \in {r \in Payment : P[r].st = "paid"} : P[q].for = p})
PurchaseTotal(B) == SumFunctionOnSet([p \in Purchase |-> Stands(B, p)], Purchase)

\* The model's own expressions are these, in every state.
LEMMA TablesRead ==
  /\ Total(Payouts) - Total(Refunds) = Net(pay)
  /\ (Total(Payouts) - Total(Refunds))' = Net(pay')
  /\ \A p : DirectPaid(p) = Direct(pay, p)
  /\ \A p : DirectPaid(p)' = Direct(pay', p)
  /\ AccountOf(Purchase) = PurchaseTotal(buy) /\ AccountOf(Purchase)' = PurchaseTotal(buy')
  /\ \A p : Regular(p) = Follows(buy, p)
  /\ \A p : Regular(p)' = Follows(buy', p)
<1>1. Total(Payouts) - Total(Refunds) = Net(pay)
  BY DEF Total, Payouts, Refunds, Net, AmountOf
<1>2. (Total(Payouts) - Total(Refunds))' = Net(pay')
  BY DEF Total, Payouts, Refunds, Net, AmountOf
<1>3. ASSUME NEW p PROVE DirectPaid(p) = Direct(pay, p)
  BY DEF DirectPaid, Total, Counted, Direct, AmountOf
<1>4. ASSUME NEW p PROVE DirectPaid(p)' = Direct(pay', p)
  BY DEF DirectPaid, Total, Counted, Direct, AmountOf
<1>5. AccountOf(Purchase) = PurchaseTotal(buy)
  BY DEF AccountOf, Standing, PurchaseTotal, Stands
<1>6. AccountOf(Purchase)' = PurchaseTotal(buy')
  BY DEF AccountOf, Standing, PurchaseTotal, Stands
<1>7. ASSUME NEW p PROVE Regular(p) = Follows(buy, p)
  BY DEF Regular, Follows
<1>8. ASSUME NEW p PROVE Regular(p)' = Follows(buy', p)
  BY DEF Regular, Follows
<1> QED
  BY <1>1, <1>2, <1>3, <1>4, <1>5, <1>6, <1>7, <1>8

\* Payouts and refunds are one sum, over all payments, of what each is worth.
LEMMA NetIsWorth ==
  ASSUME NEW P, SomePayments(P)
  PROVE  /\ Net(P) = SumFunctionOnSet([q \in Payment |-> Worth(P, q)], Payment)
         /\ \A q \in Payment : Worth(P, q) \in Int
<1> DEFINE a == [q \in Payment |-> P[q].amt]
           OutIn == {q \in Payment : P[q].st \in {"paid", "waiting"} /\ ~P[q].in}
           BackIn == {q \in Payment : P[q].st = "paid" /\ P[q].in}
           o == [q \in Payment |-> IF q \in OutIn THEN P[q].amt ELSE 0]
           i == [q \in Payment |-> IF q \in BackIn THEN P[q].amt ELSE 0]
           v == [q \in Payment |-> Worth(P, q)]
<1>1. IsFiniteSet(Payment)
  BY SupplierAssumption
<1>2. PICK O \in SUBSET Payment : O = OutIn
  OBVIOUS
<1>3. PICK I \in SUBSET Payment : I = BackIn
  OBVIOUS
<1>4. ASSUME NEW q \in Payment
      PROVE  /\ a[q] \in Int /\ o[q] \in Int /\ i[q] \in Int /\ v[q] \in Int
             /\ o[q] = v[q] + i[q] /\ v[q] = Worth(P, q)
             /\ o[q] = IF q \in O THEN a[q] ELSE 0
             /\ i[q] = IF q \in I THEN a[q] ELSE 0
  <2>1. P[q].amt \in Nat /\ P[q].in \in BOOLEAN
    BY DEF SomePayments
  <2> QED
    BY <1>2, <1>3, <2>1 DEF Worth
<1>5. Net(P) = SumFunctionOnSet(a, O) - SumFunctionOnSet(a, I)
  BY <1>2, <1>3 DEF Net, AmountOf
<1> HIDE DEF a, o, i, v
<1>6. SumFunctionOnSet(a, O) = SumFunctionOnSet(o, Payment)
  <2>1. /\ \A q \in O : a[q] \in Int /\ o[q] = a[q]
        /\ \A q \in Payment \ O : o[q] = 0
    BY <1>4
  <2> QED
    BY <1>1, <2>1, SumWhere
<1>7. SumFunctionOnSet(a, I) = SumFunctionOnSet(i, Payment)
  <2>1. /\ \A q \in I : a[q] \in Int /\ i[q] = a[q]
        /\ \A q \in Payment \ I : i[q] = 0
    BY <1>4
  <2> QED
    BY <1>1, <2>1, SumWhere
<1>8. SumFunctionOnSet(o, Payment) = SumFunctionOnSet(v, Payment) + SumFunctionOnSet(i, Payment)
  BY <1>1, <1>4, SumPlus
<1>9. SumFunctionOnSet(v, Payment) \in Int /\ SumFunctionOnSet(i, Payment) \in Int
  BY <1>1, <1>4, SumType
<1>10. Net(P) = SumFunctionOnSet(v, Payment)
  BY <1>5, <1>6, <1>7, <1>8, <1>9
<1> QED
  BY <1>4, <1>10 DEF v

\* What was paid for one purchase is a sum over all payments too.
LEMMA DirectIsPaidFor ==
  ASSUME NEW P, SomePayments(P), NEW p
  PROVE  /\ Direct(P, p) = SumFunctionOnSet([q \in Payment |-> PaidFor(P, p, q)], Payment)
         /\ \A q \in Payment : PaidFor(P, p, q) \in Nat
         /\ Direct(P, p) \in Nat
<1> DEFINE a == [q \in Payment |-> P[q].amt]
           v == [q \in Payment |-> PaidFor(P, p, q)]
<1>1. IsFiniteSet(Payment)
  BY SupplierAssumption
<1>2. PICK D \in SUBSET Payment : D = {q \in {r \in Payment : P[r].st = "paid"} : P[q].for = p}
  OBVIOUS
<1>3. ASSUME NEW q \in Payment
      PROVE  /\ a[q] \in Int /\ v[q] \in Nat /\ v[q] = PaidFor(P, p, q)
             /\ v[q] = IF q \in D THEN a[q] ELSE 0
  <2>1. P[q].amt \in Nat
    BY DEF SomePayments
  <2> QED
    BY <1>2, <2>1 DEF PaidFor
<1>4. Direct(P, p) = SumFunctionOnSet(a, D)
  BY <1>2 DEF Direct, AmountOf
<1> HIDE DEF a, v
<1>5. SumFunctionOnSet(a, D) = SumFunctionOnSet(v, Payment)
  BY <1>1, <1>3, SumWhere
<1>6. SumFunctionOnSet(v, Payment) \in Nat
  BY <1>1, <1>3, SumNatural
<1> QED
  BY <1>3, <1>4, <1>5, <1>6 DEF v

\* One payment changes: the paid total and the balance of a purchase follow it.
LEMMA PaymentChanges ==
  ASSUME NEW P, SomePayments(P), NEW R, SomePayments(R), NEW q \in Payment,
         \A r \in Payment \ {q} : R[r] = P[r]
  PROVE  /\ Net(P) \in Int /\ Worth(P, q) \in Int /\ Worth(R, q) \in Int
         /\ Net(R) = Net(P) + (Worth(R, q) - Worth(P, q))
<1> DEFINE f == [r \in Payment |-> Worth(P, r)]
           g == [r \in Payment |-> Worth(R, r)]
<1>1. Net(P) = SumFunctionOnSet(f, Payment) /\ \A r \in Payment : f[r] \in Int
  BY NetIsWorth
<1>2. Net(R) = SumFunctionOnSet(g, Payment) /\ \A r \in Payment : g[r] \in Int
  BY NetIsWorth
<1>3. \A r \in Payment \ {q} : g[r] = f[r]
  BY DEF Worth
<1>4. IsFiniteSet(Payment) /\ f[q] = Worth(P, q) /\ g[q] = Worth(R, q)
  BY SupplierAssumption
<1> HIDE DEF f, g
<1>5. SumFunctionOnSet(g, Payment) = SumFunctionOnSet(f, Payment) + (g[q] - f[q])
  BY <1>1, <1>2, <1>3, <1>4, SumChanges
<1>6. SumFunctionOnSet(f, Payment) \in Int
  BY <1>1, <1>4, SumType
<1> QED
  BY <1>1, <1>2, <1>4, <1>5, <1>6

\* The same for the balance of a purchase.
LEMMA BalanceChanges ==
  ASSUME NEW P, SomePayments(P), NEW R, SomePayments(R), NEW q \in Payment,
         \A r \in Payment \ {q} : R[r] = P[r], NEW p
  PROVE  /\ Direct(P, p) \in Nat
         /\ PaidFor(P, p, q) \in Nat /\ PaidFor(R, p, q) \in Nat
         /\ Direct(R, p) = Direct(P, p) + (PaidFor(R, p, q) - PaidFor(P, p, q))
<1> DEFINE f == [r \in Payment |-> PaidFor(P, p, r)]
           g == [r \in Payment |-> PaidFor(R, p, r)]
<1>1. Direct(P, p) = SumFunctionOnSet(f, Payment) /\ \A r \in Payment : f[r] \in Nat
  BY DirectIsPaidFor
<1>2. Direct(R, p) = SumFunctionOnSet(g, Payment) /\ \A r \in Payment : g[r] \in Nat
  BY DirectIsPaidFor
<1>3. \A r \in Payment \ {q} : g[r] = f[r]
  BY DEF PaidFor
<1>4. IsFiniteSet(Payment) /\ f[q] = PaidFor(P, p, q) /\ g[q] = PaidFor(R, p, q)
  BY SupplierAssumption
<1> HIDE DEF f, g
<1>5. \A r \in Payment : f[r] \in Int /\ g[r] \in Int
  BY <1>1, <1>2
<1>6. SumFunctionOnSet(g, Payment) = SumFunctionOnSet(f, Payment) + (g[q] - f[q])
  BY <1>3, <1>4, <1>5, SumChanges
<1>7. SumFunctionOnSet(f, Payment) \in Nat
  BY <1>1, <1>4, SumNatural
<1> QED
  BY <1>1, <1>2, <1>4, <1>6, <1>7

\* A purchase the total follows never counts against the supplier.
LEMMA StandsType ==
  ASSUME NEW B, SomePurchases(B), NEW p \in Purchase
  PROVE  Stands(B, p) \in Int /\ (Follows(B, p) => Stands(B, p) \in Nat)
<1>1. B[p].back \in Nat /\ B[p].quick \in BOOLEAN /\ Amount \in Nat
  BY SupplierAssumption DEF SomePurchases
<1> QED
  BY <1>1 DEF Stands, Follows

\* One purchase changes: the purchase total follows it, and covers it if all are followed.
LEMMA PurchaseChanges ==
  ASSUME NEW B, SomePurchases(B), NEW C, SomePurchases(C), NEW p \in Purchase,
         \A r \in Purchase \ {p} : C[r] = B[r]
  PROVE  /\ PurchaseTotal(B) \in Int /\ Stands(B, p) \in Int /\ Stands(C, p) \in Int
         /\ PurchaseTotal(C) = PurchaseTotal(B) + (Stands(C, p) - Stands(B, p))
         /\ (\A r \in Purchase : Follows(B, r)) => PurchaseTotal(B) >= Stands(B, p)
<1> DEFINE f == [r \in Purchase |-> Stands(B, r)]
           g == [r \in Purchase |-> Stands(C, r)]
<1>1. PurchaseTotal(B) = SumFunctionOnSet(f, Purchase) /\ \A r \in Purchase : f[r] \in Int
  BY StandsType DEF PurchaseTotal
<1>2. PurchaseTotal(C) = SumFunctionOnSet(g, Purchase) /\ \A r \in Purchase : g[r] \in Int
  BY StandsType DEF PurchaseTotal
<1>3. \A r \in Purchase \ {p} : g[r] = f[r]
  BY DEF Stands
<1>4. IsFiniteSet(Purchase) /\ f[p] = Stands(B, p) /\ g[p] = Stands(C, p)
  BY SupplierAssumption
<1>5. ASSUME \A r \in Purchase : Follows(B, r) PROVE SumFunctionOnSet(f, Purchase) >= f[p]
  <2>1. \A r \in Purchase : f[r] \in Nat
    BY <1>5, StandsType
  <2>2. PICK T \in SUBSET Purchase : T = Purchase \ {p}
    OBVIOUS
  <2> HIDE DEF f
  <2>3. IsFiniteSet(T) /\ \A r \in T : f[r] \in Nat
    BY <1>4, <2>1, FS_Subset
  <2>4. SumFunctionOnSet(f, T) \in Nat
    BY <2>3, SumNatural
  <2>5. SumFunctionOnSet(f, Purchase) = f[p] + SumFunctionOnSet(f, T)
    BY <1>1, <1>4, <2>2, SumTakes
  <2> QED
    BY <2>1, <2>4, <2>5
<1> HIDE DEF f, g
<1>6. SumFunctionOnSet(g, Purchase) = SumFunctionOnSet(f, Purchase) + (g[p] - f[p])
  BY <1>1, <1>2, <1>3, <1>4, SumChanges
<1>7. SumFunctionOnSet(f, Purchase) \in Int
  BY <1>1, <1>4, SumType
<1> QED
  BY <1>1, <1>2, <1>4, <1>5, <1>6, <1>7

---------------------------------------------------------------------------
(***************************************************************************)
(* The rows stay well formed                                               *)
(***************************************************************************)

\* What a request knows of its document survives what others do to it.
LEMMA HandStays ==
  ASSUME Rows, NEW w \in Worker, work'[w] = work[w],
         \A p \in Purchase : buy[p].st # "none" =>
                             buy'[p].st # "none" /\ buy'[p].stocked = buy[p].stocked,
         \A q \in Payment : pay[q].for = "none" /\ pay[q].st \in {"paid", "deleted"} =>
                            pay'[q].for = "none" /\ pay'[q].st \in {"paid", "deleted"}
  PROVE  HandOK(w)'
  BY DEF Rows, HandOK

\* Nothing but the worker's own request changes.
LEMMA RowsBegun ==
  ASSUME Rows, NEW w \in Worker, NEW r, work' = [work EXCEPT ![w] = r],
         UNCHANGED <<buy, pay, bought, paid, lost, overtaken>>, HandOK(w)'
  PROVE  Rows'
<1>1. ASSUME NEW v \in Worker, v # w PROVE HandOK(v)'
  <2>1. work'[v] = work[v]
    BY <1>1 DEF Rows
  <2> QED
    BY <2>1, HandStays
<1>2. \A p \in Purchase : BuyOK(p)'
  BY DEF Rows, BuyOK
<1>3. \A q \in Payment : PayOK(q)'
  BY DEF Rows, PayOK
<1> QED
  BY <1>1, <1>2, <1>3 DEF Rows

\* A step changes one purchase; whoever works on after it is done or does what he did.
BuyStep(p) == /\ DOMAIN buy' = Purchase /\ \A r \in Purchase \ {p} : buy'[r] = buy[r]
              /\ pay' = pay
              /\ DOMAIN work' = Worker /\ \A v \in Worker : work'[v] \in {work[v], NoWork}

\* A step changes one payment.
PayStep(q) == /\ DOMAIN pay' = Payment /\ \A r \in Payment \ {q} : pay'[r] = pay[r]
              /\ buy' = buy /\ bought' = bought /\ lost' = lost
              /\ DOMAIN work' = Worker /\ \A v \in Worker : work'[v] \in {work[v], NoWork}

\* A request is answered or none was needed: the table of the workers keeps its form.
LEMMA WorkersAnswered ==
  ASSUME Rows, Asks \/ \E w \in Worker : Answered(w)
  PROVE  DOMAIN work' = Worker /\ \A v \in Worker : work'[v] \in {work[v], NoWork}
<1>1. CASE Asks
  BY <1>1 DEF Asks, Rows
<1>2. ASSUME NEW w \in Worker, Answered(w)
      PROVE  DOMAIN work' = Worker /\ \A v \in Worker : work'[v] \in {work[v], NoWork}
  BY <1>2 DEF Answered, Rows
<1> QED
  BY <1>1, <1>2

\* One purchase changes.
LEMMA RowsBought ==
  ASSUME Rows, NEW p \in Purchase, BuyStep(p),
         BuyOK(p)', buy'[p].st # "none",
         buy[p].st # "none" => buy'[p].stocked = buy[p].stocked,
         bought' \in Int, paid' \in Int, lost' \in BOOLEAN, overtaken' \in BOOLEAN
  PROVE  Rows'
<1>1. ASSUME NEW r \in Purchase PROVE BuyOK(r)'
  <2>1. CASE r # p
    BY <2>1 DEF Rows, BuyOK, BuyStep
  <2> QED
    BY <2>1
<1>2. \A q \in Payment : PayOK(q)'
  BY DEF Rows, PayOK, BuyStep
<1>3. ASSUME NEW v \in Worker PROVE HandOK(v)'
  <2>1. CASE work'[v] = work[v]
    BY <2>1, HandStays DEF BuyStep
  <2>2. CASE work'[v] = NoWork
    BY <2>2 DEF NoWork, HandOK
  <2> QED
    BY <2>1, <2>2 DEF BuyStep
<1> QED
  BY <1>1, <1>2, <1>3 DEF Rows, BuyStep

\* One payment changes.
LEMMA RowsPaid ==
  ASSUME Rows, NEW q \in Payment, PayStep(q), PayOK(q)',
         pay[q].for = "none" /\ pay[q].st \in {"paid", "deleted"} =>
            pay'[q].for = "none" /\ pay'[q].st \in {"paid", "deleted"},
         paid' \in Int, overtaken' \in BOOLEAN
  PROVE  Rows'
<1>1. ASSUME NEW r \in Payment PROVE PayOK(r)'
  <2>1. CASE r # q
    BY <2>1 DEF Rows, PayOK, PayStep
  <2> QED
    BY <2>1
<1>2. \A p \in Purchase : BuyOK(p)'
  BY DEF Rows, BuyOK, PayStep
<1>3. ASSUME NEW v \in Worker PROVE HandOK(v)'
  <2>1. CASE work'[v] = work[v]
    BY <2>1, HandStays DEF PayStep
  <2>2. CASE work'[v] = NoWork
    BY <2>2 DEF NoWork, HandOK
  <2> QED
    BY <2>1, <2>2 DEF PayStep
<1> QED
  BY <1>1, <1>2, <1>3 DEF Rows, PayStep

\* The first half of every request keeps the rows.
LEMMA BeginningKeepsRows ==
  ASSUME Rows, NEW w \in Worker,
         \/ \E p \in Purchase : \/ BeginCancel(w, p) \/ BeginReturn(w, p)
                                \/ BeginDeletePurchase(w, p)
                                \/ \E amt \in 1 .. Amount : BeginPay(w, p, amt)
         \/ \E q \in Payment : BeginDeletePayment(w, q)
  PROVE  Rows' /\ UNCHANGED <<buy, pay, bought, paid, lost, overtaken>>
<1>1. ASSUME NEW p \in Purchase, BeginCancel(w, p) PROVE Rows'
  BY <1>1, RowsBegun DEF BeginCancel, Starts, NoWork, Rows, HandOK
<1>2. ASSUME NEW p \in Purchase, BeginReturn(w, p) PROVE Rows'
  BY <1>2, RowsBegun DEF BeginReturn, Starts, NoWork, Rows, HandOK
<1>3. ASSUME NEW p \in Purchase, BeginDeletePurchase(w, p) PROVE Rows'
  <2>1. work' = [work EXCEPT ![w] = [NoWork EXCEPT !.pc = "drop", !.on = p]]
        /\ UNCHANGED <<buy, pay, bought, paid, lost, overtaken>>
        /\ buy[p].st # "none" /\ buy[p].stocked \in {buy[p].stocked} /\ ~buy[p].stocked
    BY <1>3 DEF BeginDeletePurchase, Starts
  <2>2. HandOK(w)'
    BY <2>1 DEF NoWork, Rows, HandOK, BuyOK
  <2> QED
    BY <2>1, <2>2, RowsBegun
<1>4. ASSUME NEW p \in Purchase, NEW amt \in 1 .. Amount, BeginPay(w, p, amt) PROVE Rows'
  <2>1. DirectPaid(p) \in Nat
    BY DirectIsPaidFor, TablesRead DEF Rows, PayOK, SomePayments
  <2>2. PICK n \in Nat : n = DirectPaid(p)
    BY <2>1
  <2>3. /\ work' = [work EXCEPT ![w] = [pc |-> "pay", on |-> p, amt |-> amt, read |-> n]]
        /\ UNCHANGED <<buy, pay, bought, paid, lost, overtaken>>
        /\ buy[p].st # "none" /\ amt <= Amount - n /\ amt \in Nat /\ Amount \in Nat
    BY <1>4, <2>2, SupplierAssumption DEF BeginPay, Room, Starts
  <2>4. HandOK(w)'
    BY <2>3 DEF Rows, HandOK
  <2> QED
    BY <2>3, <2>4, RowsBegun
<1>5. ASSUME NEW q \in Payment, BeginDeletePayment(w, q) PROVE Rows'
  BY <1>5, RowsBegun DEF BeginDeletePayment, Starts, NoWork, Rows, HandOK
<1> QED
  BY <1>1, <1>2, <1>3, <1>4, <1>5
     DEF BeginCancel, BeginReturn, BeginDeletePurchase, BeginPay, BeginDeletePayment, Starts

---------------------------------------------------------------------------
(***************************************************************************)
(* What each step that touches a document does to it: the row it changes,  *)
(* the totals, and the rows staying well formed.  The invariants below are *)
(* proved from these facts alone.                                          *)
(***************************************************************************)

\* create_purchase
LEMMA Creates ==
  ASSUME Rows, NEW p \in Purchase, CreatePurchase(p)
  PROVE  /\ BuyStep(p) /\ Rows'
         /\ buy[p].st = "none"
         /\ buy'[p] = [st |-> "confirmed", quick |-> FALSE, stocked |-> TRUE, back |-> 0]
         /\ bought' = bought + Amount /\ UNCHANGED <<paid, lost, overtaken>>
<1>1. /\ BuyStep(p) /\ buy[p].st = "none"
      /\ buy'[p] = [st |-> "confirmed", quick |-> FALSE, stocked |-> TRUE, back |-> 0]
      /\ bought' = bought + Amount /\ UNCHANGED <<paid, lost, overtaken>>
  BY WorkersAnswered DEF CreatePurchase, NoPurchase, Rows, BuyStep
<1>2. BuyOK(p)'
  BY <1>1 DEF BuyOK
<1>3. Rows'
  BY <1>1, <1>2, RowsBought, SupplierAssumption DEF Rows
<1> QED
  BY <1>1, <1>3

\* create_quick_purchase
LEMMA QuickCreates ==
  ASSUME Rows, NEW p \in Purchase, NEW stocked \in BOOLEAN, QuickPurchase(p, stocked)
  PROVE  /\ BuyStep(p) /\ Rows'
         /\ buy[p].st = "none"
         /\ buy'[p] = [st |-> "confirmed", quick |-> TRUE, stocked |-> stocked, back |-> 0]
         /\ UNCHANGED <<bought, paid, lost, overtaken>>
<1>1. /\ BuyStep(p) /\ buy[p].st = "none"
      /\ buy'[p] = [st |-> "confirmed", quick |-> TRUE, stocked |-> stocked, back |-> 0]
      /\ UNCHANGED <<bought, paid, lost, overtaken>>
  BY WorkersAnswered DEF QuickPurchase, NoPurchase, Rows, BuyStep
<1>2. BuyOK(p)'
  BY <1>1 DEF BuyOK
<1>3. Rows'
  BY <1>1, <1>2, RowsBought DEF Rows
<1> QED
  BY <1>1, <1>3

\* The second half of cancel_purchase.
LEMMA Cancels ==
  ASSUME Rows, NEW w \in Worker, CancelPurchase(w)
  PROVE  \E p \in Purchase :
            /\ BuyStep(p) /\ Rows'
            /\ buy[p].st \in {"confirmed", "cancelled"}
            /\ buy'[p] = [buy[p] EXCEPT !.st = "cancelled"]
            /\ work[w].read \in Int /\ bought' = Taken(work[w].read, Amount)
            /\ (lost' = FALSE => lost = FALSE /\ bought = work[w].read)
            /\ (overtaken' = FALSE => overtaken = FALSE /\ buy[p].st # "cancelled")
            /\ UNCHANGED <<paid>>
<1>1. PICK p \in Purchase : p = work[w].on /\ buy[p].st # "none" /\ work[w].read \in Int
  BY DEF CancelPurchase, Rows, HandOK
<1>2. BuyOK(p)
  BY DEF Rows
<1>3. /\ BuyStep(p) /\ buy'[p] = [buy[p] EXCEPT !.st = "cancelled"]
      /\ bought' = Taken(work[w].read, Amount)
      /\ buy[p].st \in {"confirmed", "cancelled"} /\ UNCHANGED <<paid>>
  BY <1>1, <1>2, WorkersAnswered DEF CancelPurchase, Rows, BuyStep, BuyOK
<1>4. /\ lost' = (lost \/ bought # work[w].read)
      /\ overtaken' = (overtaken \/ buy[p].st = "cancelled" \/ DirectPaid(p) > 0)
  BY <1>1 DEF CancelPurchase
<1>5. /\ lost' \in BOOLEAN /\ (lost' = FALSE => lost = FALSE /\ bought = work[w].read)
  BY <1>4 DEF Rows
<1>6. /\ overtaken' \in BOOLEAN
      /\ (overtaken' = FALSE => overtaken = FALSE /\ buy[p].st # "cancelled")
  BY <1>4 DEF Rows
<1>7. BuyOK(p)' /\ bought' \in Int /\ buy'[p].st # "none" /\ buy'[p].stocked = buy[p].stocked
  BY <1>1, <1>2, <1>3, SupplierAssumption DEF BuyOK, Taken
<1>8. Rows'
  BY <1>3, <1>5, <1>6, <1>7, RowsBought DEF Rows
<1> QED
  BY <1>1, <1>3, <1>5, <1>6, <1>8

\* The second half of create_purchase_return.
LEMMA GivesBack ==
  ASSUME Rows, NEW w \in Worker, ReturnGoods(w)
  PROVE  \E p \in Purchase :
            /\ BuyStep(p) /\ Rows'
            /\ buy[p].st \in {"confirmed", "cancelled"}
            /\ buy'[p] = [buy[p] EXCEPT !.back = buy[p].back + 1]
            /\ bought' = Taken(bought, 1)
            /\ (overtaken' = FALSE => overtaken = FALSE /\ buy[p].st # "cancelled")
            /\ UNCHANGED <<paid, lost>>
<1>1. PICK p \in Purchase : p = work[w].on /\ buy[p].st # "none"
  BY DEF ReturnGoods, Rows, HandOK
<1>2. BuyOK(p)
  BY DEF Rows
<1>3. /\ BuyStep(p) /\ buy'[p] = [buy[p] EXCEPT !.back = buy[p].back + 1]
      /\ bought' = Taken(bought, 1)
      /\ buy[p].st \in {"confirmed", "cancelled"} /\ UNCHANGED <<paid, lost>>
  BY <1>1, <1>2, WorkersAnswered DEF ReturnGoods, Rows, BuyStep, BuyOK
<1>4. overtaken' = (overtaken \/ buy[p].st = "cancelled")
  BY <1>1 DEF ReturnGoods
<1>5. /\ overtaken' \in BOOLEAN
      /\ (overtaken' = FALSE => overtaken = FALSE /\ buy[p].st # "cancelled")
  BY <1>4 DEF Rows
<1>6. BuyOK(p)' /\ bought' \in Int /\ buy'[p].st # "none" /\ buy'[p].stocked = buy[p].stocked
  BY <1>1, <1>2, <1>3 DEF BuyOK, Taken, Rows
<1>7. Rows'
  BY <1>3, <1>5, <1>6, RowsBought DEF Rows
<1> QED
  BY <1>1, <1>3, <1>5, <1>7

\* delete_purchase: only a quick purchase is ever deleted.
LEMMA Deletes ==
  ASSUME Rows, NEW w \in Worker, DeletePurchase(w)
  PROVE  \E p \in Purchase :
            /\ BuyStep(p) /\ Rows'
            /\ buy[p].quick = TRUE
            /\ buy'[p] = [buy[p] EXCEPT !.st = "deleted"]
            /\ UNCHANGED <<bought, lost, overtaken>>
<1>1. PICK p \in Purchase : p = work[w].on /\ buy[p].st # "none" /\ buy[p].stocked = FALSE
  BY DEF DeletePurchase, Rows, HandOK
<1>2. BuyOK(p) /\ buy[p].quick = TRUE
  BY <1>1 DEF Rows, BuyOK
<1>3. /\ BuyStep(p) /\ buy'[p] = [buy[p] EXCEPT !.st = "deleted"]
      /\ paid' = paid - 2 * Amount /\ UNCHANGED <<bought, lost, overtaken>>
  BY <1>1, WorkersAnswered DEF DeletePurchase, Rows, BuyStep
<1>4. BuyOK(p)' /\ buy'[p].st # "none" /\ buy'[p].stocked = buy[p].stocked
  BY <1>1, <1>2, <1>3 DEF BuyOK
<1>5. paid' \in Int
  BY <1>3, SupplierAssumption DEF Rows
<1>6. Rows'
  BY <1>3, <1>4, <1>5, RowsBought DEF Rows
<1> QED
  BY <1>2, <1>3, <1>6

\* A payment is written where there was none.
LEMMA Writes ==
  ASSUME Rows, NEW q \in Payment, NEW for \in Purchase \union {"none"}, NEW amt \in Nat,
         NEW in \in BOOLEAN, NEW cheque \in BOOLEAN, ~(in /\ cheque),
         Written(q, for, amt, in, cheque), Asks \/ \E w \in Worker : Answered(w),
         UNCHANGED <<buy, bought, lost>>, paid' \in Int, overtaken' \in BOOLEAN
  PROVE  /\ PayStep(q) /\ Rows'
         /\ pay[q].st = "none"
         /\ pay'[q] = [st |-> IF cheque THEN "waiting" ELSE "paid", for |-> for,
                       amt |-> amt, in |-> in, cheque |-> cheque]
<1>1. /\ PayStep(q) /\ pay[q].st = "none"
      /\ pay'[q] = [st |-> IF cheque THEN "waiting" ELSE "paid", for |-> for,
                    amt |-> amt, in |-> in, cheque |-> cheque]
  BY WorkersAnswered DEF Written, Rows, PayStep
<1>2. PayOK(q)'
  <2>1. cheque = TRUE => in = FALSE
    OBVIOUS
  <2> QED
    BY <1>1, <2>1 DEF PayOK
<1>3. Rows'
  BY <1>1, <1>2, RowsPaid
<1> QED
  BY <1>1, <1>3

\* A cheque that waits clears or comes back.
LEMMA Settles ==
  ASSUME Rows, NEW q \in Payment, NEW st \in {"paid", "rejected"}, pay[q].st = "waiting",
         pay' = [pay EXCEPT ![q].st = st], Asks,
         UNCHANGED <<buy, bought, lost, overtaken>>, paid' \in Int
  PROVE  /\ PayStep(q) /\ Rows'
         /\ pay'[q] = [pay[q] EXCEPT !.st = st]
         /\ pay[q].cheque = TRUE /\ pay[q].in = FALSE
<1>1. /\ PayStep(q) /\ pay'[q] = [pay[q] EXCEPT !.st = st]
  BY WorkersAnswered DEF Rows, PayStep
<1>2. PayOK(q)
  BY DEF Rows
<1>3. PayOK(q)'
  BY <1>1, <1>2 DEF PayOK
<1>4. Rows'
  BY <1>1, <1>3, RowsPaid DEF Rows
<1> QED
  BY <1>1, <1>2, <1>4 DEF PayOK

\* The second half of delete_payment.
LEMMA Unpays ==
  ASSUME Rows, NEW w \in Worker, DeletePayment(w)
  PROVE  \E q \in Payment :
            /\ PayStep(q) /\ Rows'
            /\ pay[q].for = "none" /\ pay[q].st \in {"paid", "deleted"}
            /\ pay'[q] = [pay[q] EXCEPT !.st = "deleted"]
            /\ paid' = paid - pay[q].amt
            /\ (overtaken' = FALSE => overtaken = FALSE /\ pay[q].st # "deleted")
<1>1. PICK q \in Payment : /\ q = work[w].on /\ pay[q].for = "none"
                           /\ pay[q].st \in {"paid", "deleted"}
  BY DEF DeletePayment, Rows, HandOK
<1>2. PayOK(q)
  BY DEF Rows
<1>3. /\ PayStep(q) /\ pay'[q] = [pay[q] EXCEPT !.st = "deleted"]
      /\ paid' = paid - pay[q].amt
  BY <1>1, WorkersAnswered DEF DeletePayment, Unpaid, Rows, PayStep
<1>4. overtaken' = (overtaken \/ pay[q].st = "deleted")
  BY <1>1 DEF DeletePayment
<1>5. /\ overtaken' \in BOOLEAN
      /\ (overtaken' = FALSE => overtaken = FALSE /\ pay[q].st # "deleted")
  BY <1>4 DEF Rows
<1>6. PayOK(q)' /\ paid' \in Int /\ pay'[q].for = "none" /\ pay'[q].st = "deleted"
  BY <1>1, <1>2, <1>3 DEF PayOK, Rows
<1>7. Rows'
  BY <1>1, <1>3, <1>5, <1>6, RowsPaid
<1> QED
  BY <1>1, <1>3, <1>5, <1>7

\* The second half of create_payment.
LEMMA Pays ==
  ASSUME Rows, NEW w \in Worker, NEW q \in Payment, NEW cheque \in BOOLEAN,
         PayPurchase(w, q, cheque)
  PROVE  \E p \in Purchase, amt \in Nat :
            /\ PayStep(q) /\ Rows'
            /\ pay[q].st = "none"
            /\ pay'[q] = [st |-> IF cheque THEN "waiting" ELSE "paid", for |-> p,
                          amt |-> amt, in |-> FALSE, cheque |-> cheque]
            /\ paid' = paid + amt
            /\ (overtaken' = FALSE => overtaken = FALSE /\ DirectPaid(p) + amt <= Amount)
<1>1. PICK p \in Purchase : p = work[w].on /\ HandOK(w)
  BY DEF PayPurchase, Rows, HandOK
<1>2. PICK amt \in Nat : amt = work[w].amt
  BY <1>1 DEF PayPurchase, HandOK
<1>3. /\ Written(q, p, amt, FALSE, cheque) /\ paid' = paid + amt /\ Answered(w)
      /\ UNCHANGED <<buy, bought, lost>>
      /\ overtaken' = (overtaken \/ DirectPaid(p) # work[w].read)
  BY <1>1, <1>2 DEF PayPurchase
<1>4. /\ overtaken' \in BOOLEAN
      /\ (overtaken' = FALSE => overtaken = FALSE /\ DirectPaid(p) = work[w].read)
  BY <1>3 DEF Rows
<1>5. overtaken' = FALSE => overtaken = FALSE /\ DirectPaid(p) + amt <= Amount
  BY <1>1, <1>2, <1>4 DEF HandOK, PayPurchase
<1>6. paid' \in Int
  BY <1>3 DEF Rows
<1>7. /\ PayStep(q) /\ Rows' /\ pay[q].st = "none"
      /\ pay'[q] = [st |-> IF cheque THEN "waiting" ELSE "paid", for |-> p,
                    amt |-> amt, in |-> FALSE, cheque |-> cheque]
  BY <1>3, <1>4, <1>6, Writes
<1> QED
  BY <1>3, <1>5, <1>7

---------------------------------------------------------------------------
(***************************************************************************)
(* The totals follow the documents                                         *)
(***************************************************************************)

\* The tables of a well formed state are ones the sums are about.
LEMMA RowsTables ==
  ASSUME Rows
  PROVE  SomePayments(pay) /\ SomePurchases(buy)
  BY DEF Rows, PayOK, BuyOK, SomePayments, SomePurchases

\* The three properties in terms of the tables.
BoughtAt(B, total, over, late) ==
    late = FALSE /\ over = FALSE /\ (\A p \in Purchase : Follows(B, p)) => total = PurchaseTotal(B)

PaidAt(B, P, total, over) ==
    over = FALSE /\ (\A q \in Payment : P[q].st = "deleted" => P[q].in = FALSE)
                 /\ (\A p \in Purchase : B[p].st # "deleted") => total = Net(P)

OverAt(P, over) ==
    \A p \in Purchase : over = FALSE /\ (\A q \in Payment : P[q].for = p => P[q].cheque = FALSE)
                        => Direct(P, p) <= Amount

\* They are the model's.
LEMMA AtNow ==
  ASSUME Rows
  PROVE  /\ BoughtMatches <=> BoughtAt(buy, bought, overtaken, lost)
         /\ PaidMatches <=> PaidAt(buy, pay, paid, overtaken)
         /\ NotOverpaid <=> OverAt(pay, overtaken)
<1>1. /\ lost \in BOOLEAN /\ overtaken \in BOOLEAN
      /\ \A q \in Payment : pay[q].in \in BOOLEAN /\ pay[q].cheque \in BOOLEAN
  BY DEF Rows, PayOK
<1>2. /\ (\A p \in Purchase : Regular(p)) <=> (\A p \in Purchase : Follows(buy, p))
      /\ AccountOf(Purchase) = PurchaseTotal(buy) /\ Total(Payouts) - Total(Refunds) = Net(pay)
      /\ \A p : DirectPaid(p) = Direct(pay, p)
  BY TablesRead
<1> QED
  BY <1>1, <1>2 DEF BoughtMatches, PaidMatches, NotOverpaid, BoughtAt, PaidAt, OverAt

\* One purchase changes, and the total with it.
LEMMA BoughtMoves ==
  ASSUME Rows, Rows', NEW p \in Purchase, BuyStep(p),
         BoughtAt(buy, bought, overtaken, lost),
         overtaken' = FALSE => overtaken = FALSE, lost' = FALSE => lost = FALSE,
         Follows(buy', p) => Follows(buy, p),
         overtaken' = FALSE /\ lost' = FALSE /\ Follows(buy', p) /\ bought >= Stands(buy, p)
            => bought' = bought + (Stands(buy', p) - Stands(buy, p))
  PROVE  BoughtAt(buy', bought', overtaken', lost')
<1>1. SomePurchases(buy) /\ SomePurchases(buy')
  BY DEF Rows, BuyOK, SomePurchases
<1>2. \A r \in Purchase \ {p} : buy'[r] = buy[r]
  BY DEF BuyStep
<1>3. /\ PurchaseTotal(buy) \in Int /\ Stands(buy, p) \in Int /\ Stands(buy', p) \in Int
      /\ PurchaseTotal(buy') = PurchaseTotal(buy) + (Stands(buy', p) - Stands(buy, p))
      /\ (\A r \in Purchase : Follows(buy, r)) => PurchaseTotal(buy) >= Stands(buy, p)
  BY <1>1, <1>2, PurchaseChanges
<1>4. ASSUME NEW r \in Purchase, r # p PROVE Follows(buy', r) => Follows(buy, r)
  BY <1>2, <1>4 DEF Follows
<1> QED
  BY <1>3, <1>4 DEF BoughtAt

\* One payment changes, and the total with it.
LEMMA PaidMoves ==
  ASSUME Rows, Rows', NEW q \in Payment, PayStep(q),
         PaidAt(buy, pay, paid, overtaken),
         overtaken' = FALSE => overtaken = FALSE,
         overtaken' = FALSE /\ (pay'[q].st = "deleted" => pay'[q].in = FALSE)
            => /\ pay[q].st = "deleted" => pay[q].in = FALSE
               /\ paid' = paid + (Worth(pay', q) - Worth(pay, q))
  PROVE  PaidAt(buy', pay', paid', overtaken')
<1>1. SomePayments(pay) /\ SomePayments(pay')
  BY DEF Rows, PayOK, SomePayments
<1>2. \A r \in Payment \ {q} : pay'[r] = pay[r]
  BY DEF PayStep
<1>3. /\ Net(pay) \in Int /\ Worth(pay, q) \in Int /\ Worth(pay', q) \in Int
      /\ Net(pay') = Net(pay) + (Worth(pay', q) - Worth(pay, q))
  BY <1>1, <1>2, PaymentChanges
<1> QED
  BY <1>2, <1>3 DEF PaidAt, PayStep

\* One payment changes: what its purchase may still be paid is respected.
LEMMA OverMoves ==
  ASSUME Rows, Rows', NEW q \in Payment, PayStep(q),
         OverAt(pay, overtaken),
         overtaken' = FALSE => overtaken = FALSE,
         pay[q].st = "none" \/ (pay'[q].for = pay[q].for /\ pay'[q].cheque = pay[q].cheque),
         \A p \in Purchase : overtaken' = FALSE /\ (pay'[q].for = p => pay'[q].cheque = FALSE)
            => \/ PaidFor(pay', p, q) <= PaidFor(pay, p, q)
               \/ Direct(pay, p) + (PaidFor(pay', p, q) - PaidFor(pay, p, q)) <= Amount
  PROVE  OverAt(pay', overtaken')
<1>1. SomePayments(pay) /\ SomePayments(pay')
  BY DEF Rows, PayOK, SomePayments
<1>2. \A r \in Payment \ {q} : pay'[r] = pay[r]
  BY DEF PayStep
<1> SUFFICES ASSUME NEW p \in Purchase, overtaken' = FALSE,
                    \A r \in Payment : pay'[r].for = p => pay'[r].cheque = FALSE
             PROVE  Direct(pay', p) <= Amount
  BY DEF OverAt
<1>3. \A r \in Payment : pay[r].for = p => pay[r].cheque = FALSE
  <2>1. ASSUME NEW r \in Payment, r # q PROVE pay[r].for = p => pay[r].cheque = FALSE
    BY <1>2, <2>1
  <2>2. pay[q].for = p => pay[q].cheque = FALSE
    <3>1. PayOK(q)
      BY DEF Rows
    <3>2. "none" # p
      BY SupplierAssumption
    <3> QED
      BY <3>1, <3>2 DEF PayOK
  <2> QED
    BY <2>1, <2>2
<1>4. Direct(pay, p) <= Amount
  BY <1>3 DEF OverAt
<1>5. /\ Direct(pay, p) \in Nat
      /\ PaidFor(pay, p, q) \in Nat /\ PaidFor(pay', p, q) \in Nat
      /\ Direct(pay', p) = Direct(pay, p) + (PaidFor(pay', p, q) - PaidFor(pay, p, q))
  BY <1>1, <1>2, BalanceChanges
<1>6. Amount \in Nat
  BY SupplierAssumption
<1>7. \/ PaidFor(pay', p, q) <= PaidFor(pay, p, q)
      \/ Direct(pay, p) + (PaidFor(pay', p, q) - PaidFor(pay, p, q)) <= Amount
  OBVIOUS
<1> QED
  BY <1>4, <1>5, <1>6, <1>7

\* The inductive invariant: the rows, and the three properties as read from the tables.
AccountInv == /\ Rows
              /\ BoughtAt(buy, bought, overtaken, lost)
              /\ PaidAt(buy, pay, paid, overtaken)
              /\ OverAt(pay, overtaken)

\* A payment step does not concern the purchase total, nor a purchase step what was paid.
LEMMA OthersStay ==
  /\ \A q : PayStep(q) /\ (overtaken' = FALSE => overtaken = FALSE)
            /\ BoughtAt(buy, bought, overtaken, lost)
            => BoughtAt(buy', bought', overtaken', lost')
  /\ \A p : BuyStep(p) /\ (overtaken' = FALSE => overtaken = FALSE) /\ OverAt(pay, overtaken)
            => OverAt(pay', overtaken')
  /\ \A p \in Purchase : /\ BuyStep(p) /\ (overtaken' = FALSE => overtaken = FALSE)
                         /\ buy[p].st = "deleted" => buy'[p].st = "deleted"
                         /\ paid' = paid \/ buy'[p].st = "deleted"
                         /\ PaidAt(buy, pay, paid, overtaken)
                         => PaidAt(buy', pay', paid', overtaken')
<1>1. ASSUME NEW q, PayStep(q), overtaken' = FALSE => overtaken = FALSE,
             BoughtAt(buy, bought, overtaken, lost)
      PROVE  BoughtAt(buy', bought', overtaken', lost')
  BY <1>1 DEF PayStep, BoughtAt
<1>2. ASSUME NEW p, BuyStep(p), overtaken' = FALSE => overtaken = FALSE, OverAt(pay, overtaken)
      PROVE  OverAt(pay', overtaken')
  BY <1>2 DEF BuyStep, OverAt
<1>3. ASSUME NEW p \in Purchase, BuyStep(p), overtaken' = FALSE => overtaken = FALSE,
             buy[p].st = "deleted" => buy'[p].st = "deleted",
             paid' = paid \/ buy'[p].st = "deleted",
             PaidAt(buy, pay, paid, overtaken)
      PROVE  PaidAt(buy', pay', paid', overtaken')
  BY <1>3 DEF BuyStep, PaidAt
<1> QED
  BY <1>1, <1>2, <1>3

---------------------------------------------------------------------------
\* Beginning or giving up a request leaves the tables and the totals as they are.
LEMMA TablesStay ==
  ASSUME AccountInv, Rows', UNCHANGED <<buy, pay, bought, paid, lost, overtaken>>
  PROVE  AccountInv'
  BY DEF AccountInv

\* Buying: what a new purchase adds to the total is what it stands for.
LEMMA BuyingKeeps ==
  ASSUME AccountInv, NEW p \in Purchase, Buying(p)
  PROVE  AccountInv'
<1>0. Rows /\ BoughtAt(buy, bought, overtaken, lost) /\ OverAt(pay, overtaken)
      /\ PaidAt(buy, pay, paid, overtaken)
  BY DEF AccountInv
<1>1. CASE CreatePurchase(p)
  <2>1. /\ BuyStep(p) /\ Rows' /\ buy[p].st = "none"
        /\ buy'[p] = [st |-> "confirmed", quick |-> FALSE, stocked |-> TRUE, back |-> 0]
        /\ bought' = bought + Amount /\ UNCHANGED <<paid, lost, overtaken>>
    BY <1>0, <1>1, Creates
  <2>2. BuyOK(p) /\ Amount \in Nat /\ bought \in Int
    BY <1>0, SupplierAssumption DEF Rows
  <2>3. Follows(buy, p) /\ Stands(buy, p) = 0 /\ Stands(buy', p) = Amount
    BY <2>1, <2>2 DEF Follows, Stands, BuyOK
  <2>4. bought' = bought + (Stands(buy', p) - Stands(buy, p))
    BY <2>1, <2>2, <2>3
  <2>5. BoughtAt(buy', bought', overtaken', lost')
    <3>1. (overtaken' = FALSE => overtaken = FALSE) /\ (lost' = FALSE => lost = FALSE)
      BY <2>1
    <3> QED
      BY <1>0, <2>1, <2>3, <2>4, <3>1, BoughtMoves
  <2>6. PaidAt(buy', pay', paid', overtaken') /\ OverAt(pay', overtaken')
    BY <1>0, <2>1, OthersStay
  <2> QED
    BY <2>1, <2>5, <2>6 DEF AccountInv
<1>2. ASSUME NEW stocked \in BOOLEAN, QuickPurchase(p, stocked) PROVE AccountInv'
  <2>1. /\ BuyStep(p) /\ Rows' /\ buy[p].st = "none"
        /\ buy'[p] = [st |-> "confirmed", quick |-> TRUE, stocked |-> stocked, back |-> 0]
        /\ UNCHANGED <<bought, paid, lost, overtaken>>
    BY <1>0, <1>2, QuickCreates
  <2>2. BuyOK(p) /\ Amount \in Nat /\ bought \in Int
    BY <1>0, SupplierAssumption DEF Rows
  <2>3. Follows(buy, p) /\ Stands(buy, p) = 0 /\ Stands(buy', p) = 0
    BY <2>1, <2>2 DEF Follows, Stands, BuyOK
  <2>4. bought' = bought + (Stands(buy', p) - Stands(buy, p))
    BY <2>1, <2>2, <2>3
  <2>5. BoughtAt(buy', bought', overtaken', lost')
    <3>1. (overtaken' = FALSE => overtaken = FALSE) /\ (lost' = FALSE => lost = FALSE)
      BY <2>1
    <3> QED
      BY <1>0, <2>1, <2>3, <2>4, <3>1, BoughtMoves
  <2>6. PaidAt(buy', pay', paid', overtaken') /\ OverAt(pay', overtaken')
    BY <1>0, <2>1, OthersStay
  <2> QED
    BY <2>1, <2>5, <2>6 DEF AccountInv
<1>3. ASSUME NEW w \in Worker,
             \/ BeginCancel(w, p) \/ BeginReturn(w, p) \/ BeginDeletePurchase(w, p)
             \/ \E amt \in 1 .. Amount : BeginPay(w, p, amt)
      PROVE  AccountInv'
  <2>1. Rows' /\ UNCHANGED <<buy, pay, bought, paid, lost, overtaken>>
    BY <1>0, <1>3, BeginningKeepsRows
  <2> QED
    BY <2>1, TablesStay
<1> QED
  BY <1>1, <1>2, <1>3 DEF Buying

\* Paying: what a new payment adds to the total is what it is worth, and a payment for no
\* purchase leaves every balance alone.
LEMMA PayingKeeps ==
  ASSUME AccountInv, NEW q \in Payment, Paying(q)
  PROVE  AccountInv'
<1>0. Rows /\ BoughtAt(buy, bought, overtaken, lost) /\ OverAt(pay, overtaken)
      /\ PaidAt(buy, pay, paid, overtaken) /\ PayOK(q) /\ paid \in Int
      /\ overtaken \in BOOLEAN
  BY DEF AccountInv, Rows
<1>9. \A p \in Purchase : p # "none"
  BY SupplierAssumption
<1>1. ASSUME NEW amt \in Nat, NEW in \in BOOLEAN, NEW cheque \in BOOLEAN, ~(in /\ cheque),
             Written(q, "none", amt, in, cheque), Asks,
             paid' = IF in THEN paid - amt ELSE paid + amt,
             UNCHANGED <<buy, bought, lost, overtaken>>
      PROVE  AccountInv'
  <2>1. paid' \in Int
    BY <1>0, <1>1
  <2>2. /\ PayStep(q) /\ Rows' /\ pay[q].st = "none"
        /\ pay'[q] = [st |-> IF cheque THEN "waiting" ELSE "paid", for |-> "none",
                      amt |-> amt, in |-> in, cheque |-> cheque]
    BY <1>0, <1>1, <2>1, Writes
  <2>3. Worth(pay, q) = 0 /\ Worth(pay', q) = (IF in THEN 0 - amt ELSE amt)
    <3>1. in = TRUE => cheque = FALSE
      BY <1>1
    <3> QED
      BY <2>2, <3>1 DEF Worth
  <2>4. paid' = paid + (Worth(pay', q) - Worth(pay, q))
    BY <1>0, <1>1, <2>3
  <2>5. PaidAt(buy', pay', paid', overtaken')
    BY <1>0, <1>1, <2>2, <2>4, PaidMoves
  <2>6. \A p \in Purchase : PaidFor(pay', p, q) = 0 /\ PaidFor(pay, p, q) = 0
    BY <1>9, <2>2 DEF PaidFor
  <2>7. OverAt(pay', overtaken')
    <3>1. \A p \in Purchase : overtaken' = FALSE /\ (pay'[q].for = p => pay'[q].cheque = FALSE)
            => \/ PaidFor(pay', p, q) <= PaidFor(pay, p, q)
               \/ Direct(pay, p) + (PaidFor(pay', p, q) - PaidFor(pay, p, q)) <= Amount
      BY <2>6
    <3> QED
      BY <1>0, <3>1, <1>1, <2>2, OverMoves
  <2>8. BoughtAt(buy', bought', overtaken', lost')
    BY <1>0, <1>1, <2>2, OthersStay
  <2> QED
    BY <2>2, <2>5, <2>7, <2>8 DEF AccountInv
<1>2. ASSUME NEW amt \in 1 .. Amount, RefundFrom(q, amt) PROVE AccountInv'
  <2>1. amt \in Nat /\ TRUE \in BOOLEAN /\ FALSE \in BOOLEAN
    BY SupplierAssumption
  <2> QED
    BY <1>1, <1>2, <2>1 DEF RefundFrom
<1>3. ASSUME NEW amt \in 1 .. Amount, NEW cheque \in BOOLEAN, PayVoucher(q, amt, cheque)
      PROVE  AccountInv'
  <2>1. amt \in Nat /\ FALSE \in BOOLEAN
    BY SupplierAssumption
  <2> QED
    BY <1>1, <1>3, <2>1 DEF PayVoucher
<1>4. ASSUME NEW st \in {"paid", "rejected"}, pay[q].st = "waiting",
             pay' = [pay EXCEPT ![q].st = st], Asks,
             UNCHANGED <<buy, bought, lost, overtaken>>,
             paid' = IF st = "paid" THEN paid ELSE paid - pay[q].amt
      PROVE  AccountInv'
  <2>1. paid' \in Int /\ pay[q].amt \in Nat
    BY <1>0, <1>4 DEF PayOK
  <2>2. /\ PayStep(q) /\ Rows' /\ pay'[q] = [pay[q] EXCEPT !.st = st]
        /\ pay[q].cheque = TRUE /\ pay[q].in = FALSE
    BY <1>0, <1>4, <2>1, Settles
  <2>3. /\ pay'[q].st = st /\ pay'[q].for = pay[q].for /\ pay'[q].amt = pay[q].amt
        /\ pay'[q].in = FALSE /\ pay'[q].cheque = TRUE
    BY <1>0, <2>2 DEF PayOK
  <2>4. /\ Worth(pay, q) = pay[q].amt
        /\ Worth(pay', q) = IF st = "paid" THEN pay[q].amt ELSE 0
    BY <1>4, <2>2, <2>3 DEF Worth
  <2>5. paid' = paid + (Worth(pay', q) - Worth(pay, q))
    BY <1>0, <1>4, <2>1, <2>4
  <2>6. PaidAt(buy', pay', paid', overtaken')
    BY <1>0, <1>4, <2>2, <2>5, PaidMoves
  <2>7. \A p \in Purchase : pay'[q].for = p \/ (PaidFor(pay', p, q) = 0 /\ PaidFor(pay, p, q) = 0)
    BY <2>3 DEF PaidFor
  <2>8. OverAt(pay', overtaken')
    <3>1. \A p \in Purchase : overtaken' = FALSE /\ (pay'[q].for = p => pay'[q].cheque = FALSE)
            => \/ PaidFor(pay', p, q) <= PaidFor(pay, p, q)
               \/ Direct(pay, p) + (PaidFor(pay', p, q) - PaidFor(pay, p, q)) <= Amount
      BY <2>3, <2>7
    <3> QED
      BY <1>0, <3>1, <1>4, <2>2, <2>3, OverMoves
  <2>9. BoughtAt(buy', bought', overtaken', lost')
    BY <1>0, <1>4, <2>2, OthersStay
  <2> QED
    BY <2>2, <2>6, <2>8, <2>9 DEF AccountInv
<1>5. CASE ClearPayment(q)
  BY <1>4, <1>5 DEF ClearPayment
<1>6. CASE BouncePayment(q)
  BY <1>4, <1>6 DEF BouncePayment
<1>7. ASSUME NEW w \in Worker, BeginDeletePayment(w, q) PROVE AccountInv'
  <2>1. Rows' /\ UNCHANGED <<buy, pay, bought, paid, lost, overtaken>>
    BY <1>0, <1>7, BeginningKeepsRows
  <2> QED
    BY <2>1, TablesStay
<1> QED
  BY <1>2, <1>3, <1>5, <1>6, <1>7 DEF Paying

\* Working: the second half of a request decides from what its first half read.
LEMMA WorkKeeps ==
  ASSUME AccountInv, NEW w \in Worker, Work(w)
  PROVE  AccountInv'
<1>0. Rows /\ BoughtAt(buy, bought, overtaken, lost) /\ OverAt(pay, overtaken)
      /\ PaidAt(buy, pay, paid, overtaken) /\ paid \in Int /\ bought \in Int
      /\ Amount \in Nat
  BY SupplierAssumption DEF AccountInv, Rows
<1>1. CASE CancelPurchase(w)
  <2>1. PICK p \in Purchase :
            /\ BuyStep(p) /\ Rows'
            /\ buy[p].st \in {"confirmed", "cancelled"}
            /\ buy'[p] = [buy[p] EXCEPT !.st = "cancelled"]
            /\ work[w].read \in Int /\ bought' = Taken(work[w].read, Amount)
            /\ (lost' = FALSE => lost = FALSE /\ bought = work[w].read)
            /\ (overtaken' = FALSE => overtaken = FALSE /\ buy[p].st # "cancelled")
            /\ UNCHANGED <<paid>>
    BY <1>0, <1>1, Cancels
  <2>2. /\ BuyOK(p) /\ buy'[p].st = "cancelled" /\ buy'[p].quick = buy[p].quick
        /\ buy'[p].back = buy[p].back /\ buy[p].back \in Nat /\ buy[p].quick \in BOOLEAN
    BY <1>0, <2>1 DEF Rows, BuyOK
  <2>3. Follows(buy', p) => buy[p].quick = FALSE /\ buy[p].back = 0
    BY <2>2 DEF Follows
  <2>4. Follows(buy', p) => Follows(buy, p)
    BY <1>0, <2>2, <2>3 DEF Follows
  <2>5. ASSUME overtaken' = FALSE, lost' = FALSE, Follows(buy', p), bought >= Stands(buy, p)
        PROVE  bought' = bought + (Stands(buy', p) - Stands(buy, p))
    <3>1. Stands(buy, p) = Amount /\ Stands(buy', p) = 0
      BY <1>0, <2>1, <2>2, <2>3, <2>5 DEF Stands
    <3>2. bought' = bought - Amount
      BY <1>0, <2>1, <2>5, <3>1 DEF Taken
    <3> QED
      BY <1>0, <3>1, <3>2
  <2>6. BoughtAt(buy', bought', overtaken', lost')
    <3>1. (overtaken' = FALSE => overtaken = FALSE) /\ (lost' = FALSE => lost = FALSE)
      BY <2>1
    <3>2. overtaken' = FALSE /\ lost' = FALSE /\ Follows(buy', p) /\ bought >= Stands(buy, p)
             => bought' = bought + (Stands(buy', p) - Stands(buy, p))
      BY <2>5
    <3> QED
      BY <1>0, <2>1, <2>4, <3>1, <3>2, BoughtMoves
  <2>7. PaidAt(buy', pay', paid', overtaken') /\ OverAt(pay', overtaken')
    BY <1>0, <2>1, OthersStay
  <2> QED
    BY <2>1, <2>6, <2>7 DEF AccountInv
<1>2. CASE ReturnGoods(w)
  <2>1. PICK p \in Purchase :
            /\ BuyStep(p) /\ Rows'
            /\ buy[p].st \in {"confirmed", "cancelled"}
            /\ buy'[p] = [buy[p] EXCEPT !.back = buy[p].back + 1]
            /\ bought' = Taken(bought, 1)
            /\ (overtaken' = FALSE => overtaken = FALSE /\ buy[p].st # "cancelled")
            /\ UNCHANGED <<paid, lost>>
    BY <1>0, <1>2, GivesBack
  <2>2. /\ BuyOK(p) /\ buy'[p].st = buy[p].st /\ buy'[p].quick = buy[p].quick
        /\ buy'[p].back = buy[p].back + 1 /\ buy[p].back \in Nat /\ buy[p].quick \in BOOLEAN
    BY <1>0, <2>1 DEF Rows, BuyOK
  <2>3. Follows(buy', p) => /\ buy[p].quick = FALSE /\ buy[p].st = "confirmed"
                            /\ buy[p].back + 1 <= Amount
    BY <2>1, <2>2 DEF Follows
  <2>4. Follows(buy', p) => Follows(buy, p)
    BY <1>0, <2>2, <2>3 DEF Follows
  <2>5. ASSUME overtaken' = FALSE, lost' = FALSE, Follows(buy', p), bought >= Stands(buy, p)
        PROVE  bought' = bought + (Stands(buy', p) - Stands(buy, p))
    <3>1. /\ Stands(buy, p) = Amount - buy[p].back
          /\ Stands(buy', p) = Amount - (buy[p].back + 1)
      BY <1>0, <2>2, <2>3, <2>5 DEF Stands
    <3>2. bought' = bought - 1
      BY <1>0, <2>1, <2>2, <2>3, <2>5, <3>1 DEF Taken
    <3> QED
      BY <1>0, <2>2, <3>1, <3>2
  <2>6. BoughtAt(buy', bought', overtaken', lost')
    <3>1. (overtaken' = FALSE => overtaken = FALSE) /\ (lost' = FALSE => lost = FALSE)
      BY <2>1
    <3>2. overtaken' = FALSE /\ lost' = FALSE /\ Follows(buy', p) /\ bought >= Stands(buy, p)
             => bought' = bought + (Stands(buy', p) - Stands(buy, p))
      BY <2>5
    <3> QED
      BY <1>0, <2>1, <2>4, <3>1, <3>2, BoughtMoves
  <2>7. PaidAt(buy', pay', paid', overtaken') /\ OverAt(pay', overtaken')
    BY <1>0, <2>1, OthersStay
  <2> QED
    BY <2>1, <2>6, <2>7 DEF AccountInv
<1>3. CASE DeletePurchase(w)
  <2>1. PICK p \in Purchase :
            /\ BuyStep(p) /\ Rows'
            /\ buy[p].quick = TRUE
            /\ buy'[p] = [buy[p] EXCEPT !.st = "deleted"]
            /\ UNCHANGED <<bought, lost, overtaken>>
    BY <1>0, <1>3, Deletes
  <2>2. BuyOK(p) /\ buy'[p].st = "deleted" /\ buy'[p].quick = TRUE
    BY <1>0, <2>1 DEF Rows, BuyOK
  <2>3. ~Follows(buy', p)
    BY <2>2 DEF Follows
  <2>4. BoughtAt(buy', bought', overtaken', lost')
    BY <2>3 DEF BoughtAt
  <2>5. PaidAt(buy', pay', paid', overtaken') /\ OverAt(pay', overtaken')
    BY <1>0, <2>1, <2>2, OthersStay
  <2> QED
    BY <2>1, <2>4, <2>5 DEF AccountInv
<1>4. CASE DeletePayment(w)
  <2>1. PICK q \in Payment :
            /\ PayStep(q) /\ Rows'
            /\ pay[q].for = "none" /\ pay[q].st \in {"paid", "deleted"}
            /\ pay'[q] = [pay[q] EXCEPT !.st = "deleted"]
            /\ paid' = paid - pay[q].amt
            /\ (overtaken' = FALSE => overtaken = FALSE /\ pay[q].st # "deleted")
    BY <1>0, <1>4, Unpays
  <2>2. /\ pay'[q].st = "deleted" /\ pay'[q].for = pay[q].for /\ pay'[q].amt = pay[q].amt
        /\ pay'[q].in = pay[q].in /\ pay'[q].cheque = pay[q].cheque /\ pay[q].amt \in Nat
    BY <1>0, <2>1 DEF Rows, PayOK
  <2>3. ASSUME overtaken' = FALSE, pay'[q].in = FALSE
        PROVE  pay[q].st = "paid" /\ paid' = paid + (Worth(pay', q) - Worth(pay, q))
    <3>1. Worth(pay, q) = pay[q].amt /\ Worth(pay', q) = 0 /\ pay[q].st = "paid"
      BY <2>1, <2>2, <2>3 DEF Worth
    <3> QED
      BY <1>0, <2>1, <2>2, <3>1
  <2>4. PaidAt(buy', pay', paid', overtaken')
    BY <1>0, <2>1, <2>2, <2>3, PaidMoves
  <2>5. \A p \in Purchase : PaidFor(pay', p, q) = 0 /\ PaidFor(pay, p, q) = 0
    BY <2>1, <2>2, SupplierAssumption DEF PaidFor
  <2>6. OverAt(pay', overtaken')
    <3>1. \A p \in Purchase : overtaken' = FALSE /\ (pay'[q].for = p => pay'[q].cheque = FALSE)
            => \/ PaidFor(pay', p, q) <= PaidFor(pay, p, q)
               \/ Direct(pay, p) + (PaidFor(pay', p, q) - PaidFor(pay, p, q)) <= Amount
      BY <2>5
    <3> QED
      BY <1>0, <3>1, <2>1, <2>2, OverMoves
  <2>7. BoughtAt(buy', bought', overtaken', lost')
    BY <1>0, <2>1, OthersStay
  <2> QED
    BY <2>1, <2>4, <2>6, <2>7 DEF AccountInv
<1>5. CASE GiveUp(w)
  <2>1. UNCHANGED <<buy, pay, bought, paid, lost, overtaken>>
    BY <1>5 DEF GiveUp
  <2>2. Rows'
    BY <1>0, <1>5, RowsBegun DEF GiveUp, Answered, NoWork, Rows, HandOK
  <2> QED
    BY <2>1, <2>2, TablesStay
<1>6. ASSUME NEW q \in Payment, NEW cheque \in BOOLEAN, PayPurchase(w, q, cheque)
      PROVE  AccountInv'
  <2>1. PICK p \in Purchase, amt \in Nat :
            /\ PayStep(q) /\ Rows'
            /\ pay[q].st = "none"
            /\ pay'[q] = [st |-> IF cheque THEN "waiting" ELSE "paid", for |-> p,
                          amt |-> amt, in |-> FALSE, cheque |-> cheque]
            /\ paid' = paid + amt
            /\ (overtaken' = FALSE => overtaken = FALSE /\ DirectPaid(p) + amt <= Amount)
    BY <1>0, <1>6, Pays
  <2>2. /\ pay'[q].st = (IF cheque THEN "waiting" ELSE "paid") /\ pay'[q].for = p
        /\ pay'[q].amt = amt /\ pay'[q].in = FALSE /\ pay'[q].cheque = cheque
    BY <2>1
  <2>3. Worth(pay, q) = 0 /\ Worth(pay', q) = amt
    BY <2>1, <2>2 DEF Worth
  <2>4. paid' = paid + (Worth(pay', q) - Worth(pay, q)) /\ pay[q].st # "deleted"
    BY <1>0, <2>1, <2>3
  <2>5. PaidAt(buy', pay', paid', overtaken')
    BY <1>0, <2>1, <2>4, PaidMoves
  <2>6. ASSUME NEW r \in Purchase, overtaken' = FALSE, pay'[q].for = r => pay'[q].cheque = FALSE
        PROVE  \/ PaidFor(pay', r, q) <= PaidFor(pay, r, q)
               \/ Direct(pay, r) + (PaidFor(pay', r, q) - PaidFor(pay, r, q)) <= Amount
    <3>1. PaidFor(pay, r, q) = 0
      BY <2>1 DEF PaidFor
    <3>2. CASE r = p
      <4>1. PaidFor(pay', r, q) = amt \/ PaidFor(pay', r, q) = 0
        BY <2>2, <3>2 DEF PaidFor
      <4>2. Direct(pay, r) + amt <= Amount
        BY <2>1, <2>6, <3>2, TablesRead
      <4> QED
        BY <3>1, <4>1, <4>2
    <3>3. CASE r # p
      BY <2>2, <3>1, <3>3 DEF PaidFor
    <3> QED
      BY <3>2, <3>3
  <2>7. OverAt(pay', overtaken')
    BY <1>0, <2>1, <2>6, OverMoves
  <2>8. BoughtAt(buy', bought', overtaken', lost')
    BY <1>0, <2>1, OthersStay
  <2> QED
    BY <2>1, <2>5, <2>7, <2>8 DEF AccountInv
<1> QED
  BY <1>1, <1>2, <1>3, <1>4, <1>5, <1>6 DEF Work

\* No document, no total: the invariant holds at the start.
LEMMA AccountStarts == SupplierInit => AccountInv
<1> SUFFICES ASSUME SupplierInit PROVE AccountInv
  OBVIOUS
<1>1. Rows
  <2>1. \A p \in Purchase : BuyOK(p)
    BY DEF SupplierInit, NoPurchase, BuyOK
  <2>2. \A q \in Payment : PayOK(q)
    BY DEF SupplierInit, NoPayment, PayOK
  <2>3. \A w \in Worker : HandOK(w)
    BY DEF SupplierInit, NoWork, HandOK
  <2>4. DOMAIN buy = Purchase /\ DOMAIN pay = Payment /\ DOMAIN work = Worker
    BY DEF SupplierInit
  <2>5. bought \in Int /\ paid \in Int
    BY DEF SupplierInit
  <2>6. lost \in BOOLEAN /\ overtaken \in BOOLEAN
    BY Zenon DEF SupplierInit
  <2> QED
    BY <2>1, <2>2, <2>3, <2>4, <2>5, <2>6 DEF Rows
<1>2. /\ bought = 0 /\ paid = 0
      /\ \A p \in Purchase : Stands(buy, p) = 0
      /\ \A q \in Payment : Worth(pay, q) = 0 /\ \A p : PaidFor(pay, p, q) = 0
  BY DEF SupplierInit, NoPurchase, NoPayment, Stands, Worth, PaidFor
<1>3. ASSUME NEW S, IsFiniteSet(S), NEW f, \A x \in S : f[x] = 0
      PROVE  SumFunctionOnSet(f, S) = 0
  <2>1. /\ {} \in SUBSET S /\ (\A x \in S : f[x] \in Int) /\ \A x \in S \ {} : f[x] = 0
    BY <1>3
  <2>2. SumFunctionOnSet(f, S) = SumFunctionOnSet(f, {})
    BY <1>3, <2>1, SumDrops
  <2>3. SumFunctionOnSet(f, {}) = 0
    BY FS_EmptySet, SumUnfolds
  <2> QED
    BY <2>2, <2>3
<1>4. PurchaseTotal(buy) = 0
  <2> DEFINE f == [p \in Purchase |-> Stands(buy, p)]
  <2>1. IsFiniteSet(Purchase) /\ \A p \in Purchase : f[p] = 0
    BY <1>2, SupplierAssumption
  <2>2. SumFunctionOnSet(f, Purchase) = 0
    <3> HIDE DEF f
    <3> QED
      BY <1>3, <2>1
  <2> QED
    BY <2>2 DEF PurchaseTotal
<1>5. SomePayments(pay) /\ IsFiniteSet(Payment) /\ Amount \in Nat
  BY <1>1, RowsTables, SupplierAssumption
<1>6. Net(pay) = 0
  <2> DEFINE f == [q \in Payment |-> Worth(pay, q)]
  <2>1. Net(pay) = SumFunctionOnSet(f, Payment) /\ \A q \in Payment : f[q] = 0
    BY <1>2, <1>5, NetIsWorth
  <2> HIDE DEF f
  <2> QED
    BY <1>3, <1>5, <2>1
<1>7. ASSUME NEW p \in Purchase PROVE Direct(pay, p) = 0
  <2> DEFINE f == [q \in Payment |-> PaidFor(pay, p, q)]
  <2>1. Direct(pay, p) = SumFunctionOnSet(f, Payment) /\ \A q \in Payment : f[q] = 0
    BY <1>2, <1>5, DirectIsPaidFor
  <2> HIDE DEF f
  <2> QED
    BY <1>3, <1>5, <2>1
<1> QED
  BY <1>1, <1>2, <1>4, <1>5, <1>6, <1>7 DEF AccountInv, BoughtAt, PaidAt, OverAt

\* The account of the supplier stays well formed, and its totals follow the documents.
THEOREM AccountKept == SupplierSpec => []AccountInv
<1>1. AccountInv /\ [SupplierNext]_account => AccountInv'
  <2> SUFFICES ASSUME AccountInv, [SupplierNext]_account PROVE AccountInv'
    OBVIOUS
  <2>1. ASSUME NEW w \in Worker, Work(w) PROVE AccountInv'
    BY <2>1, WorkKeeps
  <2>2. ASSUME NEW p \in Purchase, Buying(p) PROVE AccountInv'
    BY <2>2, BuyingKeeps
  <2>3. ASSUME NEW q \in Payment, Paying(q) PROVE AccountInv'
    BY <2>3, PayingKeeps
  <2>4. CASE UNCHANGED account
    <3>1. UNCHANGED <<buy, pay, bought, paid, lost, overtaken>> /\ work' = work
      BY <2>4 DEF account
    <3>2. Rows'
      <4>1. Rows
        BY DEF AccountInv
      <4>2. ASSUME NEW w \in Worker PROVE HandOK(w)'
        BY <3>1, <4>1, HandStays
      <4>3. (\A p \in Purchase : BuyOK(p)') /\ (\A q \in Payment : PayOK(q)')
        BY <3>1, <4>1 DEF Rows, BuyOK, PayOK
      <4> QED
        BY <3>1, <4>1, <4>2, <4>3 DEF Rows
    <3> QED
      BY <3>1, <3>2, TablesStay
  <2> QED
    BY <2>1, <2>2, <2>3, <2>4 DEF SupplierNext, Rest
<1> QED
  BY <1>1, AccountStarts, PTL DEF SupplierSpec

\* total_purchases_aed is what the purchases of the supplier come to less what was given
\* back, unless cancel_purchase wrote over a newer total, a document was acted on after it
\* had changed, or a purchase is one the total does not follow.
THEOREM BoughtAgrees == SupplierSpec => []BoughtMatches
<1>1. AccountInv => BoughtMatches
  BY AtNow DEF AccountInv
<1> QED
  BY <1>1, AccountKept, PTL

\* total_paid_aed is what stands as paid out, a cheque from the day it is issued, less the
\* refunds, unless delete_payment ran twice or on a refund or a purchase was deleted.
THEOREM PaidAgrees == SupplierSpec => []PaidMatches
<1>1. AccountInv => PaidMatches
  BY AtNow DEF AccountInv
<1> QED
  BY <1>1, AccountKept, PTL

\* create_payment never lets more be paid for a purchase than it is for, when no other
\* payment came between its reading the balance and its writing, and no cheque waits.
THEOREM NobodyOverpaid == SupplierSpec => []NotOverpaid
<1>1. AccountInv => NotOverpaid
  BY AtNow DEF AccountInv
<1> QED
  BY <1>1, AccountKept, PTL
=============================================================================
