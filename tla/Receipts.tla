------------------------------ MODULE Receipts ------------------------------
(***************************************************************************)
(* The finance desk's cash and check receipts of one person:               *)
(* src/lib/server/contribution/receipt.ts, finance-read.ts and the route   *)
(* src/routes/(finance)/contributions/receipts.  Rows are only appended    *)
(* (migration 0005 revokes UPDATE and DELETE), so a correction is a row    *)
(* that reverses another and a row that replaces it.                       *)
(*                                                                         *)
(* A page gives each of its forms an operation id, and the idempotency     *)
(* keys of what a form writes are made of it: <<operation, part>>.  A form *)
(* can be posted any number of times, by several requests at once, and     *)
(* with other figures in it.  What a form's other fields carry (date,      *)
(* cadence, notes) is compared as the amount is, and is one figure here.   *)
(***************************************************************************)
EXTENDS Integers, Sequences, FiniteSets, Functions

CONSTANTS
  Actor,      \* people who hold, or held, the finance grant
  Request,    \* requests that may run at the same time
  Amount,     \* the figures that are posted; those above 0 are valid
  MaxForms,   \* bound of the model: forms that pages have offered
  MaxChoices  \* bound of the model: times the agreement changes under them

ASSUME ReceiptsAssumption ==
  /\ Amount \subseteq Nat
  /\ MaxForms \in Nat
  /\ MaxChoices \in Nat

VARIABLES
  finance,   \* the actors with a live finance grant
  terms,     \* contribution_agreement: its state and rail
  choices,   \* how often the agreement has changed
  rows,      \* finance_receipt, in the order of their inserts: a row's id is its index
  forms,     \* the forms offered so far: a form's operation id is its index
  request,   \* what each open request posts, and what its transaction has read
  answer     \* the answer that the last step gave, if it gave one and did not refuse

receiptsVars == <<finance, terms, choices, rows, forms, request, answer>>

Rail == {"cash", "check"}
NoRail == "none"
State == {"cash_pending", "cash_recorded", "other"}
Part == {"record", "reverse", "replacement"}
Id == DOMAIN rows

Row == [op : 1..MaxForms, part : Part, rail : Rail, amount : Amount, reverses : Nat]
Form == [by : Actor, of : Nat]
Idle == [pc |-> "idle"]
NoAnswer == [is |-> "none"]

ReceiptsTypeOK ==
  /\ finance \subseteq Actor
  /\ terms \in [state : State, rail : Rail \union {NoRail}]
  /\ rows \in Seq(Row)
  /\ forms \in Seq(Form)
  /\ \A r \in Request : request[r] = Idle \/ request[r].pc \in {"recording", "replacing"}
  /\ answer \in [op : 1..MaxForms, amount : Amount, rail : Rail, is : {"done", "conflict"}]
               \union {NoAnswer}

ReceiptsInit ==
  /\ finance = Actor
  /\ terms = [state |-> "other", rail |-> NoRail]
  /\ choices = 0
  /\ rows = <<>>
  /\ forms = <<>>
  /\ request = [r \in Request |-> Idle]
  /\ answer = NoAnswer

-----------------------------------------------------------------------------
(* What is read of the rows.                                               *)

ReversalsOf(i) == {j \in Id : rows[j].reverses = i}
Correctable(i) == rows[i].reverses = 0 /\ ReversalsOf(i) = {}

\* A mistaken net: a reversed receipt still counts.
NetRowsBare == {i \in Id : rows[i].reverses = 0}

\* netAmountCents: every row that is neither a reversal nor reversed.
NetRows == {i \in Id : Correctable(i)}
NetAmountCents == SumFunctionOnSet([i \in NetRows |-> rows[i].amount], NetRows)

\* Receipts are entered while the agreement is one for cash or a check.
CashCheckRail(a) == IF a.state = "other" THEN NoRail ELSE a.rail

\* A mistaken correction follows the agreement to its new rail.
RailOfCorrectionNow(target) == CashCheckRail(terms)

\* A correction stays on the rail of the receipt that it corrects.
RailOfCorrection(target) == target.rail

\* The row that has a key already, if any.
Standing(op, part) == {i \in Id : rows[i].op = op /\ rows[i].part = part}

-----------------------------------------------------------------------------
(* The pages, the member and the operator.                                 *)

\* The page lists people with a cash or check agreement, to a live grant, and
\* offers a form to record (of 0) and one to correct each correctable row.
Offer(a) ==
  /\ answer' = NoAnswer
  /\ a \in finance
  /\ CashCheckRail(terms) # NoRail
  /\ Len(forms) < MaxForms
  /\ \E i \in {0} \union NetRows : forms' = Append(forms, [by |-> a, of |-> i])
  /\ UNCHANGED <<finance, terms, choices, rows, request>>

\* The member chooses cash or a check, or the agreement leaves these states: by
\* another choice, by Stripe's projection, by an offboarding.
Choose(rail) ==
  /\ answer' = NoAnswer
  /\ choices < MaxChoices
  /\ choices' = choices + 1
  /\ terms' = IF rail \in Rail THEN [state |-> "cash_pending", rail |-> rail]
                                   ELSE [terms EXCEPT !.state = "other"]
  /\ UNCHANGED <<finance, rows, forms, request>>

RevokeFinance(a) ==
  /\ answer' = NoAnswer
  /\ a \in finance
  /\ finance' = finance \ {a}
  /\ UNCHANGED <<terms, choices, rows, forms, request>>

-----------------------------------------------------------------------------
(* A posted form.                                                          *)

Told(q, is) == answer' = [op |-> q.op, amount |-> q.amount, rail |-> q.rail, is |-> is]

\* requireFinance, in the transaction of the write, and then validation.
Admitted(op, amount) == forms[op].by \in finance /\ amount > 0

\* Some other transaction has inserted rows of this operation and not ended yet:
\* an insert of the same key waits for it.
KeyHeld(op) == \E r \in Request : request[r].pc = "replacing" /\ request[r].op = op

\* A mistaken comparison forgets the amount.
DiffersExceptAmount(row, standing) ==
  row.rail # standing.rail \/ row.reverses # standing.reverses

\* recordCashCheckReceipt compares a row that has the key with what was posted.
Differs(row, standing) ==
  \/ row.rail # standing.rail
  \/ row.amount # standing.amount
  \/ row.reverses # standing.reverses

\* A fresh cash or check receipt settles an agreement that waits for one.
Recorded(a) == IF a.state = "cash_pending" THEN [a EXCEPT !.state = "cash_recorded"] ELSE a

\* The record action's first reads: the grant and the agreement, whose rail
\* becomes the receipt's.
OpenRecord(r, op, amount) ==
  /\ answer' = NoAnswer
  /\ request[r] = Idle
  /\ forms[op].of = 0
  /\ LET rail == CashCheckRail(terms)
         open == Admitted(op, amount) /\ rail # NoRail
     IN request' = IF open
                   THEN [request EXCEPT ![r] = [pc |-> "recording", op |-> op,
                                                amount |-> amount, rail |-> rail]]
                   ELSE request
  /\ UNCHANGED <<finance, terms, choices, rows, forms>>

\* Its insert, with the update of the agreement, and the commit.  A row that has
\* the key is the answer if it says the same.
FinishRecord(r) ==
  /\ request[r].pc = "recording"
  /\ LET q == request[r]
         row == [op |-> q.op, part |-> "record", rail |-> q.rail,
                 amount |-> q.amount, reverses |-> 0]
         old == Standing(q.op, "record")
     IN \/ /\ old = {}
           /\ rows' = Append(rows, row)
           /\ terms' = Recorded(terms)
           /\ Told(q, "done")
        \/ /\ old # {}
           /\ Told(q, IF \E i \in old : Differs(row, rows[i]) THEN "conflict" ELSE "done")
           /\ UNCHANGED <<rows, terms>>
  /\ request' = [request EXCEPT ![r] = Idle]
  /\ UNCHANGED <<finance, choices, forms>>

\* The correct action up to its second insert: the grant, the receipt to
\* reverse, and the reversal, a copy of it.  That one stands already if the form was
\* posted before; then nothing is inserted.
OpenCorrect(r, op, amount) ==
  /\ answer' = NoAnswer
  /\ request[r] = Idle
  /\ forms[op].of # 0
  /\ ~KeyHeld(op)
  /\ LET target == rows[forms[op].of]
         open == Admitted(op, amount) /\ target.reverses = 0
     IN request' = IF open
                   THEN [request EXCEPT ![r] = [pc |-> "replacing", op |-> op,
                                                amount |-> amount, rail |-> RailOfCorrection(target)]]
                   ELSE request
  /\ UNCHANGED <<finance, terms, choices, rows, forms>>

\* The rows that a correction leaves, reversal before replacement.
Correction(q, replacement) ==
  <<[op |-> q.op, part |-> "reverse", rail |-> q.rail,
     amount |-> rows[forms[q.op].of].amount, reverses |-> forms[q.op].of],
    replacement>>

\* The rest: the agreement, the replacement, whose rail is the reversed row's, and
\* the commit of both rows, or of neither.
FinishCorrect(r) ==
  /\ request[r].pc = "replacing"
  /\ LET q == request[r]
         row == [op |-> q.op, part |-> "replacement", rail |-> q.rail,
                 amount |-> q.amount, reverses |-> 0]
         old == Standing(q.op, "replacement")
     IN \/ /\ CashCheckRail(terms) = NoRail
           /\ UNCHANGED <<rows, terms>>
           /\ answer' = NoAnswer
        \/ /\ CashCheckRail(terms) # NoRail
           /\ old = {}
           /\ rows' = rows \o Correction(q, row)
           /\ terms' = Recorded(terms)
           /\ Told(q, "done")
        \/ /\ CashCheckRail(terms) # NoRail
           /\ old # {}
           /\ Told(q, IF \E i \in old : Differs(row, rows[i]) THEN "conflict" ELSE "done")
           /\ UNCHANGED <<rows, terms>>
  /\ request' = [request EXCEPT ![r] = Idle]
  /\ UNCHANGED <<finance, choices, forms>>

ReceiptsNext ==
  \/ \E a \in Actor : Offer(a) \/ RevokeFinance(a)
  \/ \E rail \in Rail \union {NoRail} : Choose(rail)
  \/ \E r \in Request, op \in DOMAIN forms, amount \in Amount :
       OpenRecord(r, op, amount) \/ OpenCorrect(r, op, amount)
  \/ \E r \in Request : FinishRecord(r) \/ FinishCorrect(r)

ReceiptsSpec == ReceiptsInit /\ [][ReceiptsNext]_receiptsVars

-----------------------------------------------------------------------------
(* Properties.                                                             *)

\* What a payment comes to: the amount of its row, or of the last replacement
\* along its corrections.
Figure ==
  LET figure[i \in Id] ==
        IF ReversalsOf(i) = {} THEN rows[i].amount
        ELSE SumFunctionOnSet(figure,
               UNION {Standing(rows[k].op, "replacement") : k \in ReversalsOf(i)})
  IN figure

Payments == {i \in Id : rows[i].part = "record"}
CorrectedTwice == {i \in Id : Cardinality(ReversalsOf(i)) > 1}

\* Unless two forms have corrected one receipt, each payment counts once in the
\* net, at its latest figure: no retry, conflict or refusal leaves a reversal
\* without its replacement, or a payment counted with its correction
\* (receipt.ts, netAmountCents).
NetIsLatestFigures ==
  CorrectedTwice = {} =>
    /\ Cardinality(NetRows) = Cardinality(Payments)
    /\ NetAmountCents = SumFunctionOnSet(Figure, Payments)

\* A figure called recorded is in the rows, once: a reused key with another
\* figure is never reported as success (receipt.ts, "Returning the original here
\* would report recorded for money that was never recorded").
AnswersAreTrue ==
  answer.is = "done" =>
    Cardinality({i \in Id : /\ rows[i].op = answer.op
                            /\ rows[i].part # "reverse"
                            /\ rows[i].amount = answer.amount}) = 1

\* A form that was recorded and is posted again unchanged is called a conflict
\* only if it records a new receipt, and the agreement that it reads has changed from
\* the rail of its row to another; a correction keeps the rail of what it corrects, so
\* it never is (receipt.ts, "a duplicate request returns the original result").
DuplicatesConverge ==
  answer.is = "conflict" =>
    \A i \in Id :
      /\ rows[i].op = answer.op
      /\ rows[i].part # "reverse"
      /\ rows[i].amount = answer.amount
      => rows[i].part = "record" /\ rows[i].rail # answer.rail /\ choices > 1

=============================================================================
