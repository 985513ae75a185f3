----------------------------- MODULE SharedLedger -----------------------------
(***************************************************************************)
(* What a payment channel promises two ends that await the answers to      *)
(* their proposals, without proposals, answers or sequence numbers: the    *)
(* ends keep one book.  An end enters an update only when both know the    *)
(* whole book, the update makes one payment of the other end out of the    *)
(* balances of the last one and names it, and the other end learns of it   *)
(* before the next is entered.  The promise ends with the first award of   *)
(* an auditor, which the ends do not tell each other.                      *)
(***************************************************************************)
EXTENDS Integers, Sequences

CONSTANTS Ends,
          Start,     \* the balances of a channel that was opened
          Costs,     \* what a payment may be
          Receipts   \* the hash of a receipt chain

VARIABLES kept,   \* the promise stands
          book,   \* the updates, in order
          known,  \* how much of the book each end knows
          purse,  \* the balances of the ends that may pay
          idle    \* nothing is on its way

Balance(n) == IF n = 0 THEN Start ELSE book[n].balance

PursesMatch == \A e \in DOMAIN purse : purse[e] = Balance(known[e])

Told == idle => \A e \in Ends : known[e] = Len(book)

Nothing ==
  /\ book = <<>>
  /\ known = [e \in Ends |-> 0]
  /\ DOMAIN purse = {}

Init ==
  /\ kept \in BOOLEAN
  /\ Nothing
  /\ idle \in BOOLEAN

Pays(e, cost, before, after) ==
  /\ after[e] = before[e] - cost
  /\ after[e] >= 0
  /\ \A f \in Ends \ {e} : after[f] = before[f] + cost

Enter(e) ==
  LET n == Len(book)
      u == book'[n + 1]
  IN  /\ \A f \in Ends : known[f] = n
      /\ Len(book') = n + 1 /\ book' = Append(book, u)
      /\ u.prev \in {Receipts, IF n = 0 THEN 0 ELSE book[n].id}
      /\ \E f \in Ends \ {e}, cost \in Costs : Pays(f, cost, Balance(n), u.balance)
      /\ known' = [known EXCEPT ![e] = n + 1]

Learn(e) ==
  /\ known[e] < Len(book)
  /\ known' = [known EXCEPT ![e] = @ + 1]
  /\ book' = book

\* One step may also open or close an end for payments.
Keep ==
  /\ kept /\ kept'
  /\ UNCHANGED <<book, known>> \/ \E e \in Ends : Enter(e) \/ Learn(e)
  /\ PursesMatch'
  /\ Told'

Part == kept /\ ~kept' /\ Nothing' /\ ~idle'

Next == Keep \/ Part

Spec == Init /\ [][Next]_<<kept, book, known, purse, idle>>
=============================================================================
