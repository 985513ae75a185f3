--------------------------- MODULE DeliveryEscrow ---------------------------
(***************************************************************************)
(* What per-message metering promises for relay sessions, without timers,  *)
(* acks or connections: a message is charged by taking one unit out of the *)
(* session's budget into a hold; a hold is spent (delivery confirmed) or   *)
(* returned to the budget (rolled back), once.  New holds are taken only   *)
(* while the session is open and the budget lasts.                         *)
(***************************************************************************)
EXTENDS Integers, FiniteSets

CONSTANTS Sessions,
          Holds,     \* the messages of a session
          Budgets,   \* what a session may be granted
          NoLimit

VARIABLES phase,     \* of each session: "new", "asked", "open" or "closed"
          available, \* the budget left
          hold       \* what became of each message's charge

Init ==
  /\ phase = [e \in Sessions |-> "new"]
  /\ available = [e \in Sessions |-> NoLimit]
  /\ hold = [e \in Sessions |-> [h \in Holds |-> "none"]]

Ask(e) ==
  /\ phase[e] = "new"
  /\ phase' = [phase EXCEPT ![e] = "asked"]
  /\ \E b \in Budgets :
       available' = [available EXCEPT ![e] = b]
  /\ UNCHANGED hold

Open(e) ==
  /\ phase[e] = "asked"
  /\ phase' = [phase EXCEPT ![e] = "open"]
  /\ UNCHANGED <<available, hold>>

MayBecome(st) ==
  CASE st = "none"    -> {"none", "pending", "refunded"}
    [] st = "pending" -> {"pending", "confirmed", "refunded"}
    [] OTHER          -> {st}

\* One step may settle one message's hold and take another's (a data frame
\* carries an acknowledgement of the other direction), or settle one and
\* close the session.
Move(e) ==
  LET taken == {h \in Holds : hold[e][h] = "none" /\ hold'[e][h] = "pending"}
      returned == {h \in Holds : /\ hold[e][h] = "pending"
                                 /\ hold'[e][h] = "refunded"}
  IN  /\ \A h \in Holds : hold'[e][h] \in MayBecome(hold[e][h])
      /\ phase'[e] \in IF phase[e] = "open" THEN {"open", "closed"} ELSE {phase[e]}
      /\ taken # {} => phase'[e] = "open"
      /\ available[e] # NoLimit => Cardinality(taken) <= available[e]
      /\ available' =
           [available EXCEPT ![e] =
              IF @ = NoLimit
                THEN NoLimit
                ELSE @ - Cardinality(taken) + Cardinality(returned)]
      /\ phase' = [phase EXCEPT ![e] = phase'[e]]
      /\ hold' = [hold EXCEPT ![e] = hold'[e]]

Next == \E e \in Sessions : Ask(e) \/ Open(e) \/ Move(e)

Spec == Init /\ [][Next]_<<phase, available, hold>>
=============================================================================
