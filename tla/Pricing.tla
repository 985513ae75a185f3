--------------------------------- MODULE Pricing ---------------------------------
(* The PriceNegotiators of the two ends of one price request                  *)
(* (src/src/qasp/protocol/settlement.py). Messages may arrive in any order.   *)
(* An offer's signature stands for its terms.                                 *)
EXTENDS Integers, FiniteSets

CONSTANTS Prices, MaxOffers

Nobody == [none |-> TRUE]

VARIABLES offers,     \* [end -> _offers of the request]
          made,       \* the offers the server sent
          accepts,    \* the accepts the agent sent
          schedules   \* [end -> the PriceSchedules made there]

pvars == <<offers, made, accepts, schedules>>

PInit ==
    /\ offers = [server |-> Nobody, agent |-> Nobody]
    /\ made = {} /\ accepts = {} /\ schedules = {}

CreatePriceOffer(price) ==
    LET offer == [number |-> Cardinality(made) + 1, price |-> price]
    IN  /\ Cardinality(made) < MaxOffers
        /\ made' = made \cup {offer}
        /\ offers' = [offers EXCEPT !.server = offer]
        /\ UNCHANGED <<accepts, schedules>>

ProcessPriceOffer(offer) ==
    /\ offers' = [offers EXCEPT !.agent = offer]
    /\ UNCHANGED <<made, accepts, schedules>>

\* create_price_accept takes the offer it is given, not the last one it processed.
CreatePriceAccept(offer) ==
    /\ offers.agent # Nobody
    /\ offer.number <= offers.agent.number
    /\ accepts' = accepts \cup {offer}
    /\ UNCHANGED <<offers, made, schedules>>

\* process_price_accept: the terms are the accept's, the offerer's signature is
\* that of the last offer made.
ScheduleOfLastOffer(accept) == [price |-> offers.server.price, offerer |-> offers.server.number,
                                accepter |-> accept.number]
Schedule(accept) == [price |-> accept.price, offerer |-> offers.server.number, accepter |-> accept.number]
ProcessPriceAccept(accept) ==
    /\ schedules' = schedules \cup {Schedule(accept)}
    /\ UNCHANGED <<offers, made, accepts>>

PNext ==
    \/ \E price \in Prices : CreatePriceOffer(price)
    \/ \E offer \in made : ProcessPriceOffer(offer) \/ CreatePriceAccept(offer)
    \/ \E accept \in accepts : ProcessPriceAccept(accept)

PSpec == PInit /\ [][PNext]_pvars

-------------------------------------------------------------------------------
\* A schedule charges the price of the offer its accepter signed, also when the
\* server has made another offer for the request since.
ScheduleAsAccepted ==
    \A s \in schedules : \E o \in made : o.number = s.accepter /\ o.price = s.price
===============================================================================
