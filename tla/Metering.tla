-------------------------------- MODULE Metering --------------------------------
(* One metered resource between an agent and a server                         *)
(* (src/src/qasp/protocol/metering.py, accounting.py, reconciliation.py): the *)
(* ResourceManager of each end, the server's Meter and receipt chain, and the *)
(* reconciliation of costs the two ends disagree on.                          *)
(*                                                                            *)
(* The ends exchange messages over one connection, in order. Signatures are   *)
(* taken to verify. A message that raises an exception is consumed.           *)
EXTENDS Integers, Sequences, FiniteSets, SequencesExt, FiniteSetsExt

CONSTANTS Price, QuantityLimit, MaxSpend, NotAfter,  \* unit_price and constraints
          GracePeriod,                    \* GRACE_PERIOD_SECONDS
          UsageSizes, LocalUsages,        \* units per call of record_usage; [units, cost] of record_local_usage
          MaxUnits, MaxReports, MaxTime, MaxWire

\* Usage is counted in units, and a price is in the smallest denomination.
ASSUME MeteringAssumption == Price \in Nat /\ UsageSizes \subseteq Nat

Holders == {"agent", "server"}
Other(e) == IF e = "agent" THEN "server" ELSE "agent"

Unknown == [state |-> "unknown", units |-> 0, cost |-> 0, seq |-> 0, acked |-> 0]
Granted == [Unknown EXCEPT !.state = "active"]
NoSession == [state |-> "none"]

VARIABLES resource,   \* [Holders -> the ManagedResource]
          tracked,    \* agent_tracked_units and agent_tracked_cost
          metered,    \* units of the Meter's records
          chain,      \* the server's receipts; the agent's chain stays empty
          session,    \* [Holders -> reconciliation_session]
          line,       \* [Holders -> messages of that end on their way]
          time

mvars == <<resource, tracked, metered, chain, session, line, time>>

MInit ==
    /\ resource = [e \in Holders |-> Unknown]
    /\ tracked = [units |-> 0, cost |-> 0]
    /\ metered = 0
    /\ chain = << >>
    /\ session = [e \in Holders |-> NoSession]
    /\ line = [e \in Holders |-> << >>]
    /\ time = 0

Says(e, m) == line' = [line EXCEPT ![e] = Append(@, m)]
Hears(e, kind) == line[Other(e)] # << >> /\ Head(line[Other(e)]).kind = kind
HeadOf(e) == Head(line[Other(e)])
Heard(e) == line' = [line EXCEPT ![Other(e)] = Tail(@)]
HeardAndSays(e, m) == line' = [line EXCEPT ![Other(e)] = Tail(@), ![e] = Append(@, m)]
Room(e) == Len(line[e]) < MaxWire
In(e, states) == resource[e].state \in states
Becomes(e, state) == resource' = [resource EXCEPT ![e].state = state]

-------------------------------------------------------------------------------
(* Request and grant                                                          *)

CreateResourceRequest ==
    /\ In("agent", {"unknown"}) /\ In("server", {"unknown"})
    /\ line = [e \in Holders |-> << >>]
    /\ Says("agent", [kind |-> "request"])
    /\ UNCHANGED <<resource, tracked, metered, chain, session, time>>

\* process_resource_request: the server's application grants ...
ProcessResourceRequest ==
    /\ Hears("server", "request")
    /\ resource' = [resource EXCEPT !["server"] = Granted]
    /\ HeardAndSays("server", [kind |-> "grant"])
    /\ UNCHANGED <<tracked, metered, chain, session, time>>
\* ... or denies.
DenyResourceRequest ==
    /\ Hears("server", "request")
    /\ HeardAndSays("server", [kind |-> "deny"])
    /\ UNCHANGED <<resource, tracked, metered, chain, session, time>>

ProcessResourceGrant ==
    /\ Hears("agent", "grant")
    /\ resource' = [resource EXCEPT !["agent"] = Granted]
    /\ Heard("agent")
    /\ UNCHANGED <<tracked, metered, chain, session, time>>
ProcessResourceDeny ==
    /\ Hears("agent", "deny")
    /\ Heard("agent")
    /\ UNCHANGED <<resource, tracked, metered, chain, session, time>>

-------------------------------------------------------------------------------
(* Usage and reports                                                          *)

RecordUsage(units) ==
    /\ In("server", {"active"})
    /\ resource["server"].units + units <= MaxUnits
    /\ resource' = [resource EXCEPT !["server"].units = @ + units,
                                    !["server"].cost = @ + units * Price]
    /\ metered' = metered + units
    /\ UNCHANGED <<tracked, chain, session, line, time>>

\* generate_receipt: a receipt over the records, which are then cleared. Its
\* total_cost is always 0.
ReceiptKeepsRecords ==
    /\ chain' = Append(chain, [seq |-> Len(chain) + 1, units |-> metered, cost |-> 0])
    /\ UNCHANGED metered
GenerateReceipt ==
    /\ chain' = Append(chain, [seq |-> Len(chain) + 1, units |-> metered, cost |-> 0])
    /\ metered' = 0

GenerateMeterReport ==
    /\ In("server", {"active"})
    /\ resource["server"].seq < MaxReports
    /\ Room("server")
    /\ resource' = [resource EXCEPT !["server"].seq = @ + 1]
    /\ GenerateReceipt
    /\ LET r == resource["server"]
       IN  Says("server", [kind |-> "report", seq |-> r.seq + 1, units |-> r.units, cost |-> r.cost])
    /\ UNCHANGED <<tracked, session, time>>

RecordLocalUsage(u) ==
    /\ ~ In("agent", {"unknown"})
    /\ tracked.units + u.units <= MaxUnits
    /\ tracked' = [units |-> tracked.units + u.units, cost |-> tracked.cost + u.cost]
    /\ UNCHANGED <<resource, metered, chain, session, line, time>>

\* DivergenceDetector.compute_tolerance: one per cent, and at least 1.
Tolerance(cost) == Max({cost \div 100, 1})
AbsDiff(a, b) == Max({a - b, b - a})
Diverged(a, b) == AbsDiff(a, b) > Tolerance(Max({a, b}))

\* check_constraints
Exceeded(r) == r.units > QuantityLimit \/ r.cost > MaxSpend \/ time > NotAfter

NewSession == [state |-> "idle", created |-> time, method |-> "none", agreed |-> 0]

Installed(m) == [resource["agent"] EXCEPT !.units = m.units, !.cost = m.cost, !.seq = m.seq]
Detected(m) ==
    /\ tracked.units > 0
    /\ Diverged(m.cost, tracked.cost)
    /\ session["agent"] = NoSession

ProcessMeterReport ==
    /\ Hears("agent", "report")
    /\ In("agent", {"active"})
    /\ LET m == HeadOf("agent")
           r == Installed(m)
       IN  /\ resource' = [resource EXCEPT !["agent"] =
                  [r EXCEPT !.state = IF Exceeded(r) THEN "suspended" ELSE "active"]]
           /\ HeardAndSays("agent", IF Exceeded(r) THEN [kind |-> "suspend"]
                                                   ELSE [kind |-> "ack", seq |-> m.seq])
           /\ session' = [session EXCEPT !["agent"] = IF Detected(m) THEN NewSession ELSE @]
    /\ UNCHANGED <<tracked, metered, chain, time>>
\* InvalidResourceStateError, ResourceNotFoundError
RefuseMeterReport ==
    /\ Hears("agent", "report")
    /\ ~ In("agent", {"active"})
    /\ Heard("agent")
    /\ UNCHANGED <<resource, tracked, metered, chain, session, time>>

ProcessMeterAck ==
    /\ Hears("server", "ack")
    /\ resource' = [resource EXCEPT !["server"].acked = HeadOf("server").seq]
    /\ Heard("server")
    /\ UNCHANGED <<tracked, metered, chain, session, time>>

-------------------------------------------------------------------------------
(* Suspension and release. Neither end resumes, and process_resource_suspend  *)
(* and process_resource_release do not look at the state they replace.        *)

SuspendResource ==
    /\ In("server", {"active"})
    /\ Room("server")
    /\ Becomes("server", "suspended")
    /\ Says("server", [kind |-> "suspend"])
    /\ UNCHANGED <<tracked, metered, chain, session, time>>

ProcessResourceSuspend(e) ==
    /\ Hears(e, "suspend")
    /\ Becomes(e, "suspended")
    /\ Heard(e)
    /\ UNCHANGED <<tracked, metered, chain, session, time>>

CreateResourceRelease ==
    /\ In("agent", {"active", "suspended"})
    /\ Room("agent")
    /\ Becomes("agent", "released")
    /\ Says("agent", [kind |-> "release", units |-> resource["agent"].units])
    /\ UNCHANGED <<tracked, metered, chain, session, time>>

ProcessResourceRelease ==
    /\ Hears("server", "release")
    /\ Becomes("server", "released")
    /\ Heard("server")
    /\ UNCHANGED <<tracked, metered, chain, session, time>>

-------------------------------------------------------------------------------
(* Reconciliation                                                             *)

\* _attempt_auto_resolution, of two chains of [seq, cost].
CostAt(c, n) == IF \E i \in DOMAIN c : c[i].seq = n
                THEN c[CHOOSE i \in DOMAIN c : c[i].seq = n].cost ELSE 0
Seqs(c) == {c[i].seq : i \in DOMAIN c}
LastCost(c) == IF c = << >> THEN 0 ELSE Last(c).cost
LastSeq(c) == Max(Seqs(c) \cup {0})

AutoResolution(local, peer) ==
    LET seqs == Seqs(local) \cup Seqs(peer)
        disputed == {n \in seqs : CostAt(local, n) # CostAt(peer, n)}
        latest == Max(seqs \cup {0})
        owner == IF LastSeq(local) >= LastSeq(peer) THEN local ELSE peer
        a == LastCost(local)
        b == LastCost(peer)
    IN  CASE disputed = {}       -> [method |-> "agreed", cost |-> a]
          [] disputed = {latest} -> [method |-> "higher_seq", cost |-> CostAt(owner, latest)]
          [] OTHER -> IF AbsDiff(a, b) <= Tolerance(Max({a, b}))
                      THEN [method |-> "average", cost |-> (a + b) \div 2]
                      ELSE [method |-> "failed", cost |-> 0]

Resolved(s, method, cost) ==
    IF method = "failed" THEN [s EXCEPT !.state = "failed"]
    ELSE [s EXCEPT !.state = "resolved", !.method = method, !.agreed = cost]
Expired(s) == time - s.created >= GracePeriod

\* A session that was used once, also in vain, accepts no other request.
CreateReconciliationRequest ==
    /\ ~ In("agent", {"unknown"})
    /\ session["agent"].state \in {"none", "idle"}
    /\ Room("agent")
    /\ LET s == IF session["agent"] = NoSession THEN NewSession ELSE session["agent"]
       IN  session' = [session EXCEPT !["agent"] = [s EXCEPT !.state = "requested"]]
    /\ Says("agent", [kind |-> "reconcile", chain |-> << >>])
    /\ UNCHANGED <<resource, tracked, metered, chain, time>>

ProcessReconciliationRequest ==
    /\ Hears("server", "reconcile")
    /\ LET outcome == AutoResolution(chain, HeadOf("server").chain)
       IN  /\ session' = [session EXCEPT !["server"] = Resolved(NewSession, outcome.method, outcome.cost)]
           /\ HeardAndSays("server", [kind |-> "reconciled", method |-> outcome.method, cost |-> outcome.cost])
    /\ UNCHANGED <<resource, tracked, metered, chain, time>>

ProcessReconciliationResponse ==
    /\ Hears("agent", "reconciled")
    /\ session["agent"].state = "requested"
    /\ session' = [session EXCEPT !["agent"] =
           IF Expired(@) THEN @ ELSE Resolved(@, HeadOf("agent").method, HeadOf("agent").cost)]
    /\ Heard("agent")
    /\ UNCHANGED <<resource, tracked, metered, chain, time>>

MTick == time < MaxTime /\ time' = time + 1 /\ UNCHANGED <<resource, tracked, metered, chain, session, line>>

MNext ==
    \/ CreateResourceRequest
    \/ ProcessResourceRequest
    \/ DenyResourceRequest
    \/ ProcessResourceGrant
    \/ ProcessResourceDeny
    \/ \E n \in UsageSizes : RecordUsage(n)
    \/ GenerateMeterReport
    \/ \E u \in LocalUsages : RecordLocalUsage(u)
    \/ ProcessMeterReport
    \/ RefuseMeterReport
    \/ ProcessMeterAck
    \/ SuspendResource
    \/ \E e \in Holders : ProcessResourceSuspend(e)
    \/ CreateResourceRelease
    \/ ProcessResourceRelease
    \/ CreateReconciliationRequest
    \/ ProcessReconciliationRequest
    \/ ProcessReconciliationResponse
    \/ MTick

MSpec == MInit /\ [][MNext]_mvars

-------------------------------------------------------------------------------
\* Every unit the server recorded is in one receipt or still in the meter.
ReceiptsCoverUsage ==
    FoldLeft(LAMBDA n, r : n + r.units, 0, chain) + metered = resource["server"].units

\* The agent never believes more than the server recorded, and the server
\* never takes for acknowledged what the agent has not seen.
ReportsTrail ==
    LET a == resource["agent"] s == resource["server"]
    IN  a.units <= s.units /\ a.cost <= s.cost /\ a.seq <= s.seq /\ s.acked <= a.seq

\* A reconciliation that ends on both sides ends with the same result.
ResolvedAlike ==
    session["agent"].state \in {"resolved", "failed"} =>
        /\ session["server"].state = session["agent"].state
        /\ session["server"].agreed = session["agent"].agreed

\* The books of the two ends of a metered resource never contradict each other,
\* whatever crosses on the line: suspensions of both ends, a release, reports,
\* late answers to a reconciliation.
BooksAgree == ReceiptsCoverUsage /\ ReportsTrail /\ ResolvedAlike
===============================================================================
