---------------------------------- MODULE Trust ----------------------------------
(* The trust registry with its two backends (src/src/qasp/trust/registry.py), *)
(* audit credentials (certification.py), the score of an agent (scoring.py),  *)
(* and the behavioural verifier (behavioral.py). Every operation of the       *)
(* registry is run against an in-memory and an SQLite backend. A score is a   *)
(* fraction: its numerator over a denominator that the number of interactions *)
(* fixes. A caller verifies a credential before it adds it (tests do).        *)
EXTENDS Integers, Sequences, FiniteSetsExt, Functions

CONSTANTS Agents,
          Requests,           \* arguments of create_audit_vc
          BehaviorReports,    \* arguments of update_behavioral_score, in tenths
          CapAt,              \* <<10, 50, 200>>: interactions at which the cap is .8, .9, 1
          FullConfidence,     \* 50: interactions for confidence 1
          WindowSize,         \* 100
          SeverePenalty,      \* 10
          MaxInteractions, MaxCredentials, MaxEvents, MaxDays

\* The id of a credential is its own; the caps of the score go up.
ASSUME TrustAssumption ==
    /\ \A r \in Requests : /\ {r.level, r.validFrom, r.validUntil} \subseteq Int
                            /\ r.sound \in BOOLEAN
                            /\ \A other \in Requests : other.id = r.id => other = r
    /\ BehaviorReports \subseteq Int
    /\ CapAt \in Seq(Nat) /\ Len(CapAt) > 0 /\ \A i \in DOMAIN CapAt : CapAt[1] <= CapAt[i]
    /\ {FullConfidence, WindowSize} \subseteq Nat

VARIABLES memory,      \* InMemoryRegistryBackend: _entries, _vcs
          database,    \* SQLiteRegistryBackend: trust_entries, audit_vcs
          today,       \* datetime.now
          events,      \* BehavioralVerifier: _events
          behaving,    \* its _current_state
          violations   \* its _violation_indices

trustvars == <<memory, database, today, events, behaving, violations>>

-------------------------------------------------------------------------------
(* Credentials                                                                *)

\* create_audit_vc, or {} where it raises. The proof is one the issuer's key
\* made, with the type and purpose verify_audit_vc asks for, or not.
CreateAuditVC(request) ==
    IF request.level \in 1 .. 3
    THEN {[id |-> request.id, about |-> request.about, level |-> request.level, sound |-> request.sound,
           validFrom |-> request.validFrom,
           validUntil |-> IF request.validUntil = 0 THEN request.validFrom + 365 ELSE request.validUntil]}
    ELSE {}
AuditVCs == UNION {CreateAuditVC(r) : r \in Requests}
IsExpired(vc) == today >= vc.validUntil
VerifyAuditVC(vc) == vc.sound /\ today >= vc.validFrom /\ ~ IsExpired(vc)

-------------------------------------------------------------------------------
(* Backends                                                                   *)

NewEntry == [alpha |-> 1, beta |-> 1, total |-> 0, vcs |-> << >>, behavior |-> 10, flags |-> {}]
Put(f, key, value) == [k \in {key} \cup DOMAIN f |-> IF k = key THEN value ELSE f[k]]
Without(f, key) == Restrict(f, DOMAIN f \ {key})

\* A row holds the ids of the credentials; a credential that is gone is left
\* out when the row is read.
SerializeEntry(entry) == [entry EXCEPT !.vcs = [i \in DOMAIN entry.vcs |-> entry.vcs[i].id]]
DeserializeEntry(row) ==
    LET read[i \in 0 .. Len(row.vcs)] ==
            IF i = 0 THEN << >>
            ELSE IF row.vcs[i] \in DOMAIN database.vcs THEN Append(read[i - 1], database.vcs[row.vcs[i]])
            ELSE read[i - 1]
    IN  [row EXCEPT !.vcs = read[Len(row.vcs)]]

TrInit ==
    /\ memory = [entries |-> << >>, vcs |-> << >>]
    /\ database = [rows |-> << >>, vcs |-> << >>]
    /\ today = 0
    /\ events = << >> /\ behaving = "IDLE" /\ violations = {}

-------------------------------------------------------------------------------
(* TrustRegistry; where an operation raises, the backends stay as they are.   *)

Register(did) ==
    /\ memory' = IF did \in DOMAIN memory.entries THEN memory
                 ELSE [memory EXCEPT !.entries = Put(@, did, NewEntry)]
    /\ database' = IF did \in DOMAIN database.rows THEN database
                   ELSE [database EXCEPT !.rows = Put(@, did, SerializeEntry(NewEntry))]
    /\ UNCHANGED <<today, events, behaving, violations>>

\* get, a changed copy of the entry, store_entry, in either backend; a
\* credential is stored first.
Kept(did) == memory.entries[did]
Stored(did) == DeserializeEntry(database.rows[did])
UpdateWith(did, kept, stored, memoryVcs, databaseVcs) ==
    /\ memory' = IF did \notin DOMAIN memory.entries THEN memory
                 ELSE [entries |-> Put(memory.entries, did, kept), vcs |-> memoryVcs]
    /\ database' = IF did \notin DOMAIN database.rows THEN database
                   ELSE [rows |-> Put(database.rows, did, SerializeEntry(stored)), vcs |-> databaseVcs]
    /\ UNCHANGED <<today, events, behaving, violations>>
UpdateEntry(did, kept, stored) == UpdateWith(did, kept, stored, memory.vcs, database.vcs)

Interactions == MapThenSumSet(LAMBDA did : memory.entries[did].total, DOMAIN memory.entries)
Counted(entry, success) == [entry EXCEPT !.alpha = @ + (IF success THEN 1 ELSE 0),
                                         !.beta = @ + (IF success THEN 0 ELSE 1),
                                         !.total = @ + 1]
UpdateReputation(did, success) ==
    /\ Interactions < MaxInteractions
    /\ UpdateEntry(did, Counted(Kept(did), success), Counted(Stored(did), success))

Credited(entry, vc) == [entry EXCEPT !.vcs = Append(@, vc)]
AddAuditVC(did, vc) ==
    /\ VerifyAuditVC(vc)
    /\ vc.about = did
    /\ did \in DOMAIN memory.entries => Len(memory.entries[did].vcs) < MaxCredentials
    /\ UpdateWith(did, Credited(Kept(did), vc), Credited(Stored(did), vc),
                  Put(memory.vcs, vc.id, vc), Put(database.vcs, vc.id, vc))

Flagged(entry, flags) == [entry EXCEPT !.flags = flags]
AddFlag(did) ==
    UpdateEntry(did, Flagged(Kept(did), Kept(did).flags \cup {"disputed"}),
                Flagged(Stored(did), Stored(did).flags \cup {"disputed"}))
RemoveFlag(did) ==
    UpdateEntry(did, Flagged(Kept(did), Kept(did).flags \ {"disputed"}),
                Flagged(Stored(did), Stored(did).flags \ {"disputed"}))

Clamp(score) == IF score > 10 THEN 10 ELSE IF score < 0 THEN 0 ELSE score
Behaving(entry, score) == [entry EXCEPT !.behavior = Clamp(score)]
UpdateBehavioralScore(did, score) ==
    UpdateEntry(did, Behaving(Kept(did), score), Behaving(Stored(did), score))

\* The credentials of the entry go, then the entry.
RemoveEntryOnly(did) ==
    /\ memory' = [entries |-> Without(memory.entries, did),
                  vcs |-> Restrict(memory.vcs, {id \in DOMAIN memory.vcs : memory.vcs[id].about # did})]
    /\ database' = [database EXCEPT !.rows = Without(@, did)]
    /\ UNCHANGED <<today, events, behaving, violations>>
IdsOf(vcs) == {vcs[i].id : i \in DOMAIN vcs}
RemoveAgent(did) ==
    /\ memory' = IF did \notin DOMAIN memory.entries THEN memory
                 ELSE [entries |-> Without(memory.entries, did),
                       vcs |-> Restrict(memory.vcs, DOMAIN memory.vcs \ IdsOf(memory.entries[did].vcs))]
    /\ database' = IF did \notin DOMAIN database.rows THEN database
                   ELSE [rows |-> Without(database.rows, did),
                         vcs |-> Restrict(database.vcs,
                                     DOMAIN database.vcs \ IdsOf(DeserializeEntry(database.rows[did]).vcs))]
    /\ UNCHANGED <<today, events, behaving, violations>>

Clear ==
    /\ memory' = [entries |-> << >>, vcs |-> << >>]
    /\ database' = [rows |-> << >>, vcs |-> << >>]
    /\ UNCHANGED <<today, events, behaving, violations>>

Lookup(did) == IF did \in DOMAIN database.rows THEN {DeserializeEntry(database.rows[did])} ELSE {}

-------------------------------------------------------------------------------
(* The score                                                                  *)

\* best_slsa_level, 0 for None: all that is not expired counts.
BestLevel(entry) ==
    Max({0} \cup {entry.vcs[i].level : i \in {j \in DOMAIN entry.vcs : ~ IsExpired(entry.vcs[j])}})

TrustCap(count) == 7 + Cardinality({i \in DOMAIN CapAt : count >= CapAt[i]})
Larger(x, y) == IF x < y THEN y ELSE x
Smaller(x, y) == IF x < y THEN x ELSE y

\* TrustScorer.calculate as the server calls it: no witnesses, the confidence
\* is the share of FullConfidence. All shares are over Whole.
Whole(entry) == 3000 * (entry.alpha + entry.beta)
Boost(entry) == IF 10 * entry.total < 3 * FullConfidence /\ BestLevel(entry) > 0
                THEN <<3, 5, 7>>[BestLevel(entry)] * (entry.alpha + entry.beta) ELSE 0
Raw(entry) == 105 * Larger(10 * entry.alpha, Boost(entry))
              + (200 * BestLevel(entry) + 60 * entry.behavior) * (entry.alpha + entry.beta)
Capped(entry) == Smaller(Raw(entry), (TrustCap(entry.total) * Whole(entry)) \div 10)
Confidence(entry) == Smaller(entry.total, FullConfidence)
Score(entry) == 2 * Confidence(entry) * Capped(entry) + (FullConfidence - Confidence(entry)) * Whole(entry)

-------------------------------------------------------------------------------
(* BehavioralVerifier                                                         *)

EventState == [REQUEST |-> "REQUESTING", RESPONSE |-> "RESPONDING", ERROR |-> "ERROR_HANDLING",
               TIMEOUT |-> "ERROR_HANDLING", RATE_LIMIT |-> "RATE_LIMITED", POLICY_VIOLATION |-> "SUSPENDED"]
Permitted ==
    [IDLE |-> {"REQUESTING", "ERROR_HANDLING", "SUSPENDED"},
     REQUESTING |-> {"PROCESSING", "RESPONDING", "ERROR_HANDLING", "RATE_LIMITED", "SUSPENDED"},
     PROCESSING |-> {"RESPONDING", "ERROR_HANDLING", "RATE_LIMITED", "SUSPENDED"},
     RESPONDING |-> {"IDLE", "REQUESTING", "ERROR_HANDLING", "SUSPENDED"},
     ERROR_HANDLING |-> {"IDLE", "REQUESTING", "SUSPENDED"},
     RATE_LIMITED |-> {"IDLE", "REQUESTING", "SUSPENDED"},
     SUSPENDED |-> {"IDLE"}]

RecordEvent(type) ==
    /\ Len(events) < MaxEvents
    /\ violations' = IF EventState[type] \in Permitted[behaving] THEN violations
                     ELSE violations \cup {Len(events) + 1}
    /\ behaving' = EventState[type]
    /\ events' = Append(events, type)
    /\ UNCHANGED <<memory, database, today>>

\* calculate_score: the weight of the violations in the window, out of that of
\* all its events.
Weight(i) == IF events[i] = "POLICY_VIOLATION" THEN SeverePenalty ELSE 1
WindowStart == Larger(0, Len(events) - WindowSize)
Window == (WindowStart + 1) .. Len(events)
ViolationsInWindow == {i \in Window : i \in violations \/ events[i] = "POLICY_VIOLATION"}
ViolationWeight == MapThenSumSet(Weight, ViolationsInWindow)

DayPasses == today < MaxDays /\ today' = today + 1 /\ UNCHANGED <<memory, database, events, behaving, violations>>

TrNext ==
    \/ \E did \in Agents : \/ Register(did) \/ RemoveAgent(did) \/ AddFlag(did) \/ RemoveFlag(did)
                           \/ \E success \in BOOLEAN : UpdateReputation(did, success)
                           \/ \E vc \in AuditVCs : AddAuditVC(did, vc)
                           \/ \E score \in BehaviorReports : UpdateBehavioralScore(did, score)
    \/ Clear
    \/ DayPasses

VNext == \E type \in DOMAIN EventState : RecordEvent(type)

TrSpec == TrInit /\ [][TrNext \/ VNext]_trustvars

-------------------------------------------------------------------------------
(* Properties                                                                 *)

\* Whatever the order of the operations, a registry answers lookup, lookup_vc,
\* all_entries and len the same over the SQLite backend as over the in-memory
\* one, though the former keeps ids of credentials in its rows and resolves
\* them at each read.
BackendsAgree ==
    /\ DOMAIN database.rows = DOMAIN memory.entries
    /\ \A did \in DOMAIN memory.entries : Lookup(did) = {memory.entries[did]}
    /\ database.vcs = memory.vcs

\* What an agent did decides its score: a failure in the place of a success
\* never scores higher, a newcomer cannot pass the cap, a level that counts is
\* of a credential that verifies today.
SwappedForFailure(entry) == [entry EXCEPT !.alpha = @ - 1, !.beta = @ + 1]
ScoreFollowsEvidence ==
    \A did \in DOMAIN memory.entries : LET entry == memory.entries[did] IN
        /\ entry.alpha > 1 => Score(entry) >= Score(SwappedForFailure(entry))
        /\ entry.total < CapAt[1] => 10 * Score(entry) <= (10 * FullConfidence + 4 * Confidence(entry)) * Whole(entry)
        /\ \A i \in DOMAIN entry.vcs : IsExpired(entry.vcs[i]) \/ VerifyAuditVC(entry.vcs[i])

\* calculate_score forgets what is outside its window and nothing in it: the
\* weight it counts is that of the last events whose own order was not
\* permitted, and of policy violations.
StateBefore(i) == IF i = 1 THEN "IDLE" ELSE EventState[events[i - 1]]
ConductIsWindowed ==
    ViolationWeight = MapThenSumSet(Weight,
        {i \in Window : EventState[events[i]] \notin Permitted[StateBefore(i)] \/ events[i] = "POLICY_VIOLATION"})

\* The standing of an agent rests on what it did, whichever backend keeps it.
StandingIsEarned == BackendsAgree /\ ScoreFollowsEvidence /\ ConductIsWindowed
===============================================================================
