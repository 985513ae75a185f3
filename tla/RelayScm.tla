------------------------------ MODULE RelayScm ------------------------------
(***************************************************************************)
(* Session capability MACs of the relay: EpochKeyRing, validate_scm and    *)
(* the epoch loop of scripts/qasp_server.py, for the SCM of one direction  *)
(* of one session.  An HMAC is modelled by what it is computed from: it    *)
(* verifies exactly when the key and the epoch are the ones of the check.  *)
(*                                                                         *)
(* wall is both time.time() and time.monotonic(): the wall clock is taken  *)
(* to run without adjustments.  It starts anywhere within an epoch, since  *)
(* the epoch loop counts from the start of the server and current_epoch    *)
(* from the Unix epoch.                                                    *)
(***************************************************************************)
EXTENDS Integers

CONSTANTS
  EPOCH_INTERVAL_SEC,
  GRACE_WINDOW_SEC,
  MaxLateness,  \* bound: how late the event loop wakes the epoch loop
  MaxScmTime,   \* bound: seconds of a behaviour
  NoScm

ASSUME ScmAssumption ==
  /\ EPOCH_INTERVAL_SEC \in Nat \ {0}
  /\ GRACE_WINDOW_SEC \in Nat
  /\ MaxLateness \in Nat
  /\ MaxScmTime \in Nat

VARIABLES
  wall,
  wake,          \* when the sleep of the epoch loop ends
  current_key,   \* keys are numbered in the order they are drawn
  previous_key,  \* 0 for None
  rotated_at,
  pending,       \* the SCM of a session that waits for its target
  installed,     \* session.scm_a of the ACTIVE session
  held           \* the SCM the initiator was granted

scmvars == <<wall, wake, current_key, previous_key, rotated_at, pending,
             installed, held>>

current_epoch == wall \div EPOCH_INTERVAL_SEC

\* issued is a history variable: when the MAC was computed.
Scm(key, epoch) == [key |-> key, epoch |-> epoch, issued |-> wall]

ScmInit ==
  /\ wall \in 0..(EPOCH_INTERVAL_SEC - 1)
  /\ wake = wall + EPOCH_INTERVAL_SEC
  /\ current_key = 1
  /\ previous_key = 0
  /\ rotated_at = wall
  /\ pending = NoScm
  /\ installed = NoScm
  /\ held = NoScm

ScmTick ==
  /\ wall < MaxScmTime
  /\ wall < wake + MaxLateness
  /\ wall' = wall + 1
  /\ UNCHANGED <<wake, current_key, previous_key, rotated_at, pending,
                 installed, held>>

HandleSessionRequest ==
  /\ pending = NoScm
  /\ installed = NoScm
  /\ pending' = Scm(current_key, current_epoch)
  /\ UNCHANGED <<wall, wake, current_key, previous_key, rotated_at, installed,
                 held>>

\* The grant carries the SCM derived at the request.
HandleAccept ==
  /\ pending # NoScm
  /\ pending' = NoScm
  /\ installed' = pending
  /\ held' = pending
  /\ UNCHANGED <<wall, wake, current_key, previous_key, rotated_at>>

HandleClose ==
  /\ installed # NoScm
  /\ installed' = NoScm
  /\ held' = NoScm
  /\ UNCHANGED <<wall, wake, current_key, previous_key, rotated_at, pending>>

\* rotate_epoch derives new SCMs for the sessions in _sessions, not for those
\* that wait for their target; nothing is sent to the parties.
RotateEpoch ==
  /\ wall >= wake
  /\ wake' = wall + EPOCH_INTERVAL_SEC
  /\ previous_key' = current_key
  /\ current_key' = current_key + 1
  /\ rotated_at' = wall
  /\ installed' = IF installed = NoScm
                    THEN NoScm ELSE Scm(current_key + 1, current_epoch)
  /\ UNCHANGED <<wall, pending, held>>

ScmNext == ScmTick \/ HandleSessionRequest \/ HandleAccept \/ HandleClose \/ RotateEpoch

ScmSpec == ScmInit /\ [][ScmNext]_scmvars

-----------------------------------------------------------------------------
\* Mutant: the previous key counts until the next rotation.
NoGraceLimit == previous_key # 0

InGrace == previous_key # 0 /\ wall - rotated_at <= GRACE_WINDOW_SEC

validate_scm(c) ==
  \/ c.key = current_key /\ c.epoch = current_epoch
  \/ InGrace /\ c.key = previous_key /\ c.epoch = current_epoch - 1

\* An SCM that leaked is of use for one epoch and the grace window at most,
\* whatever the phase of the rotations against the epochs of the wall clock.
AcceptedScmIsRecent ==
  held # NoScm /\ validate_scm(held) =>
    wall - held.issued <= EPOCH_INTERVAL_SEC + MaxLateness + GRACE_WINDOW_SEC

=============================================================================
