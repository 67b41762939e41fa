----------------------------- MODULE SigningKeys -----------------------------
(***************************************************************************)
(* The keyring that signs administrators' sessions (opt/ffn_jwt_keys.py)   *)
(* and the manager that signs and verifies with it (opt/ffn_manager.py).   *)
(*                                                                         *)
(* Keys are rotated by other processes, a timer or an operator, that read  *)
(* the ring and replace the file some time later, without a lock; the      *)
(* manager works with the file as it is.  Key n is the n-th secret.        *)
(***************************************************************************)
EXTENDS Naturals, FiniteSets

CONSTANTS
  TokenLife,        \* JWT_EXPIRE_MINUTES
  Overlap,          \* RETIRE_MARGIN_MINUTES; a rotation is done within it
  Rotators,         \* bound: rotations in progress at a time
  MaxKey, MaxNow    \* bounds: secrets minted, time

ASSUME OverlapAssumption == TokenLife \in Nat /\ Overlap \in Nat \ {0}

VARIABLES ring, rotating, minted, revoked, tokens, now,
          raced            \* history: a rotation replaced a ring it had not read
keyVars == <<ring, rotating, minted, revoked, tokens, now, raced>>

KeysInit ==
  /\ ring = [current |-> 1, retired |-> {}] /\ rotating = {} /\ minted = 1 /\ revoked = {}
  /\ tokens = {} /\ now = 0 /\ raced = FALSE

\* verification_secrets: the current key and the retired ones still in time.
Verifies(key) == key = ring.current \/ \E k \in ring.retired : k.key = key /\ k.until > now

\* rotate, on the ring as it is read at this moment.
Rotated(margin, compromised) ==
  [current |-> minted + 1,
   retired |-> {k \in ring.retired : ~compromised /\ k.until > now} \cup
               IF compromised THEN {} ELSE {[key |-> ring.current, until |-> now + TokenLife + margin]}]
RotateWith(margin, compromised) ==
  /\ Cardinality(rotating) < Rotators /\ minted < MaxKey /\ minted' = minted + 1
  /\ rotating' = rotating \cup
       {[read |-> ring, ring |-> Rotated(margin, compromised), begun |-> now,
         drops |-> IF compromised THEN {ring.current} \cup {k.key : k \in ring.retired} ELSE {}]}
  /\ UNCHANGED <<ring, revoked, tokens, now, raced>>
RotateExactly(compromised) == RotateWith(0, compromised)
Rotate(compromised) == RotateWith(Overlap, compromised)

\* save: an atomic replacement, seen by the next load_cached.
SaveRing(r) ==
  /\ r \in rotating /\ rotating' = rotating \ {r}
  /\ ring' = r.ring /\ revoked' = revoked \cup r.drops /\ raced' = (raced \/ ring # r.read)
  /\ UNCHANGED <<minted, tokens, now>>

\* create_token, for a login or a password change.
Sign ==
  /\ tokens' = tokens \cup {[key |-> ring.current, issued |-> now]}
  /\ UNCHANGED <<ring, rotating, minted, revoked, now, raced>>

\* _authenticate_token: expiry, then every key that still verifies.
Alive(t) == now < t.issued + TokenLife

\* Time; a rotation in progress is done before the margin has passed.
KeysTime ==
  /\ now < MaxNow /\ \A r \in rotating : now + 1 < r.begun + Overlap
  /\ now' = now + 1 /\ tokens' = {t \in tokens : now' < t.issued + TokenLife}
  /\ UNCHANGED <<ring, rotating, minted, revoked, raced>>

KeysNext == (\E compromised \in BOOLEAN : Rotate(compromised)) \/ (\E r \in rotating : SaveRing(r)) \/ Sign \/ KeysTime

KeysSpec == KeysInit /\ [][KeysNext]_keyVars

(* ------------------------------ properties ------------------------------ *)

\* A rotation logs nobody out: a token that has not expired keeps verifying,
\* also one that was signed while the rotation was being written, unless a
\* rotation dropped its key as compromised or two rotations overlapped.
SessionsSurvive == ~raced => \A t \in tokens : Alive(t) /\ t.key \notin revoked => Verifies(t.key)

\* A key that was dropped as compromised never verifies again, however many
\* rotations follow, unless one of them had read the ring before.
RevokedIsDead == ~raced => \A key \in revoked : ~Verifies(key)

\* Tokens live and die with the keys that signed them, through rotations.
TokensFollowKeys == SessionsSurvive /\ RevokedIsDead
=============================================================================
