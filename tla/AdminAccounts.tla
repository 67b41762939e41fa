---------------------------- MODULE AdminAccounts ----------------------------
(***************************************************************************)
(* The administrators of the manager (opt/ffn_manager.py): their accounts, *)
(* their sessions, and the requests that change accounts.                  *)
(*                                                                         *)
(* A request reads the database, waits, and writes; requests interleave at *)
(* those waits.  A session is the user its token names and whether it was  *)
(* issued for a password change only.  Passwords are left out; the keys    *)
(* that sign the tokens are in SigningKeys.                                *)
(***************************************************************************)
EXTENDS Naturals, FiniteSets

CONSTANTS
  Account,
  Handler           \* requests in progress at a time

VARIABLES accounts,        \* role of each account; "none" when there is none
          forced,          \* accounts that must change their password
          sessions,
          handler          \* per handler: what it is about to write
accountVars == <<accounts, forced, sessions, handler>>

NoRequest == [op |-> "idle", target |-> "none", seen |-> {}]
Admins == {a \in Account : accounts[a] = "admin"}

AccountsInit ==
  /\ accounts \in [Account -> {"admin", "none"}] /\ Cardinality(Admins) = 1 /\ forced = Admins
  /\ sessions = {} /\ handler = [h \in Handler |-> NoRequest]

Login(a) ==
  /\ accounts[a] # "none" /\ sessions' = sessions \cup {[user |-> a, pwc |-> a \in forced]}
  /\ UNCHANGED <<accounts, forced, handler>>
Expires(s) == sessions' = sessions \ {s} /\ UNCHANGED <<accounts, forced, handler>>

\* _authenticate_token looks the account up on every request.
Accepted(s) == s \in sessions /\ accounts[s.user] # "none"
FullAccess(s) == Accepted(s) /\ ~s.pwc /\ s.user \notin forced
Manages(s) == FullAccess(s) /\ accounts[s.user] = "admin"

ChangePassword(s) ==
  /\ Accepted(s) /\ forced' = forced \ {s.user}
  /\ sessions' = sessions \cup {[user |-> s.user, pwc |-> FALSE]}
  /\ UNCHANGED <<accounts, handler>>

CreateUser(s, a, role, must) ==
  /\ Manages(s) /\ accounts[a] = "none" /\ accounts' = [accounts EXCEPT ![a] = role]
  /\ forced' = IF must THEN forced \cup {a} ELSE forced \ {a}
  /\ UNCHANGED <<sessions, handler>>

\* update_user and delete_user up to the check that an administrator is left.
BeginUnless(last, h, s, a, op) ==
  /\ handler[h] = NoRequest /\ Manages(s) /\ accounts[a] # "none"
  /\ op = "delete" => a # s.user
  /\ op \in {"delete", "demote"} /\ a \in Admins => ~last
  /\ handler' = [handler EXCEPT ![h] = [op |-> op, target |-> a, seen |-> Admins]]
  /\ UNCHANGED <<accounts, forced, sessions>>
BeginUnchecked(h, s, a, op) == BeginUnless(FALSE, h, s, a, op)
BeginChange(h, s, a, op) == BeginUnless(Cardinality(Admins) <= 1, h, s, a, op)

\* The UPDATE or DELETE; on a row that is gone it does nothing.
WriteChange(h) ==
  LET q == handler[h]
      role == CASE q.op = "delete" -> "none" [] q.op = "demote" -> "operator" [] OTHER -> "admin"
      there == accounts[q.target] # "none"
  IN /\ q # NoRequest /\ handler' = [handler EXCEPT ![h] = NoRequest]
     /\ accounts' = IF there /\ q.op # "force" THEN [accounts EXCEPT ![q.target] = role] ELSE accounts
     /\ forced' = IF there /\ q.op = "force" THEN forced \cup {q.target} ELSE forced
     /\ UNCHANGED sessions

AccountsNext ==
  \/ \E a \in Account : Login(a)
  \/ \E s \in sessions : Expires(s) \/ ChangePassword(s)
  \/ \E s \in sessions, a \in Account, role \in {"admin", "operator"}, must \in BOOLEAN : CreateUser(s, a, role, must)
  \/ \E h \in Handler, s \in sessions, a \in Account, op \in {"delete", "demote", "promote", "force"} : BeginChange(h, s, a, op)
  \/ \E h \in Handler : WriteChange(h)

AccountsSpec == AccountsInit /\ [][AccountsNext]_accountVars

(* ------------------------------ properties ------------------------------ *)

\* A request takes the last administrator away only if the administrators
\* changed between its check and its write: no request does it alone, however
\* long it waits in between.
LastAdminStays ==
  [][Admins # {} /\ Admins' = {} =>
       \E h \in Handler : handler[h] # NoRequest /\ handler'[h] = NoRequest /\ handler[h].seen # Admins]_accountVars
=============================================================================
