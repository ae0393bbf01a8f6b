------------------------------ MODULE Accounts ------------------------------
(***************************************************************************)
(* Who gets in and who is put out: the login callback, sessions and the    *)
(* bootstrap administrator (internal/control/auth.go, bootstrap.go,        *)
(* userstore.go, sessionstore.go), the seats and the expiry of the license *)
(* (license.go), and the Reconciler that disables who has left the company *)
(* directory (reconciler.go).                                              *)
(*                                                                         *)
(* A login reads the directory, the users, the seats and the               *)
(* administrators one after the other and then writes; logins interleave   *)
(* with each other and with the reconciler's statements, any of which may  *)
(* fail, or the process may crash (MaxFaults). People join the company and *)
(* leave it for good: the identity provider refuses them at once, but the  *)
(* directory the reconciler reads (ldapidentity.go) may list them on. Some *)
(* have an account with the identity provider only.                        *)
(*                                                                         *)
(* Abstracted: a person is his OIDC subject and his row in users; login    *)
(* states, PKCE and session tokens do what they should, so a replayed or   *)
(* forged callback is refused and leaves no trace; administrators are made *)
(* by the bootstrap alone (module Access has the grants); a person has one *)
(* key at most. Left out: the expiry of sessions, and profiles.            *)
(***************************************************************************)
EXTENDS Integers, FiniteSets, Sequences

CONSTANTS
  People,     \* OIDC subjects
  Bootstrap,  \* whom AIRLOCK_BOOTSTRAP_ADMIN names, by subject or verified email
  Starts,     \* the states of the tables from which a behaviour starts
  Seats,      \* of the license
  Calls,      \* calls and events from outside, numbered as they come
  MaxFaults,  \* failures and crashes
  None

ASSUME AccountsAssumption ==
  /\ {Seats, Calls, MaxFaults} \subseteq Nat
  /\ IsFiniteSet(People) /\ Bootstrap \subseteq People /\ None \notin People

\* Who has an account has been in the company.
ASSUME StartsAssumption ==
  \A s \in Starts :
    /\ s.directory \in [People -> {"none", "enabled", "local", "disabled", "deleted"}]
    /\ s.user \in [People -> {"none", "active", "disabled"}]
    /\ s.admins \subseteq People
    /\ \A p \in People : s.user[p] # "none" => s.directory[p] # "none"

VARIABLES
  directory,  \* of a person: "none", "enabled", "local", "disabled", "deleted"
  user,       \* of a person: "none", "active", "disabled"
  admins,     \* who holds platform_admin everywhere
  session,    \* sessions: of a person, made by a call
  key,        \* the row of a person's key in api_keys: see module Gateway
  expired,    \* the license has run out
  call,       \* where a call stands: see NoCall
  round,      \* where ReconcileOnce stands: see Resting
  faults,
  forgotten   \* history: disabled, and no round will revoke his key: see Abandoned, MarkActive

accounts == <<user, admins, session, key>>
accountVars == <<directory, accounts, expired, call, round, faults, forgotten>>

Ids == 1..Calls

\* calm: no other call has written users or grants since this one counted.
NoCall == [at |-> "idle", op |-> "none", who |-> None, calm |-> TRUE, gen |-> 0, asked |-> 0]
Over == [NoCall EXCEPT !.at = "done"]

\* new: whose account was made since the round began.
Resting == [at |-> "wait", remote |-> {}, todo |-> {}, new |-> {}]

Active == {p \in People : user[p] = "active"}
ActiveAdmins == admins \cap Active
\* Whom the identity provider lets in, and whom ActiveExternalIDs returns: every entry.
Welcome == {p \in People : directory[p] \in {"enabled", "local"}}
Listed == {p \in People : directory[p] \in {"enabled", "disabled"}}

AccountsInit ==
  /\ \E s \in Starts : directory = s.directory /\ user = s.user /\ admins = s.admins /\ session = s.session /\ key = s.key
  /\ expired = FALSE /\ forgotten = {} /\ faults = 0
  /\ call = [i \in Ids |-> NoCall] /\ round = Resting

Fault(yes) == (yes => faults < MaxFaults) /\ faults' = IF yes THEN faults + 1 ELSE faults

Unused(i) == call[i].at = "idle" /\ \A j \in 1..(i - 1) : call[j].at # "idle"
At(i, op, s) == call[i].op = op /\ call[i].at = s
Goes(i, s) == call' = [call EXCEPT ![i].at = s]
Ends(i) == call' = [call EXCEPT ![i] = Over]

\* What call i has written overtakes the counts of the others.
Overtakes(i, next) ==
  call' = [j \in Ids |-> IF j = i THEN next ELSE IF call[j].op = "login" THEN [call[j] EXCEPT !.calm = FALSE] ELSE call[j]]

-----------------------------------------------------------------------------
(* HandleLogin and HandleCallback.                                          *)

\* HandleLogin, and Take and Exchange of the callback: whoever is welcome is let through.
Exchange(i, p) ==
  /\ Unused(i) /\ p \in Welcome
  /\ call' = [call EXCEPT ![i] = [NoCall EXCEPT !.at = "known", !.op = "login", !.who = p]]
  /\ UNCHANGED <<directory, accounts, expired, round, faults, forgotten>>

\* A disabled user is refused; a new one needs a seat.
ByExternalID(i) ==
  /\ At(i, "login", "known")
  /\ CASE user[call[i].who] = "active" -> Goes(i, "admitted")
       [] user[call[i].who] = "none" -> Goes(i, "new")
       [] OTHER -> Ends(i)
  /\ UNCHANGED <<directory, accounts, expired, round, faults, forgotten>>

\* Mutant: the seat that is about to be taken is not counted.
AdmitNewUserOneMore(i) ==
  /\ At(i, "login", "new")
  /\ IF ~expired /\ Cardinality(Active) <= Seats
     THEN call' = [call EXCEPT ![i].at = "admitted", ![i].calm = TRUE]
     ELSE Ends(i)
  /\ UNCHANGED <<directory, accounts, expired, round, faults, forgotten>>

AdmitNewUser(i) ==
  /\ At(i, "login", "new")
  /\ IF ~expired /\ Cardinality(Active) < Seats
     THEN call' = [call EXCEPT ![i].at = "admitted", ![i].calm = TRUE]
     ELSE Ends(i)
  /\ UNCHANGED <<directory, accounts, expired, round, faults, forgotten>>

\* A user who has a row keeps his status.
Upsert(i) ==
  /\ At(i, "login", "admitted")
  /\ LET p == call[i].who IN
     IF user[p] = "none"
     THEN /\ user' = [user EXCEPT ![p] = "active"]
          /\ Overtakes(i, [call[i] EXCEPT !.at = "stored"])
          /\ round' = IF round.at = "wait" THEN round ELSE [round EXCEPT !.new = @ \cup {p}]
     ELSE Goes(i, "stored") /\ UNCHANGED <<user, round>>
  /\ UNCHANGED <<directory, admins, session, key, expired, faults, forgotten>>

\* Grants of disabled users do not count. A failure here or in the next step is logged.
CountGlobalGrants(i) ==
  /\ At(i, "login", "stored")
  /\ \E failed \in BOOLEAN :
       /\ Fault(failed)
       /\ call' = [call EXCEPT ![i].at = IF ~failed /\ ActiveAdmins = {} /\ call[i].who \in Bootstrap THEN "counted" ELSE "entering",
                               ![i].calm = TRUE]
  /\ UNCHANGED <<directory, accounts, expired, round, forgotten>>

GrantBootstrapAdmin(i) ==
  /\ At(i, "login", "counted")
  /\ \E failed \in BOOLEAN :
       /\ Fault(failed)
       /\ admins' = IF failed THEN admins ELSE admins \cup {call[i].who}
  /\ Overtakes(i, [call[i] EXCEPT !.at = "entering"])
  /\ UNCHANGED <<directory, user, session, key, expired, round, forgotten>>

CreateSession(i) ==
  /\ At(i, "login", "entering")
  /\ session' = session \cup {<<i, call[i].who>>}
  /\ Ends(i)
  /\ UNCHANGED <<directory, user, admins, key, expired, round, faults, forgotten>>

\* A statement that fails ends the login.
LoginFails(i) ==
  /\ call[i].op = "login" /\ Fault(TRUE)
  /\ Ends(i)
  /\ UNCHANGED <<directory, accounts, expired, round, forgotten>>

\* Who comes through RequireSession: the session is there and its user active.
RequireSession(s) == s \in session /\ s[2] \in Active

HandleLogout(i, s) ==
  /\ Unused(i) /\ s \in session
  /\ session' = session \ {s}
  /\ Ends(i)
  /\ UNCHANGED <<directory, user, admins, key, expired, round, faults, forgotten>>

-----------------------------------------------------------------------------
(* ReconcileOnce.                                                           *)

\* ActiveExternalIDs: nobody at all is a failure.
FetchRemote ==
  /\ round.at = "wait" /\ Listed # {}
  /\ round' = [Resting EXCEPT !.at = "fetched", !.remote = Listed]
  /\ UNCHANGED <<directory, accounts, expired, call, faults, forgotten>>

\* Mutant: who is no longer in the directory is passed over.
ToDisableListed == {p \in Active : p \notin round.remote /\ p \in Listed}

ToDisable == {p \in Active : p \notin round.remote}

ListActive ==
  /\ round.at = "fetched"
  /\ round' = IF ToDisable = {} THEN Resting ELSE [round EXCEPT !.at = "listed", !.todo = ToDisable]
  /\ UNCHANGED <<directory, accounts, expired, call, faults, forgotten>>

MarkDisabled ==
  /\ round.at = "listed"
  /\ user' = [p \in People |-> IF p \in round.todo THEN "disabled" ELSE user[p]]
  /\ round' = [round EXCEPT !.at = "marked"]
  /\ UNCHANGED <<directory, admins, session, key, expired, call, faults, forgotten>>

\* Keys that are being issued are revoked as well.
RevokeByUsers ==
  /\ round.at = "marked"
  /\ key' = [p \in People |-> IF p \in round.todo /\ key[p].status \in {"active", "pending"}
                            THEN [key[p] EXCEPT !.status = "revoked"] ELSE key[p]]
  /\ round' = [round EXCEPT !.at = "revoked"]
  /\ UNCHANGED <<directory, user, admins, session, expired, call, faults, forgotten>>

\* DeleteByUser, of one after the other.
DeleteByUser ==
  /\ round.at = "revoked"
  /\ \E p \in round.todo :
       /\ session' = {s \in session : s[2] # p}
       /\ round' = IF round.todo = {p} THEN Resting ELSE [round EXCEPT !.todo = @ \ {p}]
  /\ UNCHANGED <<directory, user, admins, key, expired, call, faults, forgotten>>

\* Whose keys a round leaves that stops now.
Abandoned == IF round.at = "marked" THEN round.todo ELSE {}

\* An error ends the round; the next one lists active users only.
RoundFails ==
  /\ round.at # "wait" /\ Fault(TRUE)
  /\ round' = Resting
  /\ forgotten' = forgotten \cup Abandoned
  /\ UNCHANGED <<directory, accounts, expired, call>>

ReconcilerStep == FetchRemote \/ ListActive \/ MarkDisabled \/ RevokeByUsers \/ DeleteByUser

-----------------------------------------------------------------------------
(* What happens to it.                                                      *)

Joins(i, p) ==
  /\ Unused(i) /\ directory[p] = "none"
  /\ directory' = [directory EXCEPT ![p] = "enabled"]
  /\ Ends(i) /\ UNCHANGED <<accounts, expired, round, faults, forgotten>>

Leaves(i, p) ==
  /\ Unused(i) /\ directory[p] = "enabled"
  /\ \E s \in {"disabled", "deleted"} : directory' = [directory EXCEPT ![p] = s]
  /\ Ends(i) /\ UNCHANGED <<accounts, expired, round, faults, forgotten>>

Expire(i) ==
  /\ Unused(i) /\ ~expired
  /\ expired' = TRUE
  /\ Ends(i) /\ UNCHANGED <<directory, accounts, round, faults, forgotten>>

\* CheckBootstrapConfig: without an administrator, and nobody to become one, it does not start.
Starting == Bootstrap # {} \/ ActiveAdmins # {}

\* Told only when something is under way.
RestartControl ==
  /\ round # Resting \/ \E i \in Ids : call[i].at \notin {"idle", "done"}
  /\ Fault(TRUE) /\ Starting
  /\ call' = [i \in Ids |-> IF call[i].at = "idle" THEN NoCall ELSE Over]
  /\ round' = Resting
  /\ forgotten' = forgotten \cup Abandoned
  /\ UNCHANGED <<directory, accounts, expired>>

LoginStep(i) ==
  \/ \E p \in People : Exchange(i, p)
  \/ ByExternalID(i) \/ AdmitNewUser(i) \/ Upsert(i) \/ CountGlobalGrants(i)
  \/ GrantBootstrapAdmin(i) \/ CreateSession(i) \/ LoginFails(i)
  \/ \E s \in session : HandleLogout(i, s)

Event(i) == Expire(i) \/ \E p \in People : Joins(i, p) \/ Leaves(i, p)

AccountsNext ==
  \/ \E i \in Ids : LoginStep(i) \/ Event(i)
  \/ ReconcilerStep \/ RoundFails \/ RestartControl

-----------------------------------------------------------------------------
(* What the code promises.                                                  *)

\* An account is made only for a person without one, by a login, and beyond the seats only
\* when another login has written since this one counted. An administrator is made out of a
\* person who is named, and beside another only when overtaken likewise. An account is
\* disabled only if the directory does not list its person, or if it was made while the
\* round was reading.
AccountsChangeForAReason ==
  [][/\ \A p \in People : user'[p] # user[p] =>
          \/ /\ user[p] = "none" /\ user'[p] = "active"
             /\ \E i \in Ids : /\ At(i, "login", "admitted") /\ call[i].who = p
                               /\ call[i].calm => Cardinality(Active) < Seats
          \/ /\ user[p] = "active" /\ user'[p] = "disabled"
             /\ p \in Listed => p \in round.new
     /\ \A p \in admins' \ admins :
          \E i \in Ids : /\ At(i, "login", "counted") /\ call[i].who = p /\ p \in Bootstrap
                         /\ call[i].calm => ActiveAdmins = {}]_accountVars
=============================================================================
