------------------------------- MODULE Users --------------------------------
(***************************************************************************)
(* The users table and the endpoints of the api-gateway that read and      *)
(* write it: login and /me (api/auth.py), the admin's list, creation and   *)
(* deactivation (api/admin.py), over services/user_service.py, and the     *)
(* dependency every protected path goes through (core/dependencies.py).    *)
(*                                                                         *)
(* A request is sent, reads or writes the table in a transaction, and is   *)
(* answered; all three happen at different moments.  Which answer the      *)
(* browser makes what of is the business of Accounts.  Passwords and       *)
(* signatures are right or wrong.  An access token names its user; its     *)
(* expiry lies at any moment.                                              *)
(***************************************************************************)
EXTENDS Integers, Sequences, FiniteSets

CONSTANTS Emails,     \* what may be typed: records [address, form], form "lower" or not
          Ids,        \* ids the database hands out, in this order: 1..n
          FirstAdmin, \* the address the first row was created with
          Faults      \* any of "net", "db", "expiry"

ASSUME UsersAssumption ==
  /\ Emails \subseteq [address : STRING, form : STRING]
  /\ \A e \in Emails : [e EXCEPT !.form = "lower"] \in Emails
  /\ Ids \subseteq Nat \ {0} /\ 1 \in Ids
  /\ [address |-> FirstAdmin, form |-> "lower"] \in Emails

NoId == 0
Keys == {"", "right", "wrong"} \* X-API-Key against settings.admin_api_key
-----------------------------------------------------------------------------
VARIABLES
  users,   \* committed rows, by id
  login,   \* requests of the browser in flight: POST /login,
  fetches, \*   GET /me, oldest first,
  listing, \*   GET /admin/users,
  write    \*   POST or DELETE /admin/users

userVars == <<users, login, fetches, listing, write>>

Quiet == [st |-> "none"]
User(email, role) == [email |-> email, role |-> role, active |-> TRUE]

RowType == [email : Emails, role : {"user", "admin"}, active : BOOLEAN]

LoginType == [st : {"sent", "done"}, email : Emails, right : BOOLEAN,
              token : Ids \cup {NoId}, wasBlocked : BOOLEAN]
FetchType == [st : {"sent", "ok", "bad"}, token : Ids,
              then : {"redirect", "guard", "stay"}, wasBlocked : BOOLEAN]
WriteType == [st : {"sent", "flushed", "ok", "bad"}, op : {"create", "deactivate"},
              email : Emails, role : {"user", "admin"}, id : Ids \cup {NoId},
              key : Keys, heard : BOOLEAN]

UsersTypeOK ==
  /\ DOMAIN users \subseteq Ids /\ \A i \in DOMAIN users : users[i] \in RowType
  /\ login = Quiet \/ login \in LoginType
  /\ fetches \in Seq(FetchType)
  /\ listing.st \in {"none", "sent", "ok", "bad"}
  /\ write = Quiet \/ write \in WriteType

UsersInit ==
  /\ users = [i \in {1} |-> User([address |-> FirstAdmin, form |-> "lower"], "admin")]
  /\ login = Quiet /\ fetches = << >> /\ listing = Quiet /\ write = Quiet

IsBlocked(i) == i \in DOMAIN users /\ ~users[i].active
-----------------------------------------------------------------------------
\* Mutants: an address stored as it was typed; a token that is taken at its word; a commit
\* left to get_db, which runs it after the answer.
Mutant_Lower(e) == e
Mutant_Admits(i) == i \in DOMAIN users
Mutant_CommitFails ==
  /\ "db" \in Faults /\ write.st = "flushed"
  /\ write' = [write EXCEPT !.st = "ok"]
  /\ UNCHANGED <<users, login, fetches, listing>>

\* email.lower().strip(), before every comparison and every insert.
Lower(e) == [e EXCEPT !.form = "lower"]

WithEmail(e) == {i \in DOMAIN users : users[i].email = Lower(e)}

\* The id of a new row is drawn before the flush.
Drawn == DOMAIN users \cup (IF write.st = "flushed" THEN {write.id} ELSE {})
HasRoom == Ids \ Drawn # {}
NextId == CHOOSE i \in Ids \ Drawn : \A j \in Ids \ Drawn : i <= j

\* get_current_user after the token was decoded: the row is read again for every request.
Admits(i) == i \in DOMAIN users /\ users[i].active

\* get_by_email, verify_password, is_active.  A flush that is not committed is not seen.
LoginReads ==
  /\ login.st = "sent"
  /\ LET known == {i \in WithEmail(login.email) : login.right /\ users[i].active}
     IN login' = [login EXCEPT !.st = "done",
                               !.token = IF known = {} THEN NoId ELSE CHOOSE i \in known : TRUE]
  /\ UNCHANGED <<users, fetches, listing, write>>

\* GET /me, or any other path that depends on get_current_user.
FetchReads(k) ==
  /\ fetches[k].st = "sent"
  /\ \E expired \in {FALSE} \cup {"expiry" \in Faults} :
       fetches' = [fetches EXCEPT ![k].st =
                     IF ~expired /\ Admits(fetches[k].token) THEN "ok" ELSE "bad"]
  /\ UNCHANGED <<users, login, listing, write>>

ListReads ==
  /\ listing.st = "sent"
  /\ listing' = IF listing.key # "right" THEN [st |-> "bad"]
                ELSE [st |-> "ok", rows |-> [i \in DOMAIN users |-> users[i].active]]
  /\ UNCHANGED <<users, login, fetches, write>>
-----------------------------------------------------------------------------
\* A write is refused for its key, or for an address that is taken (IntegrityError, 409).
WriteRefused ==
  /\ write.st = "sent"
  /\ \/ write.key # "right"
     \/ write.op = "create" /\ WithEmail(write.email) # {}
  /\ write' = [write EXCEPT !.st = "bad"]
  /\ UNCHANGED <<users, login, fetches, listing>>

\* The flush: from here on other transactions wait for the address or the row.
WriteFlushes ==
  /\ write.st = "sent" /\ write.key = "right"
  /\ write.op = "create" => HasRoom /\ WithEmail(write.email) = {}
  /\ write' = [write EXCEPT !.st = "flushed", !.id = IF write.op = "create" THEN NextId ELSE @]
  /\ UNCHANGED <<users, login, fetches, listing>>

Insert(new, e, role) ==
  users' = [i \in DOMAIN users \cup {new} |-> IF i = new THEN User(Lower(e), role) ELSE users[i]]

Deactivate(i) == users' = [users EXCEPT ![i].active = FALSE]

WriteCommits ==
  /\ write.st = "flushed"
  /\ IF write.op = "create"
     THEN Insert(write.id, write.email, write.role)
     ELSE Deactivate(write.id)
  /\ write' = [write EXCEPT !.st = "ok"]
  /\ UNCHANGED <<login, fetches, listing>>

\* The rollback of a transaction whose flush or commit failed.
CommitFails ==
  /\ "db" \in Faults /\ write.st = "flushed"
  /\ write' = [write EXCEPT !.st = "bad"]
  /\ UNCHANGED <<users, login, fetches, listing>>

\* The same endpoints called by others, each in one step; they wait for what is flushed.
CreateElsewhere(e) ==
  /\ HasRoom /\ WithEmail(e) = {}
  /\ write.st = "flushed" /\ write.op = "create" => Lower(write.email) # Lower(e)
  /\ Insert(NextId, e, "user")
  /\ UNCHANGED <<login, fetches, listing, write>>

DeactivateElsewhere(i) ==
  /\ i \in DOMAIN users /\ users[i].active
  /\ ~(write.st = "flushed" /\ write.op = "deactivate" /\ write.id = i)
  /\ Deactivate(i)
  /\ UNCHANGED <<login, fetches, listing, write>>

UsersNext ==
  \/ LoginReads \/ ListReads
  \/ \E k \in DOMAIN fetches : FetchReads(k)
  \/ WriteRefused \/ WriteFlushes \/ WriteCommits \/ CommitFails
  \/ \E e \in Emails : CreateElsewhere(e)
  \/ \E i \in DOMAIN users : DeactivateElsewhere(i)
=============================================================================
