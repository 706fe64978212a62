------------------------------ MODULE Accounts ------------------------------
(***************************************************************************)
(* Accounts, from the browser to the users table: the auth store           *)
(* (frontend stores/auth.ts), the navigation guard (router/index.ts), the  *)
(* login view and the admin view of one tab, over the endpoints of module  *)
(* Users.  The tab keeps its token and the admin key in localStorage.      *)
(*                                                                         *)
(* A call of the API goes on where it was awaited: fetchMe inside login()  *)
(* redirects afterwards, inside the guard of /admin it decides where to,   *)
(* in the chat view nothing else depends on it.                            *)
(***************************************************************************)
EXTENDS Users, SequencesExt

CONSTANTS MaxFetches, \* bound: GET /me in flight
          NewRoles    \* roles the admin view gives new users

ASSUME AccountsAssumption == MaxFetches \in Nat /\ NewRoles \subseteq {"user", "admin"}

NoToken == NoId
-----------------------------------------------------------------------------
VARIABLES
  view,     \* "login", "chat", "admin", or "blank" while a page loads
  token,    \* the user the stored token names, or NoToken
  user,     \* the profile shown: its id, or NoId
  adminKey, \* the admin key in the store
  dialog,   \* the key dialog is open
  shown,    \* the admin view's list: is_active by id
  crossed   \* history: the session ended while a GET /me was in flight

tabVars == <<view, token, user, adminKey, dialog, shown, crossed>>
vars == <<userVars, tabVars>>

Nobody == [i \in {} |-> TRUE] \* an empty list

TypeOK ==
  /\ UsersTypeOK
  /\ view \in {"login", "chat", "admin", "blank"}
  /\ token \in Ids \cup {NoToken} /\ user \in Ids \cup {NoId}
  /\ adminKey \in Keys /\ dialog \in BOOLEAN /\ crossed \in BOOLEAN
  /\ DOMAIN shown \subseteq Ids /\ \A i \in DOMAIN shown : shown[i] \in BOOLEAN
  /\ view # "admin" => ~dialog /\ DOMAIN shown = {}

Init ==
  /\ UsersInit
  /\ view = "login" /\ token = NoToken /\ user = NoId
  /\ adminKey = "" /\ dialog = FALSE /\ shown = Nobody /\ crossed = FALSE
-----------------------------------------------------------------------------
\* Mutant: a logout that keeps the profile.
Mutant_LogsOut(left) ==
  /\ token' = NoToken /\ UNCHANGED user
  /\ crossed' = (left # << >>)

\* logout(), with the fetches that are still in flight after it.
LogsOut(left) ==
  /\ token' = NoToken /\ user' = NoId
  /\ crossed' = (left # << >>)

\* isAdmin: the role in the profile, which nothing in the table changes.
IsAdmin(i) == i # NoId /\ users[i].role = "admin"

Fetch(t, then) ==
  [st |-> "sent", token |-> t, then |-> then, wasBlocked |-> IsBlocked(t)]

\* A later navigation cancels the one whose guard still waits.
NoLongerGuards(fs) ==
  [k \in DOMAIN fs |-> IF fs[k].then = "guard" THEN [fs[k] EXCEPT !.then = "stay"] ELSE fs[k]]

\* Leaving the admin view unmounts it: what it has asked for is answered to nobody.
Unmount ==
  /\ dialog' = FALSE /\ shown' = Nobody
  /\ listing' = Quiet
  /\ write' = IF write.st = "none" THEN write ELSE [write EXCEPT !.heard = FALSE]

Stays == UNCHANGED <<view, dialog, shown, listing, write>>

\* While a guard waits the tab shows what it did, or nothing on a page that loads.
Waits(here) == IF here = "blank" THEN view' = "blank" /\ Unmount ELSE Stays

\* loadUsers through withAdminKey: without a key the dialog opens in its place.
LoadUsers ==
  IF adminKey = "" THEN dialog' = TRUE /\ listing' = Quiet
  ELSE dialog' = FALSE /\ listing' = [st |-> "sent", key |-> adminKey]

\* What the guard makes of a wish to go from here to v, with token t, profile u and fetches
\* fs; the chat view fetches the profile when it is mounted.
Arrive(here, v, t, u, fs) ==
  \/ /\ v = "chat" /\ t # NoToken
     /\ view' = "chat" /\ Unmount
     /\ fetches' = IF u = NoId /\ here # "chat" THEN Append(fs, Fetch(t, "stay")) ELSE fs
  \/ /\ t = NoToken
     /\ view' = "login" /\ Unmount
     /\ fetches' = fs
  \/ /\ v = "admin" /\ t # NoToken /\ u = NoId \* fetchMe first
     /\ Waits(here)
     /\ fetches' = Append(fs, Fetch(t, "guard"))
  \/ /\ v = "admin" /\ t # NoToken /\ u # NoId /\ IsAdmin(u)
     /\ view' = "admin" /\ shown' = Nobody
     /\ LoadUsers
     /\ fetches' = fs /\ UNCHANGED write
  \/ /\ v = "admin" /\ t # NoToken /\ u # NoId /\ ~IsAdmin(u)
     /\ view' = "chat" /\ Unmount
     /\ fetches' = fs
-----------------------------------------------------------------------------
\* handleLogin and login(): the form is disabled until the redirect.
Submit(e, right) ==
  /\ view = "login" /\ login = Quiet
  /\ \A k \in DOMAIN fetches : fetches[k].then # "redirect"
  /\ login' = [st |-> "sent", email |-> e, right |-> right, token |-> NoId,
               wasBlocked |-> \E i \in WithEmail(e) : IsBlocked(i)]
  /\ UNCHANGED <<users, fetches, listing, write, tabVars>>

LoginAnswered ==
  /\ login.st = "done" /\ login.token # NoId
  /\ Len(fetches) < MaxFetches
  /\ login' = Quiet
  /\ token' = login.token
  /\ fetches' = Append(fetches, Fetch(login.token, "redirect"))
  /\ UNCHANGED <<users, listing, write, view, user, adminKey, dialog, shown, crossed>>

\* 401, or no answer at all: login() throws, the view shows the error.
LoginFails ==
  /\ \/ login.st = "done" /\ login.token = NoId
     \/ login # Quiet /\ "net" \in Faults
  /\ login' = Quiet
  /\ UNCHANGED <<users, fetches, listing, write, tabVars>>

\* fetchMe goes on: any failure logs out, whoever is logged in by now.
FetchEnds(k, ok) ==
  LET f == fetches[k]
      left == RemoveAt(fetches, k)
      t == IF ok THEN token ELSE NoToken
      u == IF ok THEN f.token ELSE NoId
  IN /\ IF ok THEN user' = u /\ UNCHANGED <<token, crossed>> ELSE LogsOut(left)
     /\ \/ f.then = "stay" /\ Stays /\ fetches' = left
        \/ f.then = "guard" /\ Arrive(view, IF IsAdmin(u) THEN "admin" ELSE "chat", t, u, left)
        \/ /\ f.then = "redirect" \* to ?redirect=, the chat by default
           /\ \E v \in {"chat", "admin"} : Arrive(view, v, t, u, left)
     /\ UNCHANGED <<users, login, adminKey>>

FetchAnswered(k) ==
  /\ fetches[k].st \in {"ok", "bad"}
  /\ FetchEnds(k, fetches[k].st = "ok")

FetchLost(k) == "net" \in Faults /\ FetchEnds(k, FALSE)

\* handleLogout, in the chat view; the admin key stays.
Logout ==
  /\ view = "chat"
  /\ LET left == NoLongerGuards(fetches)
     IN LogsOut(left) /\ fetches' = left
  /\ view' = "login"
  /\ UNCHANGED <<users, login, listing, write, adminKey, dialog, shown>>

GoTo(v) ==
  /\ view \in {"chat", "admin"} \ {v}
  /\ Len(fetches) < MaxFetches
  /\ Arrive(view, v, token, user, NoLongerGuards(fetches))
  /\ UNCHANGED <<users, login, token, user, adminKey, crossed>>

\* The page is loaded again: the store starts from localStorage, nothing is awaited any more.
Reload ==
  /\ view # "login" \/ fetches # << >>
  /\ user' = NoId /\ crossed' = FALSE
  /\ login' = Quiet
  /\ \E v \in {"chat", "admin"} : Arrive("blank", v, token, NoId, << >>)
  /\ UNCHANGED <<users, token, adminKey>>
-----------------------------------------------------------------------------
\* The key dialog: "Change key", submit, cancel, and a click outside of it.  Its pending
\* action is always loadUsers: nothing else is in reach before there is a key.
OpenChangeKey ==
  /\ view = "admin" /\ ~dialog
  /\ dialog' = TRUE
  /\ UNCHANGED <<userVars, view, token, user, adminKey, shown, crossed>>

\* The pending action runs without withAdminKey's handling of errors.
SubmitKey(key) ==
  /\ dialog
  /\ adminKey' = key /\ dialog' = FALSE
  /\ listing' = [st |-> "sent", key |-> key]
  /\ UNCHANGED <<users, login, fetches, write, view, token, user, shown, crossed>>

CancelKey ==
  /\ dialog
  /\ IF adminKey # "" THEN dialog' = FALSE /\ UNCHANGED <<view, shown, listing, write, fetches>>
     ELSE Len(fetches) < MaxFetches /\ Arrive(view, "chat", token, user, fetches)
  /\ UNCHANGED <<users, login, token, user, adminKey, crossed>>

MayClose == adminKey # ""

ClickOutside ==
  /\ dialog /\ MayClose
  /\ dialog' = FALSE
  /\ UNCHANGED <<userVars, view, token, user, adminKey, shown, crossed>>

\* handleCreateUser and handleDeactivate.  One's own row has no button.
Writes(op, e, role, i) ==
  /\ view = "admin" /\ ~dialog /\ write.st = "none"
  /\ write' = [st |-> "sent", op |-> op, email |-> e, role |-> role, id |-> i,
               key |-> adminKey, heard |-> TRUE]
  /\ UNCHANGED <<users, login, fetches, listing, tabVars>>

Create(e, role) == Writes("create", e, role, NoId)

Block(i) ==
  /\ i \in DOMAIN shown /\ shown[i] /\ i # user
  /\ Writes("deactivate", users[i].email, users[i].role, i)

\* Answers and errors.  A list that fails leaves the old one; the message of a refused key
\* holds neither "401" nor "unauthorized", so the key is kept.
ListAnswered ==
  /\ listing.st = "ok"
  /\ shown' = listing.rows /\ listing' = Quiet
  /\ UNCHANGED <<users, login, fetches, write, view, token, user, adminKey, dialog, crossed>>

ListFails ==
  /\ listing.st = "bad" \/ (listing.st # "none" /\ "net" \in Faults)
  /\ listing' = Quiet
  /\ UNCHANGED <<users, login, fetches, write, tabVars>>

WriteAnswered ==
  /\ write.st = "ok"
  /\ write' = Quiet
  /\ shown' = IF ~write.heard THEN shown
              ELSE IF write.op = "create"
                   THEN [i \in DOMAIN shown \cup {write.id} |->
                           IF i = write.id THEN TRUE ELSE shown[i]]
              ELSE [i \in DOMAIN shown |-> shown[i] /\ i # write.id]
  /\ UNCHANGED <<users, login, fetches, listing, view, token, user, adminKey, dialog, crossed>>

\* An answer may be lost after the commit.
WriteFails ==
  /\ write.st = "bad" \/ (write.st = "ok" /\ "net" \in Faults)
  /\ write' = Quiet
  /\ UNCHANGED <<users, login, fetches, listing, tabVars>>

Next ==
  \/ UsersNext /\ UNCHANGED tabVars
  \/ \E e \in Emails, right \in BOOLEAN : Submit(e, right)
  \/ LoginAnswered \/ LoginFails
  \/ \E k \in DOMAIN fetches : FetchAnswered(k) \/ FetchLost(k)
  \/ Logout \/ Reload
  \/ \E v \in {"chat", "admin"} : GoTo(v)
  \/ OpenChangeKey \/ CancelKey \/ ClickOutside
  \/ \E key \in Keys \ {""} : SubmitKey(key)
  \/ \E e \in Emails, role \in NewRoles : Create(e, role)
  \/ \E i \in DOMAIN shown : Block(i)
  \/ ListAnswered \/ ListFails \/ WriteAnswered \/ WriteFails

Spec == Init /\ [][Next]_vars
-----------------------------------------------------------------------------
\* An address belongs to one row, however it was typed and whoever created it at the same
\* time (user_service.py:40, :71; admin.py:142).
OneRowPerAddress ==
  \A i, j \in DOMAIN users : users[i].email.address = users[j].email.address => i = j

\* Whoever was blocked when a request was sent gets neither a token nor a profile for it,
\* whatever token they hold; a request that was under way may still be served
\* (auth.py:84-86, dependencies.py:89-103, user_service.py:94).
BlockedStaysOut ==
  /\ login.st = "done" /\ login.wasBlocked => login.token = NoId
  /\ \A k \in DOMAIN fetches : fetches[k].st = "ok" => ~fetches[k].wasBlocked

\* The profile shown is the one of the token in use, unless the session ended while a
\* GET /me was in flight: its answer then lands in the next session (auth.ts:74-91).
ProfileIsOwn ==
  user # NoId /\ ~crossed => user = token

\* What the admin's list shows is in the table, and who is shown as blocked is blocked, with
\* lists and writes answered in any order (admin.py:139, :212; AdminView.vue:393, :417).
ListIsTrue ==
  \A i \in DOMAIN shown : i \in DOMAIN users /\ (users[i].active => shown[i])

\* The admin view without a key is behind its dialog, whatever was closed, cancelled, loaded
\* again or logged out before: no request goes out without a key (AdminView.vue:281-302).
KeyOrDialog ==
  view = "admin" /\ adminKey = "" => dialog

\* The types, and what holds of the table and of the admin view by themselves.
AccountInv == TypeOK /\ OneRowPerAddress /\ KeyOrDialog
=============================================================================
