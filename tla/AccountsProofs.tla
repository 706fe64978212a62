--------------------------- MODULE AccountsProofs ---------------------------
(***************************************************************************)
(* Proofs about Accounts for every set of addresses and ids, any number of *)
(* profiles in flight and every set of faults.                             *)
(***************************************************************************)
EXTENDS Accounts, FiniteSetTheorems, WellFoundedInduction, TLAPS

\* Addresses are stored in one form, once each.  What is flushed is not there yet and
\* nothing else takes its place; what is answered is there to stay.
TableInv ==
  /\ \A i \in DOMAIN users : users[i].email.form = "lower"
  /\ OneRowPerAddress
  /\ write.st = "flushed" /\ write.op = "create" =>
       write.id \in Ids \ DOMAIN users /\ WithEmail(write.email) = {}
  /\ write.st = "ok" /\ write.op = "create" => write.id \in DOMAIN users
  /\ write.st # "none" /\ write.op = "deactivate" =>
       write.id \in DOMAIN users /\ (write.st = "ok" => ~users[write.id].active)

\* Who was blocked when a request was sent is blocked until it is answered.
SessionInv ==
  /\ login.st = "sent" /\ login.wasBlocked =>
       \E i \in DOMAIN users : users[i].email = Lower(login.email) /\ ~users[i].active
  /\ BlockedStaysOut
  /\ \A k \in DOMAIN fetches :
       fetches[k].st = "sent" /\ fetches[k].wasBlocked => IsBlocked(fetches[k].token)

\* Within one session all profiles asked for are its own; a login begins without a session,
\* and in the login view a session waits for its redirect.
ProfileInv ==
  ~crossed =>
    /\ \A k \in DOMAIN fetches : fetches[k].token = token
    /\ user # NoId => user = token
    /\ login # Quiet => token = NoToken
    /\ view = "login" /\ token # NoToken =>
         \E k \in DOMAIN fetches : fetches[k].then = "redirect"

\* Outside of the admin view nothing it has asked for is heard.
ViewInv ==
  /\ view # "admin" => listing.st = "none" /\ (write.st # "none" => ~write.heard)
  /\ KeyOrDialog

\* Both the list shown and the one on its way are true.
ListInv ==
  /\ ListIsTrue
  /\ listing.st = "ok" =>
       /\ DOMAIN listing.rows \subseteq DOMAIN users
       /\ \A i \in DOMAIN listing.rows :
            listing.rows[i] \in BOOLEAN /\ (users[i].active => listing.rows[i])

IInv == TypeOK /\ TableInv /\ SessionInv /\ ProfileInv /\ ViewInv /\ ListInv
-----------------------------------------------------------------------------
(***************************************************************************)
(* Addresses, ids and lists.                                               *)
(***************************************************************************)

LEMMA Lowered ==
  ASSUME NEW e \in Emails
  PROVE  Lower(e) \in Emails /\ Lower(e).form = "lower" /\ Lower(e).address = e.address
BY UsersAssumption DEF Lower

\* An address in its one form is its address.
LEMMA SameAddress ==
  ASSUME NEW e \in Emails, NEW f \in Emails, e.address = f.address, e.form = f.form
  PROVE  e = f
BY UsersAssumption

\* The database has a next id as long as it has one.
LEMMA NextIdIsNew == HasRoom => NextId \in Ids \ Drawn
<1> SUFFICES ASSUME HasRoom PROVE NextId \in Ids \ Drawn
  OBVIOUS
<1> DEFINE S == Ids \ Drawn
           R == OpToRel(<, Nat)
<1>1. S \subseteq Nat /\ S # {}
  BY UsersAssumption DEF HasRoom
<1>2. PICK i \in S : \A j \in S : <<j, i>> \notin R
  <2> HIDE DEF S, R
  <2>1. IsWellFoundedOn(R, Nat)
    BY NatLessThanWellFounded DEF R
  <2> QED
    BY <1>1, <2>1, WFMin
<1>3. ASSUME NEW j \in S PROVE i <= j
  <2>1. i \in Nat /\ j \in Nat /\ <<j, i>> \notin R
    BY <1>1, <1>2
  <2>2. ~(j < i)
    BY <2>1 DEF OpToRel
  <2> HIDE DEF R
  <2> QED
    BY <2>1, <2>2
<1> QED
  BY <1>3 DEF NextId

LEMMA Joined ==
  ASSUME NEW T, NEW a \in Seq(T), NEW b \in Seq(T)
  PROVE  /\ a \o b \in Seq(T)
         /\ Len(a \o b) = Len(a) + Len(b)
         /\ DOMAIN (a \o b) = 1..Len(a \o b)
         /\ \A i \in 1..Len(a \o b) : (a \o b)[i] = IF i <= Len(a) THEN a[i] ELSE b[i - Len(a)]
<1>1. a \o b \in Seq(T)
  OBVIOUS
<1>2. Len(a \o b) = Len(a) + Len(b)
  OBVIOUS
<1>3. DOMAIN (a \o b) = 1..Len(a \o b)
  BY <1>1
<1>4. \A i \in 1..Len(a \o b) : (a \o b)[i] = IF i <= Len(a) THEN a[i] ELSE b[i - Len(a)]
  BY <1>2
<1> QED
  BY <1>1, <1>2, <1>3, <1>4

\* Taking one entry out of a list leaves the others.
LEMMA Removed ==
  ASSUME NEW T, NEW s \in Seq(T), NEW k \in DOMAIN s
  PROVE  /\ RemoveAt(s, k) \in Seq(T)
         /\ \A i \in DOMAIN RemoveAt(s, k) : \E j \in DOMAIN s \ {k} : RemoveAt(s, k)[i] = s[j]
         /\ \A j \in DOMAIN s \ {k} : \E i \in DOMAIN RemoveAt(s, k) : RemoveAt(s, k)[i] = s[j]
<1> DEFINE a == SubSeq(s, 1, k - 1)
           b == SubSeq(s, k + 1, Len(s))
           c == RemoveAt(s, k)
<1>1. k \in 1..Len(s) /\ Len(s) \in Nat /\ DOMAIN s = 1..Len(s)
  OBVIOUS
<1>2. a \in Seq(T) /\ Len(a) = k - 1 /\ \A i \in 1..(k - 1) : a[i] = s[i]
  BY <1>1
<1>3. b \in Seq(T) /\ Len(b) = Len(s) - k /\ \A i \in 1..(Len(s) - k) : b[i] = s[k + i]
  BY <1>1
<1>4. c = a \o b
  BY DEF RemoveAt
<1> HIDE DEF a, b, c
<1>5. /\ c \in Seq(T) /\ Len(c) = Len(a) + Len(b) /\ DOMAIN c = 1..Len(c)
      /\ \A i \in 1..Len(c) : c[i] = IF i <= Len(a) THEN a[i] ELSE b[i - Len(a)]
  <2>1. a \in Seq(T) /\ b \in Seq(T)
    BY <1>2, <1>3
  <2> QED
    BY <2>1, <1>4, Joined, Zenon
<1>6. DOMAIN c = 1..(Len(s) - 1)
  BY <1>1, <1>2, <1>3, <1>5
<1>7. ASSUME NEW i \in 1..(Len(s) - 1)
      PROVE  c[i] = s[IF i < k THEN i ELSE i + 1]
  <2>1. i \in 1..Len(c) /\ Len(a) = k - 1 /\ k \in Int /\ i \in Int
    BY <1>1, <1>2, <1>3, <1>5
  <2>2. CASE i < k
    <3>1. c[i] = a[i] /\ i \in 1..(k - 1)
      BY <1>5, <2>1, <2>2
    <3> QED
      BY <1>2, <2>2, <3>1
  <2>3. CASE i >= k
    <3>1. PICK n \in 1..(Len(s) - k) : c[i] = b[n] /\ k + n = i + 1
      BY <1>1, <1>5, <2>1, <2>3
    <3> QED
      BY <1>3, <2>1, <2>3, <3>1
  <2> QED
    BY <2>1, <2>2, <2>3
<1>8. \A i \in DOMAIN c : \E j \in DOMAIN s \ {k} : c[i] = s[j]
  BY <1>1, <1>6, <1>7
<1>9. ASSUME NEW j \in DOMAIN s \ {k}
      PROVE  \E i \in DOMAIN c : c[i] = s[j]
  <2>1. CASE j < k
    <3>1. j \in DOMAIN c /\ c[j] = s[j]
      BY <1>1, <1>6, <1>7, <2>1
    <3> QED
      BY <3>1
  <2>2. CASE j > k
    <3>1. j - 1 \in DOMAIN c /\ c[j - 1] = s[j]
      BY <1>1, <1>6, <1>7, <2>2
    <3> QED
      BY <3>1
  <2> QED
    BY <1>1, <2>1, <2>2
<1> QED
  BY <1>5, <1>8, <1>9 DEF c

\* A cancelled navigation stays in the list.
LEMMA Cancelled ==
  ASSUME NEW fs \in Seq(FetchType)
  PROVE  /\ NoLongerGuards(fs) \in Seq(FetchType)
         /\ DOMAIN NoLongerGuards(fs) = DOMAIN fs
         /\ \A k \in DOMAIN fs :
              /\ NoLongerGuards(fs)[k].st = fs[k].st
              /\ NoLongerGuards(fs)[k].token = fs[k].token
              /\ NoLongerGuards(fs)[k].wasBlocked = fs[k].wasBlocked
              /\ fs[k].then = "redirect" => NoLongerGuards(fs)[k].then = "redirect"
<1>1. DOMAIN fs = 1..Len(fs) /\ Len(fs) \in Nat
  OBVIOUS
<1>2. \A k \in DOMAIN fs : fs[k] \in FetchType
  OBVIOUS
<1> QED
  BY <1>1, <1>2 DEF NoLongerGuards, FetchType

\* One more at the end.
LEMMA Appended ==
  ASSUME NEW T, NEW s \in Seq(T), NEW e \in T
  PROVE  /\ Append(s, e) \in Seq(T)
         /\ \A k \in DOMAIN Append(s, e) :
              Append(s, e)[k] = e \/ \E j \in DOMAIN s : Append(s, e)[k] = s[j]
         /\ \A j \in DOMAIN s : \E k \in DOMAIN Append(s, e) : Append(s, e)[k] = s[j]
         /\ \E k \in DOMAIN Append(s, e) : Append(s, e)[k] = e
<1>1. /\ Append(s, e) \in Seq(T) /\ Len(Append(s, e)) = Len(s) + 1 /\ Len(s) \in Nat
      /\ DOMAIN s = 1..Len(s)
  OBVIOUS
<1>2. DOMAIN Append(s, e) = 1..(Len(s) + 1)
  BY <1>1
<1>3. /\ Append(s, e)[Len(s) + 1] = e
      /\ \A k \in 1..Len(s) : Append(s, e)[k] = s[k]
  OBVIOUS
<1> QED
  BY <1>1, <1>2, <1>3
-----------------------------------------------------------------------------
(***************************************************************************)
(* Where the tab goes.                                                     *)
(***************************************************************************)

\* The admin view is mounted, unmounted, or was not there; or nothing moves.
Lands ==
  \/ view' = "admin" /\ shown' = Nobody /\ LoadUsers /\ UNCHANGED write
  \/ view' \in {"login", "chat", "blank"} /\ Unmount
  \/ /\ view' \in {"login", "chat", "blank"} /\ view # "admin"
     /\ UNCHANGED <<dialog, shown, listing, write>>
  \/ Stays

\* What is in flight afterwards was so before, or is a new GET /me of the session.
Carries(fs) ==
  /\ fetches' \in Seq(FetchType)
  /\ \A k \in DOMAIN fetches' :
       \/ \E j \in DOMAIN fs : /\ fetches'[k].st = fs[j].st
                              /\ fetches'[k].token = fs[j].token
                              /\ fetches'[k].wasBlocked = fs[j].wasBlocked
       \/ /\ fetches'[k].st = "sent" /\ fetches'[k].token = token' /\ token' \in Ids
          /\ fetches'[k].wasBlocked = IsBlocked(token')

LEMMA ArriveFacts ==
  ASSUME NEW here \in {"login", "chat", "admin", "blank"}, here = view \/ here = "blank",
         NEW v \in {"chat", "admin"}, NEW t \in Ids \cup {NoToken}, NEW u \in Ids \cup {NoId},
         NEW fs \in Seq(FetchType), Arrive(here, v, t, u, fs)
  PROVE  /\ Lands
         /\ \/ fetches' = fs
            \/ t # NoToken /\ \E x \in {"stay", "guard"} : fetches' = Append(fs, Fetch(t, x))
         /\ t = NoToken => fetches' = fs /\ view' = "login"
         /\ view' = "login" => t = NoToken \/ (u = NoId /\ here = "login")
<1> USE DEF Lands, Stays, Unmount, Waits, NoToken, NoId
<1>1. CASE /\ v = "chat" /\ t # NoToken
           /\ view' = "chat" /\ Unmount
           /\ fetches' = IF u = NoId /\ here # "chat" THEN Append(fs, Fetch(t, "stay")) ELSE fs
  BY <1>1
<1>2. CASE t = NoToken /\ view' = "login" /\ Unmount /\ fetches' = fs
  BY <1>2
<1>3. CASE /\ v = "admin" /\ t # NoToken /\ u = NoId
           /\ Waits(here)
           /\ fetches' = Append(fs, Fetch(t, "guard"))
  BY <1>3
<1>4. CASE /\ v = "admin" /\ t # NoToken /\ u # NoId /\ IsAdmin(u)
           /\ view' = "admin" /\ shown' = Nobody
           /\ LoadUsers
           /\ fetches' = fs /\ UNCHANGED write
  BY <1>4
<1>5. CASE /\ v = "admin" /\ t # NoToken /\ u # NoId /\ ~IsAdmin(u)
           /\ view' = "chat" /\ Unmount
           /\ fetches' = fs
  BY <1>5
<1> QED
  BY <1>1, <1>2, <1>3, <1>4, <1>5 DEF Arrive

LEMMA FetchIs ==
  ASSUME NEW t \in Ids, NEW x \in {"redirect", "stay", "guard"}
  PROVE  /\ Fetch(t, x) \in FetchType
         /\ Fetch(t, x).st = "sent" /\ Fetch(t, x).token = t /\ Fetch(t, x).then = x
         /\ Fetch(t, x).wasBlocked = IsBlocked(t)
BY DEF Fetch, FetchType, IsBlocked

\* A list cut or cancelled, and perhaps one more GET /me of the session.
LEMMA CarriesOn ==
  ASSUME NEW fs, NEW left \in Seq(FetchType), token' \in Ids \cup {NoToken},
         \A i \in DOMAIN left : \E j \in DOMAIN fs : /\ left[i].st = fs[j].st
                                                   /\ left[i].token = fs[j].token
                                                   /\ left[i].wasBlocked = fs[j].wasBlocked,
         \/ fetches' = left
         \/ /\ token' # NoToken
            /\ \E x \in {"redirect", "stay", "guard"} : fetches' = Append(left, Fetch(token', x))
  PROVE  Carries(fs)
<1>1. CASE fetches' = left
  BY <1>1 DEF Carries
<1>2. ASSUME NEW x \in {"redirect", "stay", "guard"}, token' \in Ids,
             fetches' = Append(left, Fetch(token', x))
      PROVE  Carries(fs)
  <2> DEFINE e == Fetch(token', x)
  <2>1. /\ e \in FetchType
        /\ e.st = "sent" /\ e.token = token' /\ e.wasBlocked = IsBlocked(token')
    BY <1>2, FetchIs
  <2> HIDE DEF e
  <2>2. /\ Append(left, e) \in Seq(FetchType)
        /\ \A k \in DOMAIN Append(left, e) :
             Append(left, e)[k] = e \/ \E j \in DOMAIN left : Append(left, e)[k] = left[j]
    BY <2>1, Appended
  <2>3. fetches' = Append(left, e)
    BY <1>2 DEF e
  <2>4. ASSUME NEW k \in DOMAIN fetches', fetches'[k] # e
        PROVE  \E j \in DOMAIN fs : /\ fetches'[k].st = fs[j].st
                                  /\ fetches'[k].token = fs[j].token
                                  /\ fetches'[k].wasBlocked = fs[j].wasBlocked
    BY <2>2, <2>3, <2>4
  <2> QED
    BY <1>2, <2>1, <2>2, <2>3, <2>4 DEF Carries
<1> QED
  BY <1>1, <1>2

\* What the end of a GET /me does to the session, and where it leads.
LEMMA FetchEndsFacts ==
  ASSUME TypeOK, NEW k \in DOMAIN fetches, NEW ok \in BOOLEAN, FetchEnds(k, ok)
  PROVE  /\ Lands /\ UNCHANGED <<users, login, adminKey>>
         /\ Carries(fetches)
         /\ ok => user' = fetches[k].token /\ UNCHANGED <<token, crossed>>
         /\ ~ok => /\ token' = NoToken /\ user' = NoId
                   /\ fetches' = RemoveAt(fetches, k) /\ crossed' = (fetches' # << >>)
         /\ ok /\ view' = "login" /\ token # NoToken =>
              view = "login" /\ fetches[k].then = "stay" /\ fetches' = RemoveAt(fetches, k)
<1> DEFINE left == RemoveAt(fetches, k)
           t == IF ok THEN token ELSE NoToken
           u == IF ok THEN fetches[k].token ELSE NoId
<1>1. fetches \in Seq(FetchType) /\ fetches[k] \in FetchType
  BY DEF TypeOK, UsersTypeOK
<1>2. /\ left \in Seq(FetchType)
      /\ \A i \in DOMAIN left : \E j \in DOMAIN fetches \ {k} : left[i] = fetches[j]
  BY <1>1, Removed
<1>3. /\ IF ok THEN user' = u /\ UNCHANGED <<token, crossed>> ELSE LogsOut(left)
      /\ UNCHANGED <<users, login, adminKey>>
  BY Zenon DEF FetchEnds
<1>4. \/ fetches[k].then = "stay" /\ Stays /\ fetches' = left
      \/ fetches[k].then # "stay" /\ \E v \in {"chat", "admin"} : Arrive(view, v, t, u, left)
  BY DEF FetchEnds
<1>5. /\ t \in Ids \cup {NoToken} /\ u \in Ids \cup {NoId} /\ t = token'
      /\ view \in {"login", "chat", "admin", "blank"}
  BY <1>1, <1>3 DEF TypeOK, FetchType, LogsOut
<1>6. ok => u # NoId
  BY <1>1, UsersAssumption DEF FetchType, NoId
<1> HIDE DEF left, t, u
<1>7. CASE fetches[k].then = "stay" /\ Stays /\ fetches' = left
  <2>1. Lands /\ (view' = "login" => view = "login")
    BY <1>7 DEF Lands, Stays
  <2>2. Carries(fetches)
    BY <1>2, <1>5, <1>7, CarriesOn
  <2> QED
    BY <1>3, <1>7, <2>1, <2>2 DEF u, left, LogsOut
<1>8. ASSUME NEW v \in {"chat", "admin"}, Arrive(view, v, t, u, left)
      PROVE  /\ Lands /\ Carries(fetches)
             /\ t = NoToken => fetches' = left
             /\ view' = "login" => t = NoToken \/ ~ok
  <2>1. /\ Lands
        /\ \/ fetches' = left
           \/ t # NoToken /\ \E x \in {"stay", "guard"} : fetches' = Append(left, Fetch(t, x))
        /\ t = NoToken => fetches' = left /\ view' = "login"
        /\ view' = "login" => t = NoToken \/ (u = NoId /\ view = "login")
    <3>1. view \in {"login", "chat", "admin", "blank"} /\ (view = view \/ view = "blank")
      BY <1>5
    <3>2. left \in Seq(FetchType) /\ t \in Ids \cup {NoToken} /\ u \in Ids \cup {NoId}
      BY <1>2, <1>5
    <3> QED
      BY <1>8, <3>1, <3>2, ArriveFacts, Zenon
  <2>2. Carries(fetches)
    BY <1>2, <1>5, <2>1, CarriesOn
  <2> QED
    BY <1>6, <2>1, <2>2
<1> QED
  <2>1. CASE fetches[k].then = "stay" /\ Stays /\ fetches' = left
    BY <1>7, <2>1
  <2>2. CASE fetches[k].then # "stay" /\ \E v \in {"chat", "admin"} : Arrive(view, v, t, u, left)
    <3>1. /\ Lands /\ Carries(fetches)
          /\ t = NoToken => fetches' = left
          /\ view' = "login" => t = NoToken \/ ~ok
      BY <1>8, <2>2
    <3>2. t = IF ok THEN token ELSE NoToken
      BY DEF t
    <3> QED
      BY <1>3, <3>1, <3>2 DEF u, left, LogsOut
  <2> QED
    BY <1>4, <2>1, <2>2

\* The steps that leave the table, the key and the writes alone.
Moves == Lands /\ UNCHANGED <<users, adminKey>>

\* What a move makes of the admin view and of what it has asked for.
LEMMA MoveFacts ==
  ASSUME TypeOK, Moves
  PROVE  /\ view' \in {"login", "chat", "admin", "blank"} /\ dialog' \in BOOLEAN
         /\ view' # "admin" => ~dialog' /\ DOMAIN shown' = {}
         /\ shown' \in {shown, Nobody}
         /\ listing' \in {listing, Quiet} \/ (listing'.st = "sent" /\ view' = "admin")
         /\ write' = Quiet \/ write' \in WriteType
         /\ write'.st = write.st
         /\ write.st # "none" => /\ write'.op = write.op /\ write'.email = write.email
                                 /\ write'.id = write.id
<1> USE DEF TypeOK, UsersTypeOK, Moves
<1>1. (write = Quiet /\ write.st = "none") \/ (write \in WriteType /\ write.st # "none")
  BY DEF WriteType, Quiet
<1>2. CASE view' = "admin" /\ shown' = Nobody /\ LoadUsers /\ UNCHANGED write
  <2>1. \/ dialog' = TRUE /\ listing' = Quiet
        \/ dialog' = FALSE /\ listing'.st = "sent"
    <3>1. CASE adminKey = ""
      BY <1>2, <3>1, Zenon DEF LoadUsers
    <3>2. CASE adminKey # ""
      <4>1. dialog' = FALSE /\ listing' = [st |-> "sent", key |-> adminKey]
        BY <1>2, <3>2, Zenon DEF LoadUsers
      <4> QED
        BY <4>1
    <3> QED
      BY <3>1, <3>2
  <2>2. dialog' \in BOOLEAN
    BY <2>1
  <2>3. listing' \in {listing, Quiet} \/ (listing'.st = "sent" /\ view' = "admin")
    BY <1>2, <2>1
  <2> QED
    BY <1>1, <1>2, <2>2, <2>3
<1>3. CASE view' \in {"login", "chat", "blank"} /\ Unmount
  <2>1. dialog' = FALSE /\ shown' = Nobody /\ listing' = Quiet /\ DOMAIN shown' = {}
    BY <1>3 DEF Unmount, Nobody
  <2>2. write' = IF write.st = "none" THEN write ELSE [write EXCEPT !.heard = FALSE]
    BY <1>3 DEF Unmount
  <2>3. write \in WriteType => [write EXCEPT !.heard = FALSE] \in WriteType
    BY DEF WriteType
  <2>4. write \in WriteType =>
          /\ [write EXCEPT !.heard = FALSE].st = write.st
          /\ [write EXCEPT !.heard = FALSE].op = write.op
          /\ [write EXCEPT !.heard = FALSE].email = write.email
          /\ [write EXCEPT !.heard = FALSE].id = write.id
    BY DEF WriteType
  <2> QED
    BY <1>1, <1>3, <2>1, <2>2, <2>3, <2>4
<1>4. CASE /\ view' \in {"login", "chat", "blank"} /\ view # "admin"
           /\ UNCHANGED <<dialog, shown, listing, write>>
  BY <1>4
<1>5. CASE Stays
  BY <1>5 DEF Stays
<1> QED
  BY <1>2, <1>3, <1>4, <1>5 DEF Lands
-----------------------------------------------------------------------------
(***************************************************************************)
(* Every step is one of the session, which moves the tab at most, or one   *)
(* of the table and its view, which leaves the session alone.              *)
(***************************************************************************)

sessionVars == <<login, fetches, token, user, crossed, view>>

SessionStep ==
  \/ LoginReads /\ UNCHANGED tabVars
  \/ \E k \in DOMAIN fetches : FetchReads(k) /\ UNCHANGED tabVars
  \/ \E e \in Emails, right \in BOOLEAN : Submit(e, right)
  \/ LoginAnswered \/ LoginFails
  \/ \E k \in DOMAIN fetches : FetchAnswered(k) \/ FetchLost(k)
  \/ Logout \/ Reload
  \/ \E v \in {"chat", "admin"} : GoTo(v)
  \/ CancelKey

\* The dialog closes and nothing else happens.
Closes ==
  /\ adminKey # "" /\ dialog' = FALSE
  /\ UNCHANGED <<userVars, view, token, user, adminKey, shown, crossed>>

TableStep ==
  \/ /\ UNCHANGED tabVars
     /\ \/ ListReads \/ WriteRefused \/ WriteFlushes \/ WriteCommits \/ CommitFails
        \/ \E e \in Emails : CreateElsewhere(e)
        \/ \E i \in DOMAIN users : DeactivateElsewhere(i)
  \/ OpenChangeKey \/ Closes
  \/ \E key \in Keys \ {""} : SubmitKey(key)
  \/ \E e \in Emails, role \in NewRoles : Create(e, role)
  \/ \E i \in DOMAIN shown : Block(i)
  \/ ListAnswered \/ ListFails \/ WriteAnswered \/ WriteFails

LEMMA Kinds == [Next]_vars => SessionStep \/ TableStep \/ UNCHANGED vars
<1> SUFFICES ASSUME Next PROVE SessionStep \/ TableStep
  OBVIOUS
<1>1. CASE UsersNext /\ UNCHANGED tabVars
  BY <1>1 DEF UsersNext, SessionStep, TableStep
<1>2. CASE ClickOutside
  BY <1>2 DEF ClickOutside, MayClose, Closes, TableStep
<1>3. CASE ~(UsersNext /\ UNCHANGED tabVars) /\ ~ClickOutside
  BY <1>3 DEF Next, SessionStep, TableStep
<1> QED
  BY <1>1, <1>2, <1>3

\* A GET /me that is over leaves the session with the profile, or over.
FetchOver(k) == \E ok \in BOOLEAN : (ok => fetches[k].st = "ok") /\ FetchEnds(k, ok)

LEMMA FetchOvers ==
  ASSUME NEW k \in DOMAIN fetches, FetchAnswered(k) \/ FetchLost(k)
  PROVE  FetchOver(k)
BY DEF FetchAnswered, FetchLost, FetchOver

LEMMA SessionMoves == TypeOK /\ (SessionStep \/ UNCHANGED vars) => Moves \/ Closes
<1> SUFFICES ASSUME TypeOK, SessionStep \/ UNCHANGED vars PROVE Moves \/ Closes
  OBVIOUS
<1> USE DEF Moves, Lands, Stays, tabVars, TypeOK, UsersTypeOK
<1>1. CASE LoginReads /\ UNCHANGED tabVars
  BY <1>1 DEF LoginReads
<1>2. ASSUME NEW k \in DOMAIN fetches, FetchReads(k), UNCHANGED tabVars PROVE Moves
  BY <1>2 DEF FetchReads
<1>3. ASSUME NEW e \in Emails, NEW right \in BOOLEAN, Submit(e, right) PROVE Moves
  BY <1>3 DEF Submit
<1>4. CASE LoginAnswered
  BY <1>4 DEF LoginAnswered
<1>5. CASE LoginFails
  BY <1>5 DEF LoginFails
<1>6. ASSUME NEW k \in DOMAIN fetches, FetchAnswered(k) \/ FetchLost(k) PROVE Moves
  BY <1>6, FetchOvers, FetchEndsFacts DEF FetchOver
<1>7. CASE Logout
  BY <1>7 DEF Logout
<1>8. CASE Reload
  <2>1. PICK v \in {"chat", "admin"} : Arrive("blank", v, token, NoId, << >>)
    BY <1>8 DEF Reload
  <2>2. << >> \in Seq(FetchType) /\ NoId \in Ids \cup {NoId} /\ token \in Ids \cup {NoToken}
    OBVIOUS
  <2>3. Lands
    BY <2>1, <2>2, ArriveFacts
  <2> QED
    BY <1>8, <2>3 DEF Reload
<1>9. ASSUME NEW v \in {"chat", "admin"}, GoTo(v) PROVE Moves
  <2>1. NoLongerGuards(fetches) \in Seq(FetchType)
    BY Cancelled
  <2>2. Lands
    BY <1>9, <2>1, ArriveFacts DEF GoTo
  <2> QED
    BY <1>9, <2>2 DEF GoTo
<1>10. CASE CancelKey
  <2>1. CASE adminKey # ""
    BY <1>10, <2>1 DEF CancelKey, Closes, userVars
  <2>2. CASE adminKey = ""
    <3>1. Arrive(view, "chat", token, user, fetches)
      BY <1>10, <2>2 DEF CancelKey
    <3>2. Lands
      BY <3>1, ArriveFacts
    <3> QED
      BY <1>10, <3>2 DEF CancelKey
  <2> QED
    BY <2>1, <2>2
<1>11. CASE UNCHANGED vars
  BY <1>11 DEF vars, userVars
<1> QED
  BY <1>1, <1>2, <1>3, <1>4, <1>5, <1>6, <1>7, <1>8, <1>9, <1>10, <1>11 DEF SessionStep

LEMMA TableKeepsSession == TableStep => UNCHANGED sessionVars
BY DEF TableStep, sessionVars, tabVars, userVars, ListReads, WriteRefused, WriteFlushes,
       WriteCommits, CommitFails, CreateElsewhere, DeactivateElsewhere, OpenChangeKey, Closes,
       SubmitKey, Create, Block, Writes, ListAnswered, ListFails, WriteAnswered, WriteFails
-----------------------------------------------------------------------------
(***************************************************************************)
(* The table.                                                              *)
(***************************************************************************)

\* A new row takes an id that no row has and an address in its one form.
LEMMA InsertIs ==
  ASSUME TypeOK, NEW new \in Ids \ DOMAIN users, NEW e \in Emails, NEW role \in {"user", "admin"},
         Insert(new, e, role)
  PROVE  /\ DOMAIN users' = DOMAIN users \cup {new}
         /\ \A i \in DOMAIN users : users'[i] = users[i]
         /\ users'[new].email = Lower(e) /\ users'[new].active = TRUE
         /\ users'[new].role = role
         /\ \A i \in DOMAIN users' : users'[i] \in RowType
<1>1. /\ DOMAIN users' = DOMAIN users \cup {new}
      /\ users'[new] = User(Lower(e), role)
      /\ \A i \in DOMAIN users : users'[i] = users[i]
  BY DEF Insert
<1>2. Lower(e) \in Emails
  BY Lowered
<1>3. /\ User(Lower(e), role).email = Lower(e) /\ User(Lower(e), role).active = TRUE
      /\ User(Lower(e), role).role = role /\ User(Lower(e), role) \in RowType
  BY <1>2 DEF User, RowType
<1> QED
  BY <1>1, <1>3 DEF TypeOK, UsersTypeOK

LEMMA DeactivateIs ==
  ASSUME TypeOK, NEW i \in DOMAIN users, Deactivate(i)
  PROVE  /\ DOMAIN users' = DOMAIN users
         /\ \A j \in DOMAIN users : users'[j].email = users[j].email
         /\ \A j \in DOMAIN users \ {i} : users'[j] = users[j]
         /\ users'[i].active = FALSE
         /\ \A j \in DOMAIN users' : users'[j] \in RowType
<1>1. users' = [users EXCEPT ![i] = [users[i] EXCEPT !.active = FALSE]]
  BY DEF Deactivate
<1>2. /\ [users[i] EXCEPT !.active = FALSE] \in RowType
      /\ [users[i] EXCEPT !.active = FALSE].email = users[i].email
      /\ [users[i] EXCEPT !.active = FALSE].active = FALSE
  BY DEF TypeOK, UsersTypeOK, RowType
<1>3. /\ DOMAIN users' = DOMAIN users
      /\ users'[i] = [users[i] EXCEPT !.active = FALSE]
      /\ \A j \in DOMAIN users \ {i} : users'[j] = users[j]
  BY <1>1
<1> QED
  BY <1>2, <1>3 DEF TypeOK, UsersTypeOK

\* Rows stay, with their addresses; who is blocked stays blocked.
LEMMA Grows ==
  TypeOK /\ TableInv /\ [Next]_vars =>
    /\ DOMAIN users \subseteq DOMAIN users'
    /\ \A i \in DOMAIN users : /\ users'[i].email = users[i].email
                               /\ users'[i].active => users[i].active
<1> DEFINE G == /\ DOMAIN users \subseteq DOMAIN users'
                /\ \A i \in DOMAIN users : /\ users'[i].email = users[i].email
                                           /\ users'[i].active => users[i].active
<1> SUFFICES ASSUME TypeOK, TableInv, [Next]_vars PROVE G
  OBVIOUS
<1>1. CASE WriteCommits
  <2>1. write \in WriteType /\ write.st = "flushed"
    BY <1>1 DEF WriteCommits, TypeOK, UsersTypeOK, Quiet
  <2>2. CASE write.op = "create"
    <3>1. write.id \in Ids \ DOMAIN users /\ Insert(write.id, write.email, write.role)
      BY <1>1, <2>1, <2>2 DEF WriteCommits, TableInv
    <3>2. write.email \in Emails /\ write.role \in {"user", "admin"}
      BY <2>1 DEF WriteType
    <3>3. /\ DOMAIN users' = DOMAIN users \cup {write.id}
          /\ \A i \in DOMAIN users : users'[i] = users[i]
      BY <3>1, <3>2, InsertIs DEF Insert
    <3> QED
      BY <3>3
  <2>3. CASE write.op = "deactivate"
    <3>1. write.id \in DOMAIN users /\ Deactivate(write.id)
      BY <1>1, <2>1, <2>3 DEF WriteCommits, TableInv
    <3> QED
      BY <3>1, DeactivateIs
  <2> QED
    BY <2>1, <2>2, <2>3 DEF WriteType
<1>2. ASSUME NEW e \in Emails, CreateElsewhere(e) PROVE G
  <2>1. NextId \in Ids \ DOMAIN users /\ Insert(NextId, e, "user")
    BY <1>2, NextIdIsNew DEF CreateElsewhere, Drawn
  <2> QED
    BY <2>1, InsertIs
<1>3. ASSUME NEW i \in DOMAIN users, DeactivateElsewhere(i) PROVE G
  <2>1. Deactivate(i)
    BY <1>3 DEF DeactivateElsewhere
  <2> QED
    BY <2>1, DeactivateIs
<1>4. CASE Moves \/ UNCHANGED users
  BY <1>4 DEF Moves
<1>5. CASE TableStep
  BY <1>1, <1>2, <1>3, <1>4, <1>5
  DEF TableStep, userVars, ListReads, WriteRefused, WriteFlushes, CommitFails, OpenChangeKey,
      Closes, SubmitKey, Create, Block, Writes, ListAnswered, ListFails, WriteAnswered, WriteFails
<1> QED
  BY <1>4, <1>5, Kinds, SessionMoves DEF Closes, userVars
-----------------------------------------------------------------------------
(***************************************************************************)
(* The session.                                                            *)
(***************************************************************************)

\* Whoever goes somewhere in a session asks for its profile only.
LEMMA Guided ==
  ASSUME TypeOK, NEW here \in {"chat", "admin", "blank"}, here = view \/ here = "blank",
         NEW v \in {"chat", "admin"}, NEW u \in Ids \cup {NoId}, NEW fs \in Seq(FetchType),
         Arrive(here, v, token, u, fs), token' = token,
         NEW gs, \A i \in DOMAIN fs : \E j \in DOMAIN gs : /\ fs[i].st = gs[j].st
                                                        /\ fs[i].token = gs[j].token
                                                        /\ fs[i].wasBlocked = gs[j].wasBlocked
  PROVE  Carries(gs) /\ (view' = "login" => token' = NoToken)
<1>1. /\ \/ fetches' = fs
         \/ token # NoToken /\ \E x \in {"stay", "guard"} : fetches' = Append(fs, Fetch(token, x))
      /\ view' = "login" => token = NoToken \/ (u = NoId /\ here = "login")
  <2>1. here \in {"login", "chat", "admin", "blank"} /\ token \in Ids \cup {NoToken}
    BY DEF TypeOK
  <2> QED
    BY <2>1, ArriveFacts, Zenon
<1>2. Carries(gs)
  BY <1>1, CarriesOn DEF TypeOK
<1> QED
  BY <1>1, <1>2

LEMMA Cancels ==
  ASSUME TypeOK
  PROVE  /\ NoLongerGuards(fetches) \in Seq(FetchType)
         /\ \A i \in DOMAIN NoLongerGuards(fetches) : \E j \in DOMAIN fetches :
              /\ NoLongerGuards(fetches)[i].st = fetches[j].st
              /\ NoLongerGuards(fetches)[i].token = fetches[j].token
              /\ NoLongerGuards(fetches)[i].wasBlocked = fetches[j].wasBlocked
<1>1. fetches \in Seq(FetchType)
  BY DEF TypeOK, UsersTypeOK
<1> QED
  BY <1>1, Cancelled

LEMMA GoToFacts ==
  ASSUME TypeOK, NEW v \in {"chat", "admin"}, GoTo(v)
  PROVE  Carries(fetches) /\ (view' = "login" => token' = NoToken)
BY Cancels, Guided DEF GoTo, TypeOK

LEMMA CancelFacts ==
  ASSUME TypeOK, CancelKey
  PROVE  Carries(fetches) /\ (view' = "login" => token' = NoToken)
<1>0. view = "admin" /\ fetches \in Seq(FetchType)
  BY DEF CancelKey, TypeOK, UsersTypeOK
<1>1. CASE adminKey # ""
  <2>1. fetches' = fetches /\ view' = view
    BY <1>1 DEF CancelKey
  <2> QED
    BY <1>0, <2>1 DEF Carries
<1>2. CASE adminKey = ""
  BY <1>0, <1>2, Guided DEF CancelKey, TypeOK
<1> QED
  BY <1>1, <1>2

LEMMA ReloadFacts ==
  ASSUME TypeOK, Reload
  PROVE  Carries(<< >>) /\ (view' = "login" => token' = NoToken)
<1>1. PICK v \in {"chat", "admin"} : Arrive("blank", v, token, NoId, << >>)
  BY DEF Reload
<1>2. << >> \in Seq(FetchType) /\ token' = token
  BY DEF Reload
<1> QED
  BY <1>1, <1>2, Guided

\* The table answers a GET /me.
LEMMA FetchReadsIs ==
  ASSUME TypeOK, NEW k \in DOMAIN fetches, FetchReads(k)
  PROVE  /\ fetches' \in Seq(FetchType) /\ DOMAIN fetches' = DOMAIN fetches
         /\ \A j \in DOMAIN fetches : /\ fetches'[j].token = fetches[j].token
                                      /\ fetches'[j].then = fetches[j].then
                                      /\ fetches'[j].wasBlocked = fetches[j].wasBlocked
         /\ \A j \in DOMAIN fetches \ {k} : fetches'[j].st = fetches[j].st
         /\ fetches[k].st = "sent"
         /\ fetches'[k].st = "bad" \/ (fetches'[k].st = "ok" /\ Admits(fetches[k].token))
<1>1. PICK x \in {"ok", "bad"} : /\ fetches' = [fetches EXCEPT ![k] = [fetches[k] EXCEPT !.st = x]]
                                 /\ x = "ok" => Admits(fetches[k].token)
                                 /\ fetches[k].st = "sent"
  <2>1. PICK expired \in BOOLEAN :
          fetches' = [fetches EXCEPT ![k].st =
                        IF ~expired /\ Admits(fetches[k].token) THEN "ok" ELSE "bad"]
    BY DEF FetchReads
  <2>2. fetches[k].st = "sent"
    BY DEF FetchReads
  <2> QED
    BY <2>1, <2>2
<1>2. fetches \in Seq(FetchType) /\ fetches[k] \in FetchType
  BY DEF TypeOK, UsersTypeOK
<1> DEFINE e == [fetches[k] EXCEPT !.st = x]
<1>3. /\ e \in FetchType /\ e.st = x /\ e.token = fetches[k].token
      /\ e.then = fetches[k].then /\ e.wasBlocked = fetches[k].wasBlocked
  BY <1>2 DEF FetchType
<1> HIDE DEF e
<1>4. fetches' = [fetches EXCEPT ![k] = e]
  BY <1>1 DEF e
<1>5. fetches' \in Seq(FetchType) /\ DOMAIN fetches' = DOMAIN fetches
  BY <1>2, <1>3, <1>4
<1>6. fetches'[k] = e /\ \A j \in DOMAIN fetches \ {k} : fetches'[j] = fetches[j]
  BY <1>4
<1> QED
  BY <1>1, <1>3, <1>5, <1>6

\* The table answers a login: an active row of the address, or nobody.
LEMMA LoginReadsIs ==
  ASSUME TypeOK, LoginReads
  PROVE  /\ login.st = "sent" /\ login \in LoginType
         /\ login' \in LoginType /\ login'.st = "done"
         /\ login'.wasBlocked = login.wasBlocked
         /\ login'.token # NoId =>
              login'.token \in WithEmail(login.email) /\ users[login'.token].active
<1> DEFINE known == {i \in WithEmail(login.email) : login.right /\ users[i].active}
           t == IF known = {} THEN NoId ELSE CHOOSE i \in known : TRUE
<1>1. login.st = "sent" /\ login' = [login EXCEPT !.st = "done", !.token = t]
  BY DEF LoginReads
<1>2. login \in LoginType
  BY <1>1 DEF TypeOK, UsersTypeOK, Quiet
<1>3. t = NoId \/ t \in known
  OBVIOUS
<1>4. known \subseteq Ids
  BY DEF TypeOK, UsersTypeOK, WithEmail
<1> HIDE DEF t
<1>5. t \in Ids \cup {NoId}
  BY <1>3, <1>4
<1>6. /\ login' \in LoginType /\ login'.st = "done" /\ login'.token = t
      /\ login'.wasBlocked = login.wasBlocked
  BY <1>1, <1>2, <1>5 DEF LoginType
<1> QED
  BY <1>1, <1>2, <1>3, <1>6

\* What a write is about changes only when its row gets its id.
LEMMA WriteIs ==
  ASSUME write \in WriteType, NEW x \in {"sent", "flushed", "ok", "bad"}
  PROVE  /\ [write EXCEPT !.st = x] \in WriteType
         /\ [write EXCEPT !.st = x].st = x
         /\ [write EXCEPT !.st = x].op = write.op
         /\ [write EXCEPT !.st = x].email = write.email
         /\ [write EXCEPT !.st = x].id = write.id
         /\ [write EXCEPT !.st = x].heard = write.heard
BY DEF WriteType

LEMMA FlushIs ==
  ASSUME TypeOK, WriteFlushes
  PROVE  /\ write \in WriteType /\ write.st = "sent"
         /\ write' \in WriteType /\ write'.st = "flushed"
         /\ write'.op = write.op /\ write'.email = write.email /\ write'.heard = write.heard
         /\ write.op = "create" => write'.id \in Ids \ Drawn /\ WithEmail(write.email) = {}
         /\ write.op = "deactivate" => write'.id = write.id
<1> DEFINE i == IF write.op = "create" THEN NextId ELSE write.id
<1>1. /\ write.st = "sent" /\ write' = [write EXCEPT !.st = "flushed", !.id = i]
      /\ write.op = "create" => HasRoom /\ WithEmail(write.email) = {}
  BY DEF WriteFlushes
<1>2. write \in WriteType
  BY <1>1 DEF TypeOK, UsersTypeOK, Quiet
<1>3. /\ write.op = "create" => i \in Ids \ Drawn
      /\ write.op = "deactivate" => i = write.id
      /\ write.op \in {"create", "deactivate"}
  BY <1>1, <1>2, NextIdIsNew DEF WriteType
<1> HIDE DEF i
<1>4. i \in Ids \cup {NoId}
  BY <1>2, <1>3 DEF WriteType
<1>5. /\ write' \in WriteType /\ write'.st = "flushed" /\ write'.id = i
      /\ write'.op = write.op /\ write'.email = write.email /\ write'.heard = write.heard
  BY <1>1, <1>2, <1>4 DEF WriteType
<1> QED
  BY <1>1, <1>2, <1>3, <1>5

LEMMA SessionTypes ==
  TypeOK /\ (SessionStep \/ UNCHANGED vars) =>
    /\ login' = Quiet \/ login' \in LoginType
    /\ fetches' \in Seq(FetchType)
    /\ token' \in Ids \cup {NoToken} /\ user' \in Ids \cup {NoId} /\ crossed' \in BOOLEAN
<1> DEFINE T == /\ login' = Quiet \/ login' \in LoginType
                /\ fetches' \in Seq(FetchType)
                /\ token' \in Ids \cup {NoToken} /\ user' \in Ids \cup {NoId}
                /\ crossed' \in BOOLEAN
<1> SUFFICES ASSUME TypeOK, SessionStep \/ UNCHANGED vars PROVE T
  OBVIOUS
<1> USE DEF TypeOK, UsersTypeOK, tabVars, NoToken
<1>1. CASE LoginReads /\ UNCHANGED tabVars
  <2>1. login' \in LoginType
    BY <1>1, LoginReadsIs
  <2> QED
    BY <1>1, <2>1 DEF LoginReads
<1>2. ASSUME NEW k \in DOMAIN fetches, FetchReads(k), UNCHANGED tabVars PROVE T
  <2>1. fetches' \in Seq(FetchType)
    BY <1>2, FetchReadsIs
  <2> QED
    BY <1>2, <2>1 DEF FetchReads
<1>3. ASSUME NEW e \in Emails, NEW right \in BOOLEAN, Submit(e, right) PROVE T
  <2>1. login' \in LoginType
    BY <1>3 DEF Submit, LoginType
  <2> QED
    BY <1>3, <2>1 DEF Submit
<1>4. CASE LoginAnswered
  <2>1. login.token \in Ids
    BY <1>4 DEF LoginAnswered, LoginType, Quiet
  <2>2. Fetch(login.token, "redirect") \in FetchType
    BY <2>1, FetchIs
  <2>3. Append(fetches, Fetch(login.token, "redirect")) \in Seq(FetchType)
    BY <2>2
  <2> QED
    BY <1>4, <2>1, <2>3 DEF LoginAnswered
<1>5. CASE LoginFails
  BY <1>5 DEF LoginFails
<1>6. ASSUME NEW k \in DOMAIN fetches, FetchAnswered(k) \/ FetchLost(k) PROVE T
  <2>1. PICK ok \in BOOLEAN : FetchEnds(k, ok)
    BY <1>6, FetchOvers DEF FetchOver
  <2>2. /\ UNCHANGED login /\ fetches' \in Seq(FetchType)
        /\ ok => user' = fetches[k].token /\ UNCHANGED <<token, crossed>>
        /\ ~ok => /\ token' = NoToken /\ user' = NoId
                  /\ crossed' = (fetches' # << >>)
    BY <2>1, FetchEndsFacts DEF Carries
  <2>3. fetches[k] \in FetchType
    OBVIOUS
  <2> QED
    BY <2>2, <2>3 DEF FetchType
<1>7. CASE Logout
  BY <1>7, Cancels DEF Logout, LogsOut
<1>8. CASE Reload
  <2>1. fetches' \in Seq(FetchType)
    BY <1>8, ReloadFacts DEF Carries
  <2> QED
    BY <1>8, <2>1 DEF Reload
<1>9. ASSUME NEW v \in {"chat", "admin"}, GoTo(v) PROVE T
  <2>1. fetches' \in Seq(FetchType)
    BY <1>9, GoToFacts DEF Carries
  <2> QED
    BY <1>9, <2>1 DEF GoTo
<1>10. CASE CancelKey
  <2>1. fetches' \in Seq(FetchType)
    BY <1>10, CancelFacts DEF Carries
  <2> QED
    BY <1>10, <2>1 DEF CancelKey
<1>11. CASE UNCHANGED vars
  BY <1>11 DEF vars, userVars
<1> QED
  BY <1>1, <1>2, <1>3, <1>4, <1>5, <1>6, <1>7, <1>8, <1>9, <1>10, <1>11 DEF SessionStep
-----------------------------------------------------------------------------
(***************************************************************************)
(* Each part of the invariant is kept.                                     *)
(***************************************************************************)

LEMMA TypeStep == TypeOK /\ TableInv /\ ViewInv /\ ListInv /\ [Next]_vars => TypeOK'
<1> SUFFICES ASSUME TypeOK, TableInv, ViewInv, ListInv, [Next]_vars PROVE TypeOK'
  OBVIOUS
<1> USE DEF TypeOK, UsersTypeOK, tabVars, userVars
<1>1. CASE (SessionStep \/ UNCHANGED vars) /\ Moves
  <2>1. UNCHANGED <<users, adminKey>>
    BY <1>1 DEF Moves
  <2>2. listing'.st \in {"none", "sent", "ok", "bad"}
    BY <1>1, MoveFacts DEF Quiet
  <2>3. DOMAIN shown' \subseteq Ids /\ \A i \in DOMAIN shown' : shown'[i] \in BOOLEAN
    BY <1>1, MoveFacts DEF Nobody
  <2>4. /\ view' \in {"login", "chat", "admin", "blank"} /\ dialog' \in BOOLEAN
        /\ view' # "admin" => ~dialog' /\ DOMAIN shown' = {}
        /\ write' = Quiet \/ write' \in WriteType
    BY <1>1, MoveFacts
  <2>5. /\ login' = Quiet \/ login' \in LoginType
        /\ fetches' \in Seq(FetchType)
        /\ token' \in Ids \cup {NoToken} /\ user' \in Ids \cup {NoId} /\ crossed' \in BOOLEAN
    BY <1>1, SessionTypes
  <2> QED
    BY <2>1, <2>2, <2>3, <2>4, <2>5
<1>2. CASE Closes
  BY <1>2 DEF Closes
<1>3. CASE UNCHANGED tabVars /\ ListReads
  BY <1>3 DEF ListReads
<1>4. CASE UNCHANGED tabVars /\ WriteRefused
  <2>1. write' \in WriteType
    BY <1>4, WriteIs DEF WriteRefused, Quiet
  <2> QED
    BY <1>4, <2>1 DEF WriteRefused
<1>5. CASE UNCHANGED tabVars /\ WriteFlushes
  <2>1. write' \in WriteType
    BY <1>5, FlushIs
  <2> QED
    BY <1>5, <2>1 DEF WriteFlushes
<1>6. CASE UNCHANGED tabVars /\ WriteCommits
  <2>1. write.st = "flushed" /\ write \in WriteType /\ write' = [write EXCEPT !.st = "ok"]
    BY <1>6 DEF WriteCommits, Quiet
  <2>2. write' \in WriteType
    BY <2>1, WriteIs
  <2>3. DOMAIN users' \subseteq Ids /\ \A i \in DOMAIN users' : users'[i] \in RowType
    <3>1. CASE write.op = "create"
      <4>1. /\ write.id \in Ids \ DOMAIN users /\ Insert(write.id, write.email, write.role)
            /\ write.email \in Emails /\ write.role \in {"user", "admin"}
        BY <1>6, <2>1, <3>1 DEF WriteCommits, TableInv, WriteType
      <4>2. /\ DOMAIN users' = DOMAIN users \cup {write.id}
            /\ \A i \in DOMAIN users' : users'[i] \in RowType
        BY <4>1, InsertIs DEF Insert
      <4> QED
        BY <4>1, <4>2
    <3>2. CASE write.op = "deactivate"
      <4>1. write.id \in DOMAIN users /\ Deactivate(write.id)
        BY <1>6, <2>1, <3>2 DEF WriteCommits, TableInv
      <4> QED
        BY <4>1, DeactivateIs
    <3> QED
      BY <2>1, <3>1, <3>2 DEF WriteType
  <2> QED
    BY <1>6, <2>2, <2>3 DEF WriteCommits
<1>7. CASE UNCHANGED tabVars /\ CommitFails
  <2>1. write' \in WriteType
    BY <1>7, WriteIs DEF CommitFails, Quiet
  <2> QED
    BY <1>7, <2>1 DEF CommitFails
<1>8. ASSUME NEW e \in Emails, UNCHANGED tabVars, CreateElsewhere(e) PROVE TypeOK'
  <2>1. NextId \in Ids \ DOMAIN users /\ Insert(NextId, e, "user")
    BY <1>8, NextIdIsNew DEF CreateElsewhere, Drawn
  <2>2. DOMAIN users' \subseteq Ids /\ \A i \in DOMAIN users' : users'[i] \in RowType
    BY <2>1, InsertIs
  <2> QED
    BY <1>8, <2>2 DEF CreateElsewhere
<1>9. ASSUME NEW i \in DOMAIN users, UNCHANGED tabVars, DeactivateElsewhere(i) PROVE TypeOK'
  <2>1. DOMAIN users' \subseteq Ids /\ \A j \in DOMAIN users' : users'[j] \in RowType
    BY <1>9, DeactivateIs DEF DeactivateElsewhere
  <2> QED
    BY <1>9, <2>1 DEF DeactivateElsewhere
<1>10. CASE OpenChangeKey
  BY <1>10 DEF OpenChangeKey
<1>11. ASSUME NEW key \in Keys \ {""}, SubmitKey(key) PROVE TypeOK'
  BY <1>11 DEF SubmitKey
<1>12. ASSUME NEW e \in Emails, NEW role \in NewRoles, Create(e, role) PROVE TypeOK'
  <2>1. write' \in WriteType
    BY <1>12, AccountsAssumption DEF Create, Writes, WriteType
  <2> QED
    BY <1>12, <2>1 DEF Create, Writes
<1>13. ASSUME NEW i \in DOMAIN shown, Block(i) PROVE TypeOK'
  <2>1. users[i] \in RowType
    BY DEF ListInv, ListIsTrue
  <2>2. write' \in WriteType
    BY <1>13, <2>1 DEF Block, Writes, WriteType, RowType
  <2> QED
    BY <1>13, <2>2 DEF Block, Writes
<1>14. CASE ListAnswered
  <2>1. view = "admin"
    BY <1>14 DEF ListAnswered, ViewInv
  <2> QED
    BY <1>14, <2>1 DEF ListAnswered, ListInv, Quiet
<1>15. CASE ListFails
  BY <1>15 DEF ListFails, Quiet
<1>16. CASE WriteAnswered
  <2>1. write \in WriteType /\ write.st = "ok" /\ write' = Quiet
    BY <1>16 DEF WriteAnswered, Quiet
  <2>2. CASE ~write.heard
    BY <1>16, <2>1, <2>2 DEF WriteAnswered
  <2>3. CASE write.heard /\ write.op = "create"
    <3>1. write.id \in Ids /\ view = "admin"
      BY <2>1, <2>3 DEF TableInv, ViewInv
    <3>2. shown' = [i \in DOMAIN shown \cup {write.id} |->
                      IF i = write.id THEN TRUE ELSE shown[i]]
      BY <1>16, <2>3 DEF WriteAnswered
    <3>3. /\ DOMAIN shown' = DOMAIN shown \cup {write.id}
          /\ \A i \in DOMAIN shown' : shown'[i] = IF i = write.id THEN TRUE ELSE shown[i]
      BY <3>2
    <3> QED
      BY <1>16, <2>1, <3>1, <3>3 DEF WriteAnswered
  <2>4. CASE write.heard /\ write.op = "deactivate"
    <3>1. view = "admin"
      BY <2>1, <2>4 DEF ViewInv
    <3>2. shown' = [i \in DOMAIN shown |-> shown[i] /\ i # write.id]
      BY <1>16, <2>4 DEF WriteAnswered
    <3>3. /\ DOMAIN shown' = DOMAIN shown
          /\ \A i \in DOMAIN shown' : shown'[i] \in BOOLEAN
      BY <3>2
    <3> QED
      BY <1>16, <2>1, <3>1, <3>3 DEF WriteAnswered
  <2> QED
    BY <2>1, <2>2, <2>3, <2>4 DEF WriteType
<1>17. CASE WriteFails
  BY <1>17 DEF WriteFails
<1>18. CASE TableStep
  BY <1>2, <1>3, <1>4, <1>5, <1>6, <1>7, <1>8, <1>9, <1>10, <1>11, <1>12, <1>13, <1>14,
     <1>15, <1>16, <1>17, <1>18 DEF TableStep
<1> QED
  BY <1>1, <1>2, <1>18, Kinds, SessionMoves

\* A row for an address that no row has leaves one row per address.
LEMMA FreshRow ==
  ASSUME TypeOK, TableInv, NEW new \in Ids \ DOMAIN users, NEW e \in Emails,
         NEW role \in {"user", "admin"}, WithEmail(e) = {}, Insert(new, e, role)
  PROVE  (\A i \in DOMAIN users : users[i].email.form = "lower")' /\ OneRowPerAddress'
<1>1. /\ DOMAIN users' = DOMAIN users \cup {new}
      /\ \A i \in DOMAIN users : users'[i] = users[i]
      /\ users'[new].email = Lower(e)
  BY InsertIs
<1>2. Lower(e) \in Emails /\ Lower(e).form = "lower"
  BY Lowered
<1>3. ASSUME NEW i \in DOMAIN users PROVE users[i].email.address # Lower(e).address
  <2>1. users[i].email # Lower(e)
    BY DEF WithEmail
  <2>2. users[i].email \in Emails /\ users[i].email.form = "lower"
    BY DEF TypeOK, UsersTypeOK, RowType, TableInv
  <2> QED
    BY <1>2, <2>1, <2>2, SameAddress
<1>4. OneRowPerAddress'
  BY <1>1, <1>3 DEF OneRowPerAddress, TableInv
<1> QED
  BY <1>1, <1>2, <1>4 DEF TableInv

LEMMA TableKept == TypeOK /\ TableInv /\ ListInv /\ [Next]_vars => TableInv'
<1> SUFFICES ASSUME TypeOK, TableInv, ListInv, [Next]_vars PROVE TableInv'
  OBVIOUS
<1>0. (write = Quiet /\ write.st = "none") \/ (write \in WriteType /\ write.st # "none")
  BY DEF TypeOK, UsersTypeOK, WriteType, Quiet
<1>1. CASE Moves
  <2>1. UNCHANGED users
    BY <1>1 DEF Moves
  <2>2. /\ write'.st = write.st
        /\ write.st # "none" => /\ write'.op = write.op /\ write'.email = write.email
                                /\ write'.id = write.id
    BY <1>1, MoveFacts
  <2> QED
    BY <2>1, <2>2 DEF TableInv, OneRowPerAddress, WithEmail
<1>2. CASE UNCHANGED <<users, write>>
  BY <1>2 DEF TableInv, OneRowPerAddress, WithEmail
<1>3. CASE write' = Quiet /\ UNCHANGED users
  BY <1>3 DEF TableInv, OneRowPerAddress, Quiet
<1>4. CASE (WriteRefused \/ CommitFails) /\ UNCHANGED users
  <2>1. write \in WriteType /\ write' = [write EXCEPT !.st = "bad"]
    BY <1>0, <1>4 DEF WriteRefused, CommitFails
  <2>2. write'.st = "bad" /\ write'.op = write.op /\ write'.id = write.id
    BY <2>1, WriteIs
  <2>3. write.st # "none"
    BY <1>4 DEF WriteRefused, CommitFails
  <2>4. /\ \A i \in DOMAIN users : users[i].email.form = "lower"
        /\ OneRowPerAddress
        /\ write.op = "deactivate" => write.id \in DOMAIN users
    BY <2>3 DEF TableInv
  <2>5. (\A i \in DOMAIN users : users[i].email.form = "lower")' /\ OneRowPerAddress'
    BY <1>4, <2>4 DEF OneRowPerAddress
  <2> QED
    BY <1>4, <2>2, <2>4, <2>5 DEF TableInv
<1>5. CASE WriteFlushes
  <2>1. /\ write.st = "sent" /\ write'.st = "flushed"
        /\ write'.op = write.op /\ write'.email = write.email
        /\ write.op = "create" => write'.id \in Ids \ Drawn /\ WithEmail(write.email) = {}
        /\ write.op = "deactivate" => write'.id = write.id
    BY <1>5, FlushIs
  <2>2. UNCHANGED users /\ DOMAIN users \subseteq Drawn
    BY <1>5 DEF WriteFlushes, Drawn
  <2> QED
    BY <2>1, <2>2 DEF TableInv, OneRowPerAddress, WithEmail
<1>6. CASE WriteCommits
  <2>1. write.st = "flushed" /\ write \in WriteType /\ write' = [write EXCEPT !.st = "ok"]
    BY <1>0, <1>6 DEF WriteCommits
  <2>2. write'.st = "ok" /\ write'.op = write.op /\ write'.id = write.id
    BY <2>1, WriteIs
  <2>3. CASE write.op = "create"
    <3>1. /\ write.id \in Ids \ DOMAIN users /\ Insert(write.id, write.email, write.role)
          /\ write.email \in Emails /\ write.role \in {"user", "admin"}
          /\ WithEmail(write.email) = {}
      BY <1>6, <2>1, <2>3 DEF WriteCommits, TableInv, WriteType
    <3>2. (\A i \in DOMAIN users : users[i].email.form = "lower")' /\ OneRowPerAddress'
      BY <3>1, FreshRow DEF Insert
    <3>3. write.id \in DOMAIN users'
      BY <3>1 DEF Insert
    <3> QED
      BY <2>2, <2>3, <3>2, <3>3 DEF TableInv
  <2>4. CASE write.op = "deactivate"
    <3>1. write.id \in DOMAIN users /\ Deactivate(write.id)
      BY <1>6, <2>1, <2>4 DEF WriteCommits, TableInv
    <3>2. /\ DOMAIN users' = DOMAIN users /\ users'[write.id].active = FALSE
          /\ \A j \in DOMAIN users : users'[j].email = users[j].email
      BY <3>1, DeactivateIs
    <3> QED
      BY <2>2, <2>4, <3>1, <3>2 DEF TableInv, OneRowPerAddress
  <2> QED
    BY <2>1, <2>3, <2>4 DEF WriteType
<1>7. ASSUME NEW e \in Emails, CreateElsewhere(e) PROVE TableInv'
  <2>1. /\ NextId \in Ids \ Drawn /\ Insert(NextId, e, "user") /\ WithEmail(e) = {}
        /\ UNCHANGED write
        /\ write.st = "flushed" /\ write.op = "create" => Lower(write.email) # Lower(e)
    BY <1>7, NextIdIsNew DEF CreateElsewhere
  <2>2. NextId \in Ids \ DOMAIN users
    BY <2>1 DEF Drawn
  <2>3. (\A i \in DOMAIN users : users[i].email.form = "lower")' /\ OneRowPerAddress'
    BY <2>1, <2>2, FreshRow
  <2>4. /\ DOMAIN users' = DOMAIN users \cup {NextId}
        /\ \A i \in DOMAIN users : users'[i] = users[i]
        /\ users'[NextId].email = Lower(e)
    BY <2>1, <2>2, InsertIs
  <2>5. write.st = "flushed" => write.id # NextId
    BY <2>1 DEF Drawn
  <2> QED
    BY <2>1, <2>3, <2>4, <2>5 DEF TableInv, WithEmail
<1>8. ASSUME NEW i \in DOMAIN users, DeactivateElsewhere(i) PROVE TableInv'
  <2>1. Deactivate(i) /\ UNCHANGED write
    BY <1>8 DEF DeactivateElsewhere
  <2>2. /\ DOMAIN users' = DOMAIN users
        /\ \A j \in DOMAIN users : users'[j].email = users[j].email
        /\ \A j \in DOMAIN users : ~users[j].active => ~users'[j].active
    BY <2>1, DeactivateIs
  <2> QED
    BY <2>1, <2>2 DEF TableInv, OneRowPerAddress, WithEmail
<1>9. ASSUME NEW e \in Emails, NEW role \in NewRoles, Create(e, role) PROVE TableInv'
  <2>1. UNCHANGED users /\ write'.st = "sent" /\ write'.op = "create"
    BY <1>9 DEF Create, Writes
  <2> QED
    BY <2>1 DEF TableInv, OneRowPerAddress
<1>10. ASSUME NEW i \in DOMAIN shown, Block(i) PROVE TableInv'
  <2>1. /\ UNCHANGED users /\ write'.st = "sent" /\ write'.op = "deactivate" /\ write'.id = i
        /\ i \in DOMAIN users
    BY <1>10 DEF Block, Writes, ListInv, ListIsTrue
  <2> QED
    BY <2>1 DEF TableInv, OneRowPerAddress
<1>11. CASE TableStep
  BY <1>2, <1>3, <1>4, <1>5, <1>6, <1>7, <1>8, <1>9, <1>10, <1>11
  DEF TableStep, ListReads, OpenChangeKey, Closes, userVars, SubmitKey, ListAnswered, ListFails,
      WriteAnswered, WriteFails, WriteRefused, CommitFails
<1> QED
  BY <1>1, <1>2, <1>11, Kinds, SessionMoves DEF Closes, userVars

LEMMA ViewKept == TypeOK /\ ViewInv /\ [Next]_vars => ViewInv'
<1> SUFFICES ASSUME TypeOK, ViewInv, [Next]_vars PROVE ViewInv'
  OBVIOUS
<1>0. (write = Quiet /\ write.st = "none") \/ (write \in WriteType /\ write.st # "none")
  BY DEF TypeOK, UsersTypeOK, WriteType, Quiet
<1> USE DEF ViewInv, KeyOrDialog, tabVars, userVars
<1>1. CASE Moves
  <2>1. CASE view' = "admin" /\ shown' = Nobody /\ LoadUsers /\ UNCHANGED write
    BY <1>1, <2>1 DEF LoadUsers, Moves
  <2>2. CASE view' \in {"login", "chat", "blank"} /\ Unmount
    <3>1. write \in WriteType => ~[write EXCEPT !.heard = FALSE].heard
      BY DEF WriteType
    <3> QED
      BY <1>0, <2>2, <3>1 DEF Unmount, Quiet
  <2>3. CASE /\ view' \in {"login", "chat", "blank"} /\ view # "admin"
             /\ UNCHANGED <<dialog, shown, listing, write>>
    BY <2>3
  <2>4. CASE Stays
    BY <1>1, <2>4 DEF Stays, Moves
  <2> QED
    BY <1>1, <2>1, <2>2, <2>3, <2>4 DEF Moves, Lands
<1>2. CASE Closes
  BY <1>2 DEF Closes
<1>3. CASE UNCHANGED tabVars /\ ListReads
  BY <1>3 DEF ListReads
<1>4. CASE UNCHANGED tabVars /\ (WriteRefused \/ CommitFails \/ WriteCommits)
  <2>1. write.st # "none"
    BY <1>4 DEF WriteRefused, CommitFails, WriteCommits
  <2>2. write'.heard = write.heard
    BY <1>0, <1>4, <2>1, WriteIs DEF WriteRefused, CommitFails, WriteCommits
  <2>3. UNCHANGED listing
    BY <1>4 DEF WriteRefused, CommitFails, WriteCommits
  <2> QED
    BY <1>4, <2>1, <2>2, <2>3
<1>5. CASE UNCHANGED tabVars /\ WriteFlushes
  BY <1>5, FlushIs DEF WriteFlushes
<1>6. ASSUME NEW e \in Emails, UNCHANGED tabVars, CreateElsewhere(e) PROVE ViewInv'
  BY <1>6 DEF CreateElsewhere
<1>7. ASSUME NEW i \in DOMAIN users, UNCHANGED tabVars, DeactivateElsewhere(i) PROVE ViewInv'
  BY <1>7 DEF DeactivateElsewhere
<1>8. CASE OpenChangeKey
  BY <1>8 DEF OpenChangeKey
<1>9. ASSUME NEW key \in Keys \ {""}, SubmitKey(key) PROVE ViewInv'
  BY <1>9 DEF SubmitKey, TypeOK
<1>10. ASSUME NEW e \in Emails, NEW role \in NewRoles, Create(e, role) PROVE ViewInv'
  BY <1>10 DEF Create, Writes
<1>11. ASSUME NEW i \in DOMAIN shown, Block(i) PROVE ViewInv'
  BY <1>11 DEF Block, Writes
<1>12. CASE ListAnswered \/ ListFails
  BY <1>12 DEF ListAnswered, ListFails, Quiet
<1>13. CASE WriteAnswered \/ WriteFails
  <2>1. UNCHANGED <<view, adminKey, dialog, listing>> /\ write' = Quiet
    BY <1>13 DEF WriteAnswered, WriteFails
  <2> QED
    BY <2>1 DEF Quiet
<1>14. CASE TableStep
  BY <1>2, <1>3, <1>4, <1>5, <1>6, <1>7, <1>8, <1>9, <1>10, <1>11, <1>12, <1>13, <1>14
  DEF TableStep
<1> QED
  BY <1>1, <1>2, <1>14, Kinds, SessionMoves

LEMMA ListKept == TypeOK /\ TableInv /\ ListInv /\ [Next]_vars => ListInv'
<1> SUFFICES ASSUME TypeOK, TableInv, ListInv, [Next]_vars PROVE ListInv'
  OBVIOUS
<1>0. /\ DOMAIN users \subseteq DOMAIN users'
      /\ \A i \in DOMAIN users : users'[i].active => users[i].active
  BY Grows
<1>1. CASE Moves
  <2>1. UNCHANGED users /\ shown' \in {shown, Nobody}
    BY <1>1, MoveFacts DEF Moves
  <2>2. listing' = listing \/ listing'.st # "ok"
    BY <1>1, MoveFacts DEF Quiet
  <2> QED
    BY <2>1, <2>2 DEF ListInv, ListIsTrue, Nobody
<1>2. CASE UNCHANGED <<shown, listing>>
  BY <1>0, <1>2 DEF ListInv, ListIsTrue
<1>3. CASE ListReads /\ UNCHANGED tabVars
  <2>1. UNCHANGED <<users, shown>>
    BY <1>3 DEF ListReads, tabVars
  <2>2. CASE listing.key # "right"
    <3>1. listing'.st = "bad"
      BY <1>3, <2>2 DEF ListReads
    <3> QED
      BY <2>1, <3>1 DEF ListInv, ListIsTrue
  <2>3. CASE listing.key = "right"
    <3>1. listing' = [st |-> "ok", rows |-> [i \in DOMAIN users |-> users[i].active]]
      BY <1>3, <2>3 DEF ListReads
    <3>2. /\ DOMAIN listing'.rows = DOMAIN users
          /\ \A i \in DOMAIN users : listing'.rows[i] = users[i].active
      BY <3>1
    <3>3. \A i \in DOMAIN users : users[i].active \in BOOLEAN
      BY DEF TypeOK, UsersTypeOK, RowType
    <3> QED
      BY <2>1, <3>2, <3>3 DEF ListInv, ListIsTrue
  <2> QED
    BY <2>2, <2>3
<1>4. ASSUME NEW key \in Keys \ {""}, SubmitKey(key) PROVE ListInv'
  BY <1>4 DEF SubmitKey, ListInv, ListIsTrue
<1>5. CASE ListAnswered
  BY <1>5 DEF ListAnswered, ListInv, ListIsTrue, Quiet
<1>6. CASE ListFails
  BY <1>6 DEF ListFails, tabVars, ListInv, ListIsTrue, Quiet
<1>7. CASE WriteAnswered
  <2>1. /\ write \in WriteType /\ write.st = "ok" /\ UNCHANGED <<users, listing>>
    BY <1>7 DEF WriteAnswered, Quiet, TypeOK, UsersTypeOK
  <2>2. CASE ~write.heard
    BY <1>2, <1>7, <2>2 DEF WriteAnswered
  <2>3. CASE write.heard /\ write.op = "create"
    <3>1. write.id \in DOMAIN users
      BY <2>1, <2>3 DEF TableInv
    <3>2. shown' = [i \in DOMAIN shown \cup {write.id} |->
                      IF i = write.id THEN TRUE ELSE shown[i]]
      BY <1>7, <2>3 DEF WriteAnswered
    <3>3. /\ DOMAIN shown' = DOMAIN shown \cup {write.id}
          /\ \A i \in DOMAIN shown' : shown'[i] = IF i = write.id THEN TRUE ELSE shown[i]
      BY <3>2
    <3>4. ListIsTrue'
      BY <2>1, <3>1, <3>3 DEF ListInv, ListIsTrue
    <3> QED
      BY <2>1, <3>4 DEF ListInv
  <2>4. CASE write.heard /\ write.op = "deactivate"
    <3>1. ~users[write.id].active
      BY <2>1, <2>4 DEF TableInv
    <3>2. shown' = [i \in DOMAIN shown |-> shown[i] /\ i # write.id]
      BY <1>7, <2>4 DEF WriteAnswered
    <3>3. /\ DOMAIN shown' = DOMAIN shown
          /\ \A i \in DOMAIN shown' : shown'[i] <=> shown[i] /\ i # write.id
      BY <3>2
    <3>4. ListIsTrue'
      BY <2>1, <3>1, <3>3 DEF ListInv, ListIsTrue
    <3> QED
      BY <2>1, <3>4 DEF ListInv
  <2> QED
    BY <2>1, <2>2, <2>3, <2>4 DEF WriteType
<1>8. CASE TableStep
  BY <1>2, <1>3, <1>4, <1>5, <1>6, <1>7, <1>8
  DEF TableStep, tabVars, userVars, OpenChangeKey, Closes, WriteRefused, WriteFlushes,
      WriteCommits, CommitFails, CreateElsewhere, DeactivateElsewhere, Create, Block, Writes,
      WriteFails
<1> QED
  BY <1>1, <1>2, <1>8, Kinds, SessionMoves DEF Closes, userVars

LEMMA SessionKept == TypeOK /\ TableInv /\ SessionInv /\ [Next]_vars => SessionInv'
<1> SUFFICES ASSUME TypeOK, TableInv, SessionInv, [Next]_vars PROVE SessionInv'
  OBVIOUS
<1> DEFINE LoginPart ==
             /\ login.st = "sent" /\ login.wasBlocked =>
                  \E i \in DOMAIN users : users[i].email = Lower(login.email) /\ ~users[i].active
             /\ login.st = "done" /\ login.wasBlocked => login.token = NoId
           FetchPart ==
             \A k \in DOMAIN fetches :
               /\ fetches[k].st = "ok" => ~fetches[k].wasBlocked
               /\ fetches[k].st = "sent" /\ fetches[k].wasBlocked => IsBlocked(fetches[k].token)
<1>1. /\ DOMAIN users \subseteq DOMAIN users'
      /\ \A i \in DOMAIN users : /\ users'[i].email = users[i].email
                                 /\ users'[i].active => users[i].active
  BY Grows
<1>2. LoginPart /\ FetchPart
  BY DEF SessionInv, BlockedStaysOut
<1>3. SUFFICES LoginPart' /\ FetchPart'
  BY DEF SessionInv, BlockedStaysOut
<1>4. ASSUME UNCHANGED login \/ login' = Quiet PROVE LoginPart'
  <2>1. CASE UNCHANGED login
    BY <1>1, <1>2, <2>1 DEF Lower
  <2>2. CASE login' = Quiet
    BY <2>2 DEF Quiet
  <2> QED
    BY <1>4, <2>1, <2>2
<1>5. ASSUME UNCHANGED fetches PROVE FetchPart'
  BY <1>1, <1>2, <1>5 DEF IsBlocked
<1>6. ASSUME UNCHANGED users, Carries(fetches) \/ Carries(<< >>) PROVE FetchPart'
  <2>1. \A i : IsBlocked(i)' <=> IsBlocked(i)
    BY <1>6 DEF IsBlocked
  <2> SUFFICES ASSUME NEW k \in DOMAIN fetches'
               PROVE  /\ fetches'[k].st = "ok" => ~fetches'[k].wasBlocked
                      /\ fetches'[k].st = "sent" /\ fetches'[k].wasBlocked =>
                           IsBlocked(fetches'[k].token)
    BY <2>1
  <2>2. ASSUME NEW j \in DOMAIN fetches,
               /\ fetches'[k].st = fetches[j].st
               /\ fetches'[k].token = fetches[j].token
               /\ fetches'[k].wasBlocked = fetches[j].wasBlocked
        PROVE  /\ fetches'[k].st = "ok" => ~fetches'[k].wasBlocked
               /\ fetches'[k].st = "sent" /\ fetches'[k].wasBlocked =>
                    IsBlocked(fetches'[k].token)
    BY <1>2, <2>2
  <2>3. CASE /\ fetches'[k].st = "sent" /\ fetches'[k].token = token'
             /\ fetches'[k].wasBlocked = IsBlocked(token')
    BY <2>3
  <2> QED
    BY <1>6, <2>2, <2>3 DEF Carries
<1>7. CASE LoginReads /\ UNCHANGED tabVars
  <2>1. /\ login.st = "sent" /\ login'.st = "done" /\ login'.wasBlocked = login.wasBlocked
        /\ login'.token # NoId =>
             login'.token \in WithEmail(login.email) /\ users[login'.token].active
    BY <1>7, LoginReadsIs
  <2>2. ASSUME login.wasBlocked, login'.token # NoId PROVE FALSE
    <3>1. PICK i \in DOMAIN users : users[i].email = Lower(login.email) /\ ~users[i].active
      BY <1>2, <2>1, <2>2
    <3>2. login'.token \in DOMAIN users /\ users[login'.token].email = Lower(login.email)
      BY <2>1, <2>2 DEF WithEmail
    <3>3. login'.token = i
      BY <3>1, <3>2 DEF TableInv, OneRowPerAddress
    <3> QED
      BY <2>1, <2>2, <3>1, <3>3
  <2>3. UNCHANGED fetches
    BY <1>7 DEF LoginReads
  <2> QED
    BY <1>5, <2>1, <2>2, <2>3
<1>8. ASSUME NEW k \in DOMAIN fetches, FetchReads(k), UNCHANGED tabVars
      PROVE  LoginPart' /\ FetchPart'
  <2>1. UNCHANGED <<users, login>>
    BY <1>8 DEF FetchReads
  <2>2. /\ DOMAIN fetches' = DOMAIN fetches
        /\ \A j \in DOMAIN fetches : /\ fetches'[j].token = fetches[j].token
                                     /\ fetches'[j].wasBlocked = fetches[j].wasBlocked
        /\ \A j \in DOMAIN fetches \ {k} : fetches'[j].st = fetches[j].st
        /\ fetches[k].st = "sent"
        /\ fetches'[k].st = "bad" \/ (fetches'[k].st = "ok" /\ Admits(fetches[k].token))
    BY <1>8, FetchReadsIs
  <2>3. FetchPart'
    BY <1>2, <2>1, <2>2 DEF IsBlocked, Admits
  <2> QED
    BY <1>4, <2>1, <2>3
<1>9. ASSUME NEW e \in Emails, NEW right \in BOOLEAN, Submit(e, right)
      PROVE  LoginPart' /\ FetchPart'
  <2>1. /\ login'.st = "sent" /\ login'.email = e
        /\ login'.wasBlocked <=> \E i \in WithEmail(e) : IsBlocked(i)
        /\ UNCHANGED <<users, fetches>>
    BY <1>9 DEF Submit
  <2>2. LoginPart'
    BY <2>1 DEF WithEmail, IsBlocked, Lower
  <2> QED
    BY <1>5, <2>1, <2>2
<1>10. CASE LoginAnswered
  <2>1. /\ login' = Quiet /\ UNCHANGED users /\ token' = login.token /\ login.token \in Ids
        /\ fetches' = Append(fetches, Fetch(token', "redirect"))
    BY <1>10 DEF LoginAnswered, TypeOK, UsersTypeOK, LoginType, Quiet
  <2>2. fetches \in Seq(FetchType) /\ token' # NoToken /\ token' \in Ids \cup {NoToken}
    BY <1>10, <2>1 DEF LoginAnswered, NoToken, TypeOK, UsersTypeOK
  <2>3. Carries(fetches)
    BY <2>1, <2>2, CarriesOn
  <2> QED
    BY <1>4, <1>6, <2>1, <2>3
<1>11. CASE LoginFails
  BY <1>4, <1>5, <1>11 DEF LoginFails
<1>12. ASSUME NEW k \in DOMAIN fetches, FetchAnswered(k) \/ FetchLost(k)
       PROVE  LoginPart' /\ FetchPart'
  <2>1. UNCHANGED <<users, login>> /\ Carries(fetches)
    BY <1>12, FetchOvers, FetchEndsFacts DEF FetchOver
  <2> QED
    BY <1>4, <1>6, <2>1
<1>13. CASE Logout
  <2>1. /\ UNCHANGED <<users, login>> /\ token' = NoToken
        /\ fetches' = NoLongerGuards(fetches)
    BY <1>13 DEF Logout, LogsOut
  <2>2. Carries(fetches)
    BY <2>1, Cancels, CarriesOn
  <2> QED
    BY <1>4, <1>6, <2>1, <2>2
<1>14. CASE Reload
  <2>1. login' = Quiet /\ UNCHANGED users /\ Carries(<< >>)
    BY <1>14, ReloadFacts DEF Reload
  <2> QED
    BY <1>4, <1>6, <2>1
<1>15. ASSUME NEW v \in {"chat", "admin"}, GoTo(v)
       PROVE  LoginPart' /\ FetchPart'
  <2>1. UNCHANGED <<users, login>> /\ Carries(fetches)
    BY <1>15, GoToFacts DEF GoTo
  <2> QED
    BY <1>4, <1>6, <2>1
<1>16. CASE CancelKey
  <2>1. UNCHANGED <<users, login>> /\ Carries(fetches)
    BY <1>16, CancelFacts DEF CancelKey
  <2> QED
    BY <1>4, <1>6, <2>1
<1>17. CASE TableStep \/ UNCHANGED vars
  <2>1. UNCHANGED <<login, fetches>>
    BY <1>17, TableKeepsSession DEF sessionVars, vars, userVars
  <2> QED
    BY <1>4, <1>5, <2>1
<1> QED
  BY <1>7, <1>8, <1>9, <1>10, <1>11, <1>12, <1>13, <1>14, <1>15, <1>16, <1>17, Kinds
  DEF SessionStep

LEMMA ProfileKept == TypeOK /\ ProfileInv /\ [Next]_vars => ProfileInv'
<1> SUFFICES ASSUME TypeOK, ProfileInv, [Next]_vars, ~crossed' PROVE ProfileInv'
  BY DEF ProfileInv
<1> USE DEF NoToken
<1>1. NoId \notin Ids /\ fetches \in Seq(FetchType)
  BY UsersAssumption DEF NoId, TypeOK, UsersTypeOK
<1>2. CASE UNCHANGED <<token, user, crossed, view, fetches>> /\ (UNCHANGED login \/ login' = Quiet)
  BY <1>2 DEF ProfileInv
<1>3. CASE LoginReads /\ UNCHANGED tabVars
  <2>1. login # Quiet
    BY <1>3, LoginReadsIs DEF Quiet
  <2> QED
    BY <1>3, <2>1 DEF ProfileInv, LoginReads, tabVars
<1>4. ASSUME NEW k \in DOMAIN fetches, FetchReads(k), UNCHANGED tabVars
      PROVE  ProfileInv'
  <2>1. /\ DOMAIN fetches' = DOMAIN fetches
        /\ \A j \in DOMAIN fetches : /\ fetches'[j].token = fetches[j].token
                                     /\ fetches'[j].then = fetches[j].then
    BY <1>4, FetchReadsIs
  <2> QED
    BY <1>4, <2>1 DEF ProfileInv, FetchReads, tabVars
<1>5. ASSUME NEW e \in Emails, NEW right \in BOOLEAN, Submit(e, right)
      PROVE  ProfileInv'
  BY <1>5 DEF Submit, ProfileInv, tabVars
<1>6. CASE LoginAnswered
  <2>1. /\ login # Quiet /\ login' = Quiet /\ UNCHANGED <<user, crossed>> /\ token' = login.token
        /\ fetches' = Append(fetches, Fetch(login.token, "redirect"))
        /\ login.token \in Ids
    BY <1>6 DEF LoginAnswered, TypeOK, UsersTypeOK, LoginType, Quiet
  <2>2. token = NoToken /\ user = NoId /\ \A k \in DOMAIN fetches : fetches[k].token = NoToken
    BY <2>1 DEF ProfileInv
  <2>3. DOMAIN fetches = {}
    <3>1. \A k \in DOMAIN fetches : fetches[k] \in FetchType
      BY <1>1
    <3> QED
      BY <1>1, <2>2, <3>1 DEF FetchType
  <2>4. /\ Fetch(login.token, "redirect") \in FetchType
        /\ Fetch(login.token, "redirect").token = token'
        /\ Fetch(login.token, "redirect").then = "redirect"
    BY <2>1, FetchIs
  <2>5. /\ \A k \in DOMAIN fetches' : fetches'[k] = Fetch(login.token, "redirect")
        /\ \E k \in DOMAIN fetches' : fetches'[k] = Fetch(login.token, "redirect")
    BY <1>1, <2>1, <2>3, <2>4, Appended
  <2> QED
    BY <2>1, <2>2, <2>4, <2>5 DEF ProfileInv
<1>7. CASE LoginFails
  BY <1>2, <1>7 DEF LoginFails, tabVars
<1>8. ASSUME NEW k \in DOMAIN fetches, NEW ok \in BOOLEAN, FetchEnds(k, ok)
      PROVE  ProfileInv'
  <2> DEFINE left == RemoveAt(fetches, k)
  <2>1. /\ UNCHANGED login /\ Carries(fetches)
        /\ ok => user' = fetches[k].token /\ UNCHANGED <<token, crossed>>
        /\ ~ok => token' = NoToken /\ user' = NoId /\ crossed' = (fetches' # << >>)
        /\ ok /\ view' = "login" /\ token # NoToken =>
             view = "login" /\ fetches[k].then = "stay" /\ fetches' = left
    BY <1>8, FetchEndsFacts
  <2>2. CASE ok
    <3>1. /\ ~crossed /\ user' = token' /\ token' = token
          /\ \A j \in DOMAIN fetches' : fetches'[j].token = token'
      BY <2>1, <2>2 DEF ProfileInv, Carries
    <3>2. ASSUME view' = "login", token' # NoToken
          PROVE  \E j \in DOMAIN fetches' : fetches'[j].then = "redirect"
      <4>1. view = "login" /\ fetches[k].then = "stay" /\ fetches' = left
        BY <2>1, <2>2, <3>1, <3>2
      <4>2. PICK j \in DOMAIN fetches : fetches[j].then = "redirect"
        BY <3>1, <3>2, <4>1 DEF ProfileInv
      <4>3. PICK i \in DOMAIN left : left[i] = fetches[j]
        <5>1. j # k
          BY <4>1, <4>2
        <5> QED
          BY <1>1, <4>2, <5>1, Removed
      <4> QED
        BY <4>1, <4>2, <4>3
    <3> QED
      BY <2>1, <3>1, <3>2 DEF ProfileInv
  <2>3. CASE ~ok
    <3>1. token' = NoToken /\ user' = NoId /\ fetches' = << >> /\ UNCHANGED login
      BY <2>1, <2>3
    <3> QED
      BY <3>1 DEF ProfileInv
  <2> QED
    BY <2>2, <2>3
<1>9. CASE Logout
  <2>1. /\ token' = NoToken /\ user' = NoId /\ UNCHANGED login
        /\ fetches' = NoLongerGuards(fetches) /\ crossed' = (fetches' # << >>)
    BY <1>9 DEF Logout, LogsOut
  <2>2. fetches' = << >>
    BY <2>1
  <2> QED
    BY <2>1, <2>2 DEF ProfileInv
<1>10. CASE Reload
  <2>1. user' = NoId /\ login' = Quiet
    BY <1>10 DEF Reload
  <2>2. Carries(<< >>) /\ (view' = "login" => token' = NoToken)
    BY <1>10, ReloadFacts
  <2> QED
    BY <2>1, <2>2 DEF ProfileInv, Carries
<1>11. CASE /\ Carries(fetches) /\ (view' = "login" => token' = NoToken)
            /\ UNCHANGED <<login, token, user, crossed>>
  BY <1>11 DEF ProfileInv, Carries
<1>12. ASSUME NEW v \in {"chat", "admin"}, GoTo(v)
       PROVE  ProfileInv'
  BY <1>11, <1>12, GoToFacts DEF GoTo
<1>13. CASE CancelKey
  BY <1>11, <1>13, CancelFacts DEF CancelKey
<1>14. CASE TableStep \/ UNCHANGED vars
  BY <1>2, <1>14, TableKeepsSession DEF sessionVars, vars, userVars, tabVars
<1>15. ASSUME NEW k \in DOMAIN fetches, FetchAnswered(k) \/ FetchLost(k)
       PROVE  ProfileInv'
  BY <1>8, <1>15, FetchOvers DEF FetchOver
<1> QED
  BY <1>3, <1>4, <1>5, <1>6, <1>7, <1>9, <1>10, <1>12, <1>13, <1>14, <1>15, Kinds
  DEF SessionStep
-----------------------------------------------------------------------------
LEMMA Initially == Init => IInv
<1> SUFFICES ASSUME Init PROVE IInv
  OBVIOUS
<1> DEFINE first == [address |-> FirstAdmin, form |-> "lower"]
<1>1. /\ first \in Emails /\ 1 \in Ids /\ first.form = "lower"
      /\ User(first, "admin") \in RowType /\ User(first, "admin").email = first
      /\ User(first, "admin").active = TRUE
  BY UsersAssumption DEF User, RowType
<1> HIDE DEF first
<1>2. /\ users = [i \in {1} |-> User(first, "admin")]
      /\ login = Quiet /\ fetches = << >> /\ listing = Quiet /\ write = Quiet
  BY DEF Init, UsersInit, first
<1>3. DOMAIN users = {1} /\ users[1] = User(first, "admin")
  BY <1>2
<1>4. DOMAIN fetches = {} /\ fetches \in Seq(FetchType)
  BY <1>2
<1>5. TypeOK
  BY <1>1, <1>2, <1>3, <1>4 DEF Init, TypeOK, UsersTypeOK, Quiet, Nobody, Keys
<1>6. TableInv
  BY <1>1, <1>2, <1>3 DEF TableInv, OneRowPerAddress, Quiet
<1>7. SessionInv
  BY <1>2, <1>4 DEF SessionInv, BlockedStaysOut, Quiet
<1>8. ProfileInv
  BY <1>2, <1>4 DEF ProfileInv, Init, NoToken
<1>9. ViewInv /\ ListInv
  BY <1>2 DEF ViewInv, KeyOrDialog, ListInv, ListIsTrue, Init, Nobody, Quiet
<1> QED
  BY <1>5, <1>6, <1>7, <1>8, <1>9 DEF IInv

\* The invariant: every one of its parts is kept by every step of the table, of the requests
\* and of the tab.
THEOREM Invariance == Spec => []IInv
<1>1. IInv /\ [Next]_vars => IInv'
  BY TypeStep, TableKept, SessionKept, ProfileKept, ViewKept, ListKept, Zenon DEF IInv
<1> QED
  BY <1>1, Initially, PTL DEF Spec

\* Types; one row for an address, whoever creates it (user_service.py:40, :71); no admin view
\* without its key or its dialog (AdminView.vue:281-302).
THEOREM AccountsAreSound == Spec => []AccountInv
<1>1. IInv => AccountInv
  BY DEF IInv, AccountInv, TableInv, ViewInv
<1> QED
  BY <1>1, Invariance, PTL

\* Whoever was blocked when a request was sent gets neither a token nor a profile for it,
\* with any number of requests in flight (dependencies.py:89-103, user_service.py:94).
THEOREM BlockedStayOut == Spec => []BlockedStaysOut
<1>1. IInv => BlockedStaysOut
  BY DEF IInv, SessionInv
<1> QED
  BY <1>1, Invariance, PTL

\* The profile shown is the session's own, unless a GET /me outlived a session before it
\* (auth.ts:74-91).
THEOREM ProfilesAreOwn == Spec => []ProfileIsOwn
<1>1. IInv => ProfileIsOwn
  BY DEF IInv, ProfileInv, ProfileIsOwn
<1> QED
  BY <1>1, Invariance, PTL

\* The admin's list shows rows of the table, and shows as blocked only who is, whatever the
\* order of the answers (admin.py:139, :212; AdminView.vue:393, :417).
THEOREM ListsAreTrue == Spec => []ListIsTrue
<1>1. IInv => ListIsTrue
  BY DEF IInv, ListInv
<1> QED
  BY <1>1, Invariance, PTL
=============================================================================
