--------------------------- MODULE AccountsProofs ---------------------------
(***************************************************************************)
(* Whatever users, logins and titles there are, however many requests are  *)
(* in hand, and however they overlap: only one that was overtaken, and goes *)
(* by rows that have been changed since, can break what each of them        *)
(* promises.                                                                *)
(***************************************************************************)
EXTENDS Accounts, TLAPS

(* What holds of every request, also of one that was overtaken.  Rows that are not
   there are blank, and rows that are there stay: with their login, if it is a
   user's.  Nobody is the one whom his request is about.                    *)
Blank == \A i \in Ids : users[i].login = None => users[i] = NoUser

Sane(w) ==
  /\ req[w].actor \in KnownUsers \cup {None}
  /\ req[w].pc \in {"idle", "admitted", "answer"} => req[w].id = None /\ req[w].title = NoTitle
  /\ req[w].pc = "save user" =>
       /\ req[w].what = "save_user" /\ req[w].user.login # None
       /\ req[w].id \in KnownUsers => req[w].user.login = users[req[w].id].login
  /\ req[w].pc = "deactivate" => req[w].what = "deactivate" /\ req[w].id # None
  /\ req[w].pc \in {"save user", "deactivate"} =>
       req[w].id = None \/ (req[w].id \in KnownUsers /\ req[w].actor # req[w].id)
  /\ req[w].title.valid => req[w].title.lccn \in MARC
  /\ req[w].pc \in {"loaded title", "save title"} => req[w].id \in KnownTitles \cup {None}
  /\ req[w].pc = "save title" => req[w].title.lccn # None
  /\ req[w].pc = "pull" => req[w].id \in KnownTitles

Basis == Blank /\ ValidatedKnown /\ \A w \in Workers : Sane(w)

(* What a request goes by that was not overtaken is still true.  Who asks is there,
   under a login that may ask.                                              *)
Actor(w) ==
  req[w].pc \in Asking =>
    /\ \E i \in FindActiveUserWithLogin(req[w].login) : PermittedTo(users[i], Asks[req[w].what])
    /\ req[w].pc # "admitted" =>
         /\ req[w].actor \in FindActiveUserWithLogin(req[w].login)
         /\ users[req[w].actor] = req[w].as

(* Whom it is about is another, whom he may modify. *)
Target(w) ==
  req[w].pc \in {"save user", "deactivate"} /\ req[w].id # None =>
    CanModifyUser(req[w].actor, req[w].as, req[w].id)

(* The row to be written differs from what is there in roles only, that he may
   give or take; a new one has a login that is free.                        *)
Written(w) ==
  req[w].pc = "save user" =>
    LET old == IF req[w].id = None THEN NoUser ELSE users[req[w].id]
        new == req[w].user
    IN  /\ IF req[w].id = None THEN LoginFree(new.login) ELSE new.active = old.active
        /\ \A role \in Roles : ~(role \in new.roles <=> role \in old.roles) => CanGrant(req[w].as, role)

(* The title a request has read, or has written itself, is as it was; the one to
   be written is no other's twin, and an LCCN that was validated is changed by
   an administrator.                                                        *)
Titled(w) ==
  /\ req[w].pc = "loaded title" =>
       req[w].title = IF req[w].id = None THEN NoTitle ELSE titles[req[w].id]
  /\ req[w].pc = "save title" =>
       /\ \A i \in KnownTitles \ {req[w].id} : ~Twins(req[w].title, titles[i])
       /\ req[w].id # None /\ titles[req[w].id].valid =>
            \/ req[w].title.lccn = titles[req[w].id].lccn
            \/ IsAdmin(req[w].as)
  /\ req[w].pc = "pull" => req[w].title = titles[req[w].id]

Known(w) == Actor(w) /\ Target(w) /\ Written(w) /\ Titled(w)

Fresh == \A w \in Workers : w \notin stale => Known(w)

IInv == TypeOK /\ Basis /\ Fresh

Request ==
  [pc : {"idle", "admitted", "answer", "save user", "deactivate", "loaded title",
         "save title", "pull"},
   what : DOMAIN Asks \cup {"nothing"}, login : Logins \cup {None},
   actor : Ids \cup {None}, as : User, id : Ids \cup TitleIds \cup {None},
   user : User, title : Title]

----------------------------------------------------------------------------
LEMMA IdleType == Idle \in Request /\ NoUser \in User /\ NoTitle \in Title
  BY DEF Idle, Request, NoUser, NoTitle, User, Title

(* Users and titles written keep their types. *)
LEMMA EnteredType ==
  ASSUME NEW s \in Workers, req[s] \in Request,
         NEW lccn \in LCCNs, NEW dir \in Dirs \cup {None}
  PROVE  Entered(s, lccn, dir) \in Title
<1>1. req[s].title \in Title
  BY DEF Request
<1>2. /\ req[s].title.lccn \in LCCNs \cup {None} /\ req[s].title.valid \in BOOLEAN
      /\ req[s].title.dir \in Dirs \cup {None}
  BY <1>1 DEF Title
<1>3. QED
  BY <1>2 DEF Entered, Title

(* Every step of a request keeps the types of the tables and requests.      *)
LEMMA TypeStep == TypeOK /\ [Next]_vars => TypeOK'
<1> SUFFICES ASSUME TypeOK, [Next]_vars PROVE TypeOK'
  OBVIOUS
<1> USE IdleType DEF ReadOnly, Remember
<1>0. /\ users \in [Ids -> User] /\ titles \in [TitleIds -> Title]
      /\ req \in [Workers -> Request] /\ asked \subseteq DOMAIN Asks /\ stale \subseteq Workers
  BY DEF TypeOK, Request
<1>1. SUFFICES /\ users' \in [Ids -> User] /\ titles' \in [TitleIds -> Title]
               /\ req' \in [Workers -> Request] /\ asked' \subseteq DOMAIN Asks
               /\ stale' \subseteq Workers
  BY DEF TypeOK, Request
<1>2. CASE UNCHANGED vars
  BY <1>0, <1>2 DEF vars
<1>3. CASE Stop
  BY <1>0, <1>3 DEF Stop
<1>4. ASSUME NEW s \in Workers, MustHavePrivilege(s) PROVE <1>1!1
  <2>1. PICK what \in asked, l \in Logins :
          req' = [req EXCEPT ![s] = [Idle EXCEPT !.pc = "admitted", !.what = what, !.login = l]]
    BY <1>4 DEF MustHavePrivilege
  <2>2. [Idle EXCEPT !.pc = "admitted", !.what = what, !.login = l] \in Request
    BY <1>0 DEF Idle, Request, User, NoUser, Title, NoTitle
  <2>3. QED
    BY <1>0, <1>4, <2>1, <2>2 DEF MustHavePrivilege
<1>5. ASSUME NEW s \in Workers, Response(s) PROVE <1>1!1
  <2>1. [req[s] EXCEPT !.pc = "answer"] \in Request
    BY <1>0 DEF Request
  <2>2. \A i \in Ids : [req[s] EXCEPT !.pc = "answer", !.actor = i, !.as = users[i]] \in Request
    BY <1>0 DEF Request
  <2>3. req' \in [Workers -> Request]
    <3>1. CASE req' = [req EXCEPT ![s].pc = "answer"]
      BY <1>0, <2>1, <3>1
    <3>2. ASSUME NEW i \in Ids,
                 req' = [req EXCEPT ![s].pc = "answer", ![s].actor = i, ![s].as = users[i]]
          PROVE  req' \in [Workers -> Request]
      BY <1>0, <2>2, <3>2
    <3>3. QED
      BY <1>5, <3>1, <3>2 DEF Response, FindActiveUserWithLogin
  <2>4. QED
    BY <1>0, <1>5, <2>3 DEF Response
<1>6. ASSUME NEW s \in Workers, Refuse(s) PROVE <1>1!1
  BY <1>0, <1>6 DEF Refuse, Done
<1>7. ASSUME NEW s \in Workers, NEW pc \in {"save user", "deactivate"}, NEW i \in Ids \cup {None},
             NEW user \in User, Ready(s, pc, i, user)
      PROVE  req' \in [Workers -> Request]
  <2>1. [req[s] EXCEPT !.pc = pc, !.id = i, !.user = user] \in Request
    BY <1>0 DEF Request
  <2>2. QED
    BY <1>0, <1>7, <2>1 DEF Ready
<1>8. ASSUME NEW s \in Workers, GetUserForSave(s) PROVE <1>1!1
  <2>1. req' \in [Workers -> Request]
    <3>1. PICK f \in Form(s) :
            \/ \E i \in KnownUsers :
                 Ready(s, "save user", i, [users[i] EXCEPT !.roles = (@ \cup f.grant) \ f.deny])
            \/ \E l \in Logins :
                 Ready(s, "save user", None, [login |-> l, roles |-> f.grant, active |-> TRUE])
      BY <1>8 DEF GetUserForSave
    <3>2. f.grant \subseteq Roles /\ f.deny \subseteq Roles
      BY AccountsAssumption DEF Form
    <3>3. \A i \in Ids : [users[i] EXCEPT !.roles = (@ \cup f.grant) \ f.deny] \in User
      BY <1>0, <3>2 DEF User
    <3>4. \A l \in Logins : [login |-> l, roles |-> f.grant, active |-> TRUE] \in User
      BY <3>2 DEF User
    <3>5. QED
      BY <1>7, <3>1, <3>3, <3>4 DEF KnownUsers
  <2>2. QED
    BY <1>0, <1>8, <2>1 DEF GetUserForSave
<1>9. ASSUME NEW s \in Workers, SaveUser(s) PROVE <1>1!1
  <2>1. req[s].user \in User
    BY <1>0 DEF Request
  <2>2. QED
    BY <1>0, <1>9, <2>1 DEF SaveUser, Done
<1>10. ASSUME NEW s \in Workers, GetUserForDeactivate(s) PROVE <1>1!1
  BY <1>0, <1>7, <1>10 DEF GetUserForDeactivate, KnownUsers
<1>11. ASSUME NEW s \in Workers, Deactivate(s) PROVE <1>1!1
  <2>1. \A i \in Ids : [users[i] EXCEPT !.active = FALSE] \in User
    BY <1>0 DEF User
  <2>2. users' \in [Ids -> User]
    BY <1>0, <1>11, <2>1 DEF Deactivate
  <2>3. QED
    BY <1>0, <1>11, <2>2 DEF Deactivate, Done
<1>12. ASSUME NEW s \in Workers, GetTitle(s) PROVE <1>1!1
  <2>1. \A i \in TitleIds, pc \in {"loaded title", "pull"} :
          [req[s] EXCEPT !.pc = pc, !.id = i, !.title = titles[i]] \in Request
    BY <1>0 DEF Request
  <2>2. [req[s] EXCEPT !.pc = "loaded title"] \in Request
    BY <1>0 DEF Request
  <2>3. \A i \in TitleIds :
          req' = [req EXCEPT ![s].pc = "loaded title", ![s].id = i, ![s].title = titles[i]]
            => req' \in [Workers -> Request]
    BY <1>0, <2>1
  <2>4. \A i \in TitleIds :
          req' = [req EXCEPT ![s].pc = "pull", ![s].id = i, ![s].title = titles[i]]
            => req' \in [Workers -> Request]
    BY <1>0, <2>1
  <2>5. req' = [req EXCEPT ![s].pc = "loaded title"] => req' \in [Workers -> Request]
    BY <1>0, <2>2
  <2>6. QED
    BY <1>0, <1>12, <2>3, <2>4, <2>5 DEF GetTitle, KnownTitles
<1>13. ASSUME NEW s \in Workers, SetTitleData(s) PROVE <1>1!1
  <2>1. PICK lccn \in LCCNs, dir \in Dirs \cup {None} :
          req' = [req EXCEPT ![s].pc = "save title", ![s].title = Entered(s, lccn, dir)]
    BY <1>13 DEF SetTitleData
  <2>2. [req[s] EXCEPT !.pc = "save title", !.title = Entered(s, lccn, dir)] \in Request
    BY <1>0, EnteredType DEF Request
  <2>3. QED
    BY <1>0, <1>13, <2>1, <2>2 DEF SetTitleData
<1>14. ASSUME NEW s \in Workers, SaveTitle(s) PROVE <1>1!1
  <2>1. req[s].title \in Title
    BY <1>0 DEF Request
  <2>2. \A i \in Ids \cup TitleIds \cup {None} :
          Pulling(i, req[s].title) \in Request
    BY <2>1 DEF Pulling, Idle, Request
  <2>3. req[s].id \in Ids \cup TitleIds \cup {None}
    BY <1>0 DEF Request
  <2>4. req' \in [Workers -> Request]
    <3>1. CASE Done(s)
      BY <1>0, <3>1 DEF Done
    <3>2. ASSUME NEW i \in IF req[s].id = None THEN TitleIds \ KnownTitles ELSE {req[s].id},
                 NEW p \in Pulls,
                 req' = [req EXCEPT ![s] = Idle, ![p] = Pulling(i, req[s].title)]
          PROVE  req' \in [Workers -> Request]
      <4>1. i \in Ids \cup TitleIds \cup {None}
        BY <2>3
      <4>2. PICK r \in Request : r = Pulling(i, req[s].title)
        BY <2>2, <4>1
      <4>3. req' = [req EXCEPT ![s] = Idle, ![p] = r]
        BY <3>2, <4>2, Zenon
      <4>4. QED
        BY <1>0, <4>3
    <3>3. QED
      BY <1>14, <3>1, <3>2 DEF SaveTitle
  <2>5. QED
    BY <1>0, <1>14, <2>1, <2>4 DEF SaveTitle
<1>15. ASSUME NEW s \in Workers, PullMARCForTitle(s) PROVE <1>1!1
  <2>1. req[s].title \in Title
    BY <1>0 DEF Request
  <2>2. [req[s].title EXCEPT !.valid = TRUE] \in Title
    BY <2>1 DEF Title
  <2>3. QED
    BY <1>0, <1>15, <2>2 DEF PullMARCForTitle, Done
<1>16. QED
  BY <1>2, <1>3, <1>4, <1>5, <1>6, <1>8, <1>9, <1>10, <1>11, <1>12, <1>13, <1>14, <1>15
     DEF Next, UserPages, TitlePages, Workers

----------------------------------------------------------------------------
(* What holds of every request, overtaken or not. *)
Kept ==
  /\ \A i \in KnownUsers : users'[i].login = users[i].login
  /\ KnownTitles \subseteq KnownTitles'

(* A request that does nothing goes by rows that are never removed. *)
LEMMA SaneFrame ==
  ASSUME NEW w \in Workers, Sane(w), req'[w] = req[w], Kept
  PROVE  Sane(w)'
<1>1. /\ KnownUsers \subseteq KnownUsers' /\ KnownTitles \subseteq KnownTitles'
      /\ \A i \in KnownUsers : users'[i].login = users[i].login
      /\ \A i \in KnownUsers' : i \in KnownUsers \/ users[i].login = None
  BY DEF Kept, KnownUsers
<1>2. CASE req[w].pc = "save user"
  <2>1. req[w].id \in KnownUsers \cup {None} /\ None \notin KnownUsers'
    BY <1>2, AccountsAssumption DEF Sane, KnownUsers
  <2>2. req[w].id \in KnownUsers' => req[w].user.login = users'[req[w].id].login
    BY <1>1, <1>2, <2>1 DEF Sane
  <2>3. QED
    BY <1>1, <1>2, <2>2 DEF Sane
<1>3. CASE req[w].pc # "save user"
  BY <1>1, <1>3 DEF Sane
<1>4. QED
  BY <1>2, <1>3

LEMMA SaneIdle ==
  ASSUME NEW w \in Workers, req'[w] = Idle
  PROVE  Sane(w)'
<1>1. ~NoTitle.valid
  BY DEF NoTitle
<1>2. QED
  BY <1>1 DEF Sane, Idle

LEMMA BasisRead ==
  ASSUME TypeOK, Basis, NEW s \in Workers, NEW r, req' = [req EXCEPT ![s] = r],
         ReadOnly, Sane(s)'
  PROVE  Basis'
<1>1. Kept /\ Blank' /\ ValidatedKnown'
  BY DEF ReadOnly, Kept, KnownTitles, Basis, Blank, ValidatedKnown
<1>2. \A w \in Workers \ {s} : req'[w] = req[w]
  BY DEF TypeOK
<1>3. QED
  BY <1>1, <1>2, SaneFrame DEF Basis

(* A row that is written keeps its login, and a title's LCCN if it has one. *)
LEMMA UserWritten ==
  ASSUME TypeOK, Basis, NEW s \in Workers, SaveUser(s)
  PROVE  \E i \in Ids :
           /\ users' = [users EXCEPT ![i] = req[s].user] /\ users'[i] = req[s].user
           /\ req[s].id = i \/ (req[s].id = None /\ i \notin KnownUsers)
           /\ req[s].user.login # None
           /\ i \in KnownUsers => req[s].user.login = users[i].login
<1>1. PICK i \in IF req[s].id = None THEN Ids \ KnownUsers ELSE {req[s].id} :
        users' = [users EXCEPT ![i] = req[s].user]
  BY DEF SaveUser
<1>2. Sane(s) /\ req[s].pc = "save user" /\ users \in [Ids -> User]
  BY DEF Basis, SaveUser, TypeOK
<1>3. i \in Ids /\ (req[s].id = i \/ (req[s].id = None /\ i \notin KnownUsers))
  BY <1>1, <1>2 DEF Sane, KnownUsers
<1>4. users'[i] = req[s].user
  BY <1>1, <1>2, <1>3
<1>5. req[s].user.login # None /\ (i \in KnownUsers => req[s].user.login = users[i].login)
  BY <1>2, <1>3 DEF Sane
<1>6. QED
  BY <1>1, <1>3, <1>4, <1>5

LEMMA TitleWritten ==
  ASSUME TypeOK, Basis, NEW s \in Workers, SaveTitle(s)
  PROVE  \E i \in TitleIds :
           /\ titles' = [titles EXCEPT ![i] = req[s].title] /\ titles'[i] = req[s].title
           /\ req[s].id = i \/ (req[s].id = None /\ i \notin KnownTitles)
           /\ req[s].title.lccn # None
           /\ \/ req' = [req EXCEPT ![s] = Idle]
              \/ \E p \in Pulls :
                   /\ req[p].pc = "idle"
                   /\ req' = [req EXCEPT ![s] = Idle, ![p] = Pulling(i, req[s].title)]
<1>1. PICK i \in IF req[s].id = None THEN TitleIds \ KnownTitles ELSE {req[s].id} :
        /\ titles' = [titles EXCEPT ![i] = req[s].title]
        /\ \/ req' = [req EXCEPT ![s] = Idle]
           \/ \E p \in Pulls :
                /\ req[p].pc = "idle"
                /\ req' = [req EXCEPT ![s] = Idle, ![p] = Pulling(i, req[s].title)]
  BY DEF SaveTitle, Done
<1>2. Sane(s) /\ req[s].pc = "save title" /\ titles \in [TitleIds -> Title]
  BY DEF Basis, SaveTitle, TypeOK
<1>3. i \in TitleIds /\ (req[s].id = i \/ (req[s].id = None /\ i \notin KnownTitles))
  BY <1>1, <1>2 DEF Sane, KnownTitles
<1>4. titles'[i] = req[s].title
  BY <1>1, <1>2, <1>3
<1>5. req[s].title.lccn # None
  BY <1>2 DEF Sane
<1>6. QED
  BY <1>1, <1>3, <1>4, <1>5

LEMMA SaveUserBasis ==
  ASSUME TypeOK, Basis, NEW s \in Workers, SaveUser(s)
  PROVE  Basis'
<1>1. PICK i \in Ids :
        /\ users' = [users EXCEPT ![i] = req[s].user] /\ users'[i] = req[s].user
        /\ req[s].user.login # None
        /\ i \in KnownUsers => req[s].user.login = users[i].login
  BY UserWritten
<1>2. users \in [Ids -> User] /\ req' = [req EXCEPT ![s] = Idle] /\ UNCHANGED titles
  BY DEF TypeOK, SaveUser, Done
<1>3. \A j \in Ids \ {i} : users'[j] = users[j]
  BY <1>1, <1>2
<1>4. Kept /\ Blank' /\ ValidatedKnown'
  BY <1>1, <1>2, <1>3 DEF Kept, KnownUsers, KnownTitles, Basis, Blank, ValidatedKnown
<1>5. \A w \in Workers : req'[w] = IF w = s THEN Idle ELSE req[w]
  BY <1>2 DEF TypeOK
<1>6. QED
  BY <1>4, <1>5, SaneFrame, SaneIdle DEF Basis

LEMMA DeactivateBasis ==
  ASSUME TypeOK, Basis, NEW s \in Workers, Deactivate(s)
  PROVE  Basis'
<1> DEFINE i == req[s].id
<1>1. /\ users \in [Ids -> User] /\ req' = [req EXCEPT ![s] = Idle] /\ UNCHANGED titles
      /\ users' = [users EXCEPT ![i].active = FALSE]
  BY DEF TypeOK, Deactivate, Done
<1>2. i \in Ids /\ users[i].login # None
  BY DEF Basis, Sane, Deactivate, KnownUsers
<1>3. users'[i].login = users[i].login /\ \A j \in Ids \ {i} : users'[j] = users[j]
  BY <1>1, <1>2 DEF User
<1>4. Kept /\ Blank' /\ ValidatedKnown'
  BY <1>1, <1>2, <1>3 DEF Kept, KnownUsers, KnownTitles, Basis, Blank, ValidatedKnown
<1>5. \A w \in Workers : req'[w] = IF w = s THEN Idle ELSE req[w]
  BY <1>1 DEF TypeOK
<1>6. QED
  BY <1>4, <1>5, SaneFrame, SaneIdle DEF Basis

LEMMA SaveTitleBasis ==
  ASSUME TypeOK, Basis, NEW s \in Workers, SaveTitle(s)
  PROVE  Basis'
<1>1. PICK i \in TitleIds :
        /\ titles' = [titles EXCEPT ![i] = req[s].title] /\ titles'[i] = req[s].title
        /\ req[s].title.lccn # None
        /\ \/ req' = [req EXCEPT ![s] = Idle]
           \/ \E p \in Pulls :
                /\ req[p].pc = "idle"
                /\ req' = [req EXCEPT ![s] = Idle, ![p] = Pulling(i, req[s].title)]
  BY TitleWritten
<1>2. /\ titles \in [TitleIds -> Title] /\ UNCHANGED users /\ Sane(s)
      /\ req[s].title.valid => req[s].title.lccn \in MARC
  BY DEF TypeOK, SaveTitle, Basis, Sane
<1>3. \A j \in TitleIds \ {i} : titles'[j] = titles[j]
  BY <1>1, <1>2
<1>4. Kept /\ Blank' /\ ValidatedKnown'
  BY <1>1, <1>2, <1>3 DEF Kept, KnownUsers, KnownTitles, Basis, Blank, ValidatedKnown
<1>5. i \in KnownTitles'
  BY <1>1 DEF KnownTitles
<1>6. \A w \in Workers : Sane(w)'
  <2>1. CASE req' = [req EXCEPT ![s] = Idle]
    <3>1. \A w \in Workers : req'[w] = IF w = s THEN Idle ELSE req[w]
      BY <2>1 DEF TypeOK
    <3>2. QED
      BY <1>4, <3>1, SaneFrame, SaneIdle DEF Basis
  <2>2. ASSUME NEW p \in Pulls, req[p].pc = "idle",
               req' = [req EXCEPT ![s] = Idle, ![p] = Pulling(i, req[s].title)]
        PROVE  \A w \in Workers : Sane(w)'
    <3>1. p \in Workers /\ p # s
      BY <2>2 DEF Workers, SaveTitle
    <3>2. /\ \A w \in Workers \ {s, p} : req'[w] = req[w]
          /\ req'[s] = Idle /\ req'[p] = Pulling(i, req[s].title)
      BY <2>2, <3>1 DEF TypeOK
    <3>3. /\ req'[p].pc = "pull" /\ req'[p].id = i /\ req'[p].title = req[s].title
          /\ req'[p].actor = None
      BY <3>2 DEF Pulling, Idle
    <3>4. Sane(p)'
      BY <1>2, <1>5, <3>3 DEF Sane
    <3>5. QED
      BY <1>4, <3>2, <3>4, SaneFrame, SaneIdle DEF Basis
  <2>3. QED
    BY <1>1, <2>1, <2>2
<1>7. QED
  BY <1>4, <1>6 DEF Basis

LEMMA PullBasis ==
  ASSUME TypeOK, Basis, NEW s \in Workers, PullMARCForTitle(s)
  PROVE  Basis'
<1> DEFINE i == req[s].id
           t == [req[s].title EXCEPT !.valid = TRUE]
<1>1. /\ titles \in [TitleIds -> Title] /\ req' = [req EXCEPT ![s] = Idle] /\ UNCHANGED users
      /\ req[s].title \in Title /\ i \in TitleIds
      /\ \/ UNCHANGED titles
         \/ req[s].title.lccn \in MARC /\ titles' = [titles EXCEPT ![i] = t]
  BY DEF TypeOK, PullMARCForTitle, Done, Basis, Sane, KnownTitles
<1>2. t.lccn = req[s].title.lccn
  BY <1>1 DEF Title
<1>3. Kept /\ Blank' /\ ValidatedKnown'
  <2>1. CASE UNCHANGED titles
    BY <1>1, <2>1 DEF Kept, KnownUsers, KnownTitles, Basis, Blank, ValidatedKnown
  <2>2. CASE req[s].title.lccn \in MARC /\ titles' = [titles EXCEPT ![i] = t]
    <3> HIDE DEF t
    <3>1. titles'[i] = t /\ \A j \in TitleIds \ {i} : titles'[j] = titles[j]
      BY <1>1, <2>2
    <3>2. t.lccn \in MARC /\ t.lccn # None
      BY <1>2, <2>2, AccountsAssumption
    <3>3. QED
      BY <1>1, <3>1, <3>2 DEF Kept, KnownUsers, KnownTitles, Basis, Blank, ValidatedKnown
  <2>3. QED
    BY <1>1, <2>1, <2>2
<1>4. \A w \in Workers : req'[w] = IF w = s THEN Idle ELSE req[w]
  BY <1>1 DEF TypeOK
<1>5. QED
  BY <1>3, <1>4, SaneFrame, SaneIdle DEF Basis

LEMMA ReadyBasis ==
  ASSUME TypeOK, Basis, NEW s \in Workers, req[s].pc = "answer", ReadOnly,
         NEW pc \in {"save user", "deactivate"}, NEW i \in KnownUsers \cup {None}, NEW user,
         Ready(s, pc, i, user),
         i # None => req[s].actor # i,
         pc = "save user" => /\ req[s].what = "save_user" /\ user.login # None
                             /\ i \in KnownUsers => user.login = users[i].login,
         pc = "deactivate" => req[s].what = "deactivate" /\ i # None
  PROVE  Basis'
<1> DEFINE r == [req[s] EXCEPT !.pc = pc, !.id = i, !.user = user]
<1>1. req' = [req EXCEPT ![s] = r] /\ req[s] \in Request /\ Sane(s)
  BY DEF Ready, TypeOK, Request, Basis
<1>2. /\ r.pc = pc /\ r.id = i /\ r.user = user /\ r.actor = req[s].actor
      /\ r.what = req[s].what /\ r.title = req[s].title
  BY <1>1 DEF Request
<1>3. req'[s] = r
  BY <1>1 DEF TypeOK
<1> HIDE DEF r
<1>4. UNCHANGED <<users, titles>>
  BY DEF ReadOnly
<1>5. Sane(s)'
  BY <1>1, <1>2, <1>3, <1>4 DEF Sane, KnownUsers
<1>6. QED
  BY <1>1, <1>5, BasisRead

LEMMA TitleBasis ==
  ASSUME TypeOK, Basis, NEW s \in Workers, req[s].pc \in {"answer", "loaded title"}, ReadOnly,
         NEW r, req' = [req EXCEPT ![s] = r], r.pc \in {"loaded title", "save title", "pull"},
         r.actor = req[s].actor, r.id \in KnownTitles \cup {None},
         r.title.valid => r.title.lccn \in MARC,
         r.pc = "save title" => r.title.lccn # None,
         r.pc = "pull" => r.id # None
  PROVE  Basis'
<1>1. req'[s] = r /\ Sane(s) /\ UNCHANGED <<users, titles>>
  BY DEF TypeOK, Basis, ReadOnly
<1>2. Sane(s)'
  BY <1>1 DEF Sane, KnownUsers, KnownTitles
<1>3. QED
  BY <1>2, BasisRead

LEMMA BasisStep == TypeOK /\ Basis /\ [Next]_vars => Basis'
<1> SUFFICES ASSUME TypeOK, Basis, [Next]_vars PROVE Basis'
  OBVIOUS
<1>0. /\ users \in [Ids -> User] /\ titles \in [TitleIds -> Title]
      /\ req \in [Workers -> Request]
      /\ \A w \in Workers : req[w] \in Request /\ Sane(w)
  BY DEF TypeOK, Request, Basis
<1>1. CASE UNCHANGED vars
  <2>1. Kept /\ Blank' /\ ValidatedKnown'
    BY <1>1 DEF vars, Kept, KnownTitles, Basis, Blank, ValidatedKnown
  <2>2. QED
    BY <1>1, <2>1, SaneFrame DEF vars, Basis
<1>2. CASE Stop
  <2>1. Kept /\ Blank' /\ ValidatedKnown'
    BY <1>2 DEF Stop, ReadOnly, Kept, KnownTitles, Basis, Blank, ValidatedKnown
  <2>2. QED
    BY <1>2, <2>1, SaneIdle DEF Stop, Basis
<1>3. ASSUME NEW s \in Workers, MustHavePrivilege(s) PROVE Basis'
  <2>1. PICK what \in asked, l \in Logins :
          req' = [req EXCEPT ![s] = [Idle EXCEPT !.pc = "admitted", !.what = what, !.login = l]]
    BY <1>3 DEF MustHavePrivilege
  <2> DEFINE r == [Idle EXCEPT !.pc = "admitted", !.what = what, !.login = l]
  <2>2. r.pc = "admitted" /\ r.id = None /\ r.title = NoTitle /\ r.actor = None
    BY DEF Idle
  <2>3. req' = [req EXCEPT ![s] = r] /\ req'[s] = r
    BY <1>0, <2>1
  <2> HIDE DEF r
  <2>4. ~NoTitle.valid
    BY DEF NoTitle
  <2>5. Sane(s)'
    BY <2>2, <2>3, <2>4 DEF Sane
  <2>6. QED
    BY <1>3, <2>3, <2>5, BasisRead DEF MustHavePrivilege
<1>4. ASSUME NEW s \in Workers, Response(s) PROVE Basis'
  <2>1. /\ req[s].pc = "admitted" /\ ReadOnly /\ Sane(s) /\ req[s] \in Request
        /\ UNCHANGED <<users, titles>> /\ req[s].id = None /\ req[s].title = NoTitle
    BY <1>0, <1>4 DEF Response, ReadOnly, Sane
  <2>2. ~NoTitle.valid
    BY DEF NoTitle
  <2>3. CASE req' = [req EXCEPT ![s].pc = "answer"]
    <3> DEFINE r == [req[s] EXCEPT !.pc = "answer"]
    <3>1. r.pc = "answer" /\ r.id = None /\ r.title = NoTitle /\ r.actor = req[s].actor
      BY <2>1 DEF Request
    <3>2. req' = [req EXCEPT ![s] = r] /\ req'[s] = r
      BY <1>0, <2>3
    <3> HIDE DEF r
    <3>3. Sane(s)'
      BY <2>1, <2>2, <3>1, <3>2 DEF Sane, KnownUsers
    <3>4. QED
      BY <2>1, <3>2, <3>3, BasisRead
  <2>4. ASSUME NEW i \in FindActiveUserWithLogin(req[s].login),
               req' = [req EXCEPT ![s].pc = "answer", ![s].actor = i, ![s].as = users[i]]
        PROVE  Basis'
    <3> DEFINE r == [req[s] EXCEPT !.pc = "answer", !.actor = i, !.as = users[i]]
    <3>1. r.pc = "answer" /\ r.id = None /\ r.title = NoTitle /\ r.actor = i
      BY <2>1 DEF Request
    <3>2. req' = [req EXCEPT ![s] = r] /\ req'[s] = r
      BY <1>0, <2>4
    <3> HIDE DEF r
    <3>3. i \in KnownUsers
      BY DEF FindActiveUserWithLogin, KnownUsers, Basis, Blank, NoUser
    <3>4. Sane(s)'
      BY <2>1, <2>2, <3>1, <3>2, <3>3 DEF Sane, KnownUsers
    <3>5. QED
      BY <2>1, <3>2, <3>4, BasisRead
  <2>5. QED
    BY <1>4, <2>3, <2>4 DEF Response
<1>5. ASSUME NEW s \in Workers, Refuse(s) PROVE Basis'
  <2>1. req' = [req EXCEPT ![s] = Idle] /\ req'[s] = Idle /\ ReadOnly
    BY <1>0, <1>5 DEF Refuse, Done
  <2>2. QED
    BY <2>1, SaneIdle, BasisRead
<1>6. ASSUME NEW s \in Workers, GetUserForSave(s) PROVE Basis'
  <2>1. PICK f \in Form(s) :
          \/ \E i \in KnownUsers :
               /\ CanModifyUser(req[s].actor, req[s].as, i)
               /\ Ready(s, "save user", i, [users[i] EXCEPT !.roles = (@ \cup f.grant) \ f.deny])
          \/ \E l \in Logins :
               Ready(s, "save user", None, [login |-> l, roles |-> f.grant, active |-> TRUE])
    BY <1>6 DEF GetUserForSave
  <2>2. req[s].pc = "answer" /\ req[s].what = "save_user" /\ ReadOnly
    BY <1>6 DEF GetUserForSave
  <2>3. None \notin KnownUsers /\ None \notin Logins
    BY AccountsAssumption DEF KnownUsers
  <2>4. ASSUME NEW i \in KnownUsers, CanModifyUser(req[s].actor, req[s].as, i),
               Ready(s, "save user", i, [users[i] EXCEPT !.roles = (@ \cup f.grant) \ f.deny])
        PROVE  Basis'
    <3> DEFINE user == [users[i] EXCEPT !.roles = (@ \cup f.grant) \ f.deny]
    <3>1. user.login = users[i].login /\ users[i].login # None
      BY <1>0 DEF User, KnownUsers
    <3>2. Ready(s, "save user", i, user) /\ req[s].actor # i
      BY <2>4 DEF CanModifyUser
    <3> HIDE DEF user
    <3>3. QED
      BY <2>2, <3>1, <3>2, ReadyBasis
  <2>5. ASSUME NEW l \in Logins,
               Ready(s, "save user", None, [login |-> l, roles |-> f.grant, active |-> TRUE])
        PROVE  Basis'
    <3> DEFINE user == [login |-> l, roles |-> f.grant, active |-> TRUE]
    <3>1. user.login # None /\ Ready(s, "save user", None, user)
      BY <2>3, <2>5
    <3> HIDE DEF user
    <3>2. QED
      BY <2>2, <2>3, <3>1, ReadyBasis
  <2>6. QED
    BY <2>1, <2>4, <2>5
<1>7. ASSUME NEW s \in Workers, GetUserForDeactivate(s) PROVE Basis'
  <2>1. PICK i \in KnownUsers : /\ CanModifyUser(req[s].actor, req[s].as, i)
                                /\ Ready(s, "deactivate", i, NoUser)
    BY <1>7 DEF GetUserForDeactivate
  <2>2. req[s].pc = "answer" /\ req[s].what = "deactivate" /\ ReadOnly
    BY <1>7 DEF GetUserForDeactivate
  <2>3. req[s].actor # i /\ i # None
    BY <2>1, AccountsAssumption DEF CanModifyUser, KnownUsers
  <2>4. QED
    BY <2>1, <2>2, <2>3, ReadyBasis
<1>8. ASSUME NEW s \in Workers, GetTitle(s) PROVE Basis'
  <2>1. /\ req[s].pc = "answer" /\ ReadOnly /\ Sane(s) /\ req[s] \in Request
        /\ req[s].id = None /\ req[s].title = NoTitle
    BY <1>0, <1>8 DEF GetTitle, Sane
  <2>2. ASSUME NEW i \in KnownTitles, NEW pc \in {"loaded title", "pull"},
               req' = [req EXCEPT ![s].pc = pc, ![s].id = i, ![s].title = titles[i]]
        PROVE  Basis'
    <3> DEFINE r == [req[s] EXCEPT !.pc = pc, !.id = i, !.title = titles[i]]
    <3>1. /\ r.pc = pc /\ r.id = i /\ r.title = titles[i] /\ r.actor = req[s].actor
      BY <2>1 DEF Request
    <3>2. req' = [req EXCEPT ![s] = r]
      BY <1>0, <2>2
    <3> HIDE DEF r
    <3>3. titles[i].valid => titles[i].lccn \in MARC
      BY DEF Basis, ValidatedKnown, KnownTitles
    <3>4. i # None
      BY AccountsAssumption DEF KnownTitles
    <3>5. QED
      BY <2>1, <3>1, <3>2, <3>3, <3>4, TitleBasis
  <2>3. ASSUME req' = [req EXCEPT ![s].pc = "loaded title"] PROVE Basis'
    <3> DEFINE r == [req[s] EXCEPT !.pc = "loaded title"]
    <3>1. /\ r.pc = "loaded title" /\ r.id = None /\ r.title = NoTitle
          /\ r.actor = req[s].actor
      BY <2>1 DEF Request
    <3>2. req' = [req EXCEPT ![s] = r]
      BY <1>0, <2>3
    <3> HIDE DEF r
    <3>3. ~NoTitle.valid
      BY DEF NoTitle
    <3>4. QED
      BY <2>1, <3>1, <3>2, <3>3, TitleBasis
  <2>4. QED
    BY <1>8, <2>2, <2>3 DEF GetTitle
<1>9. ASSUME NEW s \in Workers, SetTitleData(s) PROVE Basis'
  <2>1. PICK lccn \in LCCNs, dir \in Dirs \cup {None} :
          /\ Entered(s, lccn, dir).lccn # None
          /\ req' = [req EXCEPT ![s].pc = "save title", ![s].title = Entered(s, lccn, dir)]
    BY <1>9 DEF SetTitleData
  <2> DEFINE t == Entered(s, lccn, dir)
             r == [req[s] EXCEPT !.pc = "save title", !.title = t]
  <2>2. req' = [req EXCEPT ![s] = r]
    BY <1>0, <2>1
  <2>3. r.pc = "save title" /\ r.id = req[s].id /\ r.title = t /\ r.actor = req[s].actor
    BY <1>0 DEF Request
  <2>4. req[s].pc = "loaded title" /\ ReadOnly /\ Sane(s)
    BY <1>0, <1>9 DEF SetTitleData
  <2>5. t.valid => t.lccn \in MARC
    BY <2>4 DEF Entered, Sane
  <2>6. t.lccn # None /\ req[s].id \in KnownTitles \cup {None}
    BY <2>1, <2>4 DEF Sane
  <2> HIDE DEF r, t
  <2>7. QED
    BY <2>2, <2>3, <2>4, <2>5, <2>6, TitleBasis
<1>10. QED
  BY <1>1, <1>2, <1>3, <1>4, <1>5, <1>6, <1>7, <1>8, <1>9, SaveUserBasis, DeactivateBasis,
     SaveTitleBasis, PullBasis
  DEF Next, UserPages, TitlePages, Workers

----------------------------------------------------------------------------
(* What a request goes by stays true when the rows it has read do. *)
LEMMA Frame ==
  ASSUME NEW w \in Workers, TypeOK, Sane(w), Known(w), req'[w] = req[w],
         \A i \in UsersRead(w) : users'[i] = users[i],
         \A i \in TitlesRead(w) : titles'[i] = titles[i]
  PROVE  Known(w)'
<1>1. /\ None \notin Ids /\ None \notin TitleIds
      /\ KnownUsers \subseteq Ids /\ KnownTitles \subseteq TitleIds
  BY AccountsAssumption DEF KnownUsers, KnownTitles
<1>2. /\ req[w].pc \in Asking =>
           \A i \in FindActiveUserWithLogin(req[w].login) : users'[i] = users[i]
      /\ req[w].pc \in {"save user", "deactivate"} /\ req[w].id \in Ids =>
           users'[req[w].id] = users[req[w].id]
      /\ req[w].pc = "save user" /\ req[w].id = None => \A i \in Ids : users'[i] = users[i]
      /\ req[w].pc \in {"loaded title", "pull"} /\ req[w].id \in TitleIds =>
           titles'[req[w].id] = titles[req[w].id]
      /\ req[w].pc = "save title" => \A i \in TitleIds : titles'[i] = titles[i]
  BY DEF UsersRead, TitlesRead, FindActiveUserWithLogin
<1>3. Actor(w)'
  <2>1. CASE req[w].pc \in Asking
    <3>1. PICK i \in FindActiveUserWithLogin(req[w].login) : PermittedTo(users[i], Asks[req[w].what])
      BY <2>1 DEF Known, Actor
    <3>2. i \in FindActiveUserWithLogin(req[w].login)' /\ PermittedTo(users'[i], Asks[req[w].what])
      BY <1>2, <2>1, <3>1 DEF FindActiveUserWithLogin
    <3>3. req[w].pc # "admitted" =>
            /\ req[w].actor \in FindActiveUserWithLogin(req[w].login)'
            /\ users'[req[w].actor] = req[w].as
      BY <1>2, <2>1 DEF Known, Actor, FindActiveUserWithLogin
    <3>4. QED
      BY <2>1, <3>2, <3>3 DEF Actor, FindActiveUserWithLogin
  <2>2. QED
    BY <2>1 DEF Actor
<1>4. Target(w)'
  BY <1>1, <1>2 DEF Known, Sane, Target, CanModifyUser, PermittedTo, IsAdmin
<1>5. Written(w)'
  <2>1. CASE req[w].id = None
    <3>1. CASE req[w].pc = "save user"
      <4>1. LoginFree(req[w].user.login)'
        BY <1>2, <2>1, <3>1 DEF Known, Written, LoginFree, FindActiveUserWithLogin
      <4>2. QED
        BY <2>1, <3>1, <4>1 DEF Known, Written, CanGrant, PermittedTo, IsAdmin
    <3>2. QED
      BY <3>1 DEF Written
  <2>2. CASE req[w].id # None
    <3>1. CASE req[w].pc = "save user"
      <4>1. users'[req[w].id] = users[req[w].id]
        BY <1>1, <1>2, <2>2, <3>1 DEF Sane
      <4>2. /\ req[w].user.active = users[req[w].id].active
            /\ \A role \in Roles :
                 ~(role \in req[w].user.roles <=> role \in users[req[w].id].roles) =>
                   CanGrant(req[w].as, role)
        BY <2>2, <3>1 DEF Known, Written
      <4>3. QED
        BY <2>2, <4>1, <4>2 DEF Written, CanGrant, PermittedTo, IsAdmin
    <3>2. QED
      BY <3>1 DEF Written
  <2>3. QED
    BY <2>1, <2>2
<1>6. Titled(w)'
  <2>1. CASE req[w].pc = "loaded title"
    BY <1>1, <1>2, <2>1 DEF Known, Titled, Sane
  <2>2. CASE req[w].pc = "save title"
    <3>1. KnownTitles' = KnownTitles /\ \A i \in TitleIds : titles'[i] = titles[i]
      BY <1>2, <2>2 DEF KnownTitles
    <3>2. \A i \in KnownTitles \ {req[w].id} : ~Twins(req[w].title, titles[i])
      BY <2>2 DEF Known, Titled
    <3>3. \A i \in KnownTitles \ {req[w].id} : ~Twins(req[w].title, titles[i])'
      BY <1>1, <3>1, <3>2 DEF Twins
    <3>4. req[w].id # None => titles'[req[w].id] = titles[req[w].id]
      BY <1>1, <2>2, <3>1 DEF Sane
    <3>5. QED
      BY <2>2, <3>1, <3>3, <3>4 DEF Known, Titled, IsAdmin
  <2>3. CASE req[w].pc = "pull"
    BY <1>1, <1>2, <2>3 DEF Known, Titled, Sane
  <2>4. QED
    BY <2>1, <2>2, <2>3 DEF Titled
<1>7. QED
  BY <1>3, <1>4, <1>5, <1>6 DEF Known

(* A request that is over goes by nothing. *)
LEMMA Quiet ==
  ASSUME NEW w, req'[w].pc = "idle"
  PROVE  Known(w)'
BY DEF Known, Actor, Target, Written, Titled, Asking

(* Whoever is not overtaken, and does nothing in a step, goes by what is so. *)
LEMMA Unmoved ==
  ASSUME IInv, Remember, NEW w \in Workers, w \notin stale', req'[w] = req[w]
  PROVE  Known(w)'
<1>1. CASE req'[w].pc = "idle"
  BY <1>1, Quiet
<1>2. CASE req'[w].pc # "idle"
  <2>1. ~Overtaken(w)
    BY <1>2 DEF Remember
  <2>2. /\ w \notin stale
        /\ \A i \in UsersRead(w) : users'[i] = users[i]
        /\ \A i \in TitlesRead(w) : titles'[i] = titles[i]
    BY <2>1 DEF Overtaken
  <2>3. TypeOK /\ Sane(w) /\ Known(w)
    BY <2>2 DEF IInv, Basis, Fresh
  <2>4. QED
    BY <2>2, <2>3, Frame
<1>3. QED
  BY <1>1, <1>2

(* A request that reads goes by more, if by what it read before is so still. *)
LEMMA FreshRead ==
  ASSUME IInv, NEW s \in Workers, NEW r, req' = [req EXCEPT ![s] = r], ReadOnly,
         Known(s) => Known(s)'
  PROVE  Fresh'
<1>1. Remember /\ \A w \in Workers \ {s} : req'[w] = req[w]
  BY DEF ReadOnly, IInv, TypeOK
<1>2. ASSUME s \notin stale' PROVE Known(s)'
  <2>1. CASE req'[s].pc = "idle"
    BY <2>1, Quiet
  <2>2. CASE req'[s].pc # "idle"
    <3>1. s \notin stale
      BY <1>1, <1>2, <2>2 DEF Remember, Overtaken
    <3>2. QED
      BY <3>1 DEF IInv, Fresh
  <2>3. QED
    BY <2>1, <2>2
<1>3. ASSUME NEW w \in Workers, w \notin stale', w # s PROVE Known(w)'
  BY <1>1, <1>3, Unmoved
<1>4. QED
  BY <1>2, <1>3 DEF Fresh

(* A request that is over, whatever it has written. *)
LEMMA FreshDone ==
  ASSUME IInv, NEW s \in Workers, Done(s), Remember
  PROVE  Fresh'
<1>1. req'[s] = Idle /\ \A w \in Workers \ {s} : req'[w] = req[w]
  BY DEF Done, IInv, TypeOK
<1>2. Known(s)'
  BY <1>1, Quiet DEF Idle
<1>3. ASSUME NEW w \in Workers, w \notin stale', w # s PROVE Known(w)'
  BY <1>1, <1>3, Unmoved
<1>4. QED
  BY <1>2, <1>3 DEF Fresh

(* A request on a user is ready: who asks stays, and what is to be written is
   known to be right.                                                       *)
LEMMA ReadyStep ==
  ASSUME IInv, NEW s \in Workers, req[s].pc = "answer", ReadOnly,
         NEW pc \in {"save user", "deactivate"}, NEW i \in Ids \cup {None}, NEW user,
         Ready(s, pc, i, user),
         i # None => CanModifyUser(req[s].actor, req[s].as, i),
         pc = "save user" =>
           LET old == IF i = None THEN NoUser ELSE users[i]
           IN  /\ IF i = None THEN LoginFree(user.login) ELSE user.active = old.active
               /\ \A role \in Roles : ~(role \in user.roles <=> role \in old.roles)
                                        => CanGrant(req[s].as, role)
  PROVE  Fresh'
<1> DEFINE r == [req[s] EXCEPT !.pc = pc, !.id = i, !.user = user]
<1>0. req[s] \in Request /\ req \in [Workers -> Request] /\ UNCHANGED <<users, titles>>
  BY DEF IInv, TypeOK, Request, ReadOnly
<1>1. req' = [req EXCEPT ![s] = r]
  BY <1>0 DEF Ready
<1>2. /\ r.pc = pc /\ r.id = i /\ r.user = user /\ r.login = req[s].login
      /\ r.actor = req[s].actor /\ r.as = req[s].as /\ r.what = req[s].what
  BY <1>0 DEF Request
<1>3. req'[s] = r
  BY <1>0, <1>1
<1> HIDE DEF r
<1>4. Known(s) => Actor(s)'
  BY <1>0, <1>2, <1>3 DEF Known, Actor, Asking, FindActiveUserWithLogin
<1>5. Target(s)'
  BY <1>0, <1>2, <1>3 DEF Target, CanModifyUser
<1>6. Written(s)'
  BY <1>0, <1>2, <1>3 DEF Written, LoginFree, FindActiveUserWithLogin
<1>7. Titled(s)'
  BY <1>2, <1>3 DEF Titled
<1>8. QED
  BY <1>1, <1>4, <1>5, <1>6, <1>7, FreshRead DEF Known

(* A title is read, or what was entered is put into it. *)
LEMMA TitleStep ==
  ASSUME IInv, NEW s \in Workers, NEW r, req' = [req EXCEPT ![s] = r], ReadOnly,
         req[s].pc \in {"answer", "loaded title"},
         r.pc \in {"loaded title", "save title", "pull"},
         r.actor = req[s].actor /\ r.as = req[s].as /\ r.what = req[s].what
           /\ r.login = req[s].login,
         Known(s) => Titled(s)'
  PROVE  Fresh'
<1>1. req'[s] = r /\ UNCHANGED <<users, titles>>
  BY DEF IInv, TypeOK, ReadOnly
<1>2. Known(s) => Actor(s)'
  BY <1>1 DEF Known, Actor, Asking, FindActiveUserWithLogin
<1>3. (Target(s) /\ Written(s))'
  BY <1>1 DEF Target, Written
<1>4. QED
  BY <1>2, <1>3, FreshRead DEF Known

(* What is pulled is what was written. *)
LEMMA SaveTitleStep ==
  ASSUME IInv, NEW s \in Workers, SaveTitle(s)
  PROVE  Fresh'
<1>1. TypeOK /\ Basis
  BY DEF IInv
<1>2. PICK i \in TitleIds :
        /\ titles'[i] = req[s].title
        /\ \/ req' = [req EXCEPT ![s] = Idle]
           \/ \E p \in Pulls :
                /\ req[p].pc = "idle"
                /\ req' = [req EXCEPT ![s] = Idle, ![p] = Pulling(i, req[s].title)]
  BY <1>1, TitleWritten
<1>3. Remember
  BY DEF SaveTitle
<1>4. CASE req' = [req EXCEPT ![s] = Idle]
  BY <1>3, <1>4, FreshDone DEF Done
<1>5. ASSUME NEW p \in Pulls, req[p].pc = "idle",
             req' = [req EXCEPT ![s] = Idle, ![p] = Pulling(i, req[s].title)]
      PROVE  Fresh'
  <2>1. p \in Workers /\ p # s
    BY <1>5 DEF Workers, SaveTitle
  <2>2. /\ \A w \in Workers \ {s, p} : req'[w] = req[w]
        /\ req'[s] = Idle /\ req'[p] = Pulling(i, req[s].title)
    BY <1>1, <1>5, <2>1 DEF TypeOK
  <2>3. req'[p].pc = "pull" /\ req'[p].id = i /\ req'[p].title = req[s].title
    BY <2>2 DEF Pulling, Idle
  <2>4. Known(p)'
    BY <1>2, <2>3 DEF Known, Actor, Asking, Target, Written, Titled
  <2>5. Known(s)'
    BY <2>2, Quiet DEF Idle
  <2>6. ASSUME NEW w \in Workers, w \notin stale', w # s, w # p PROVE Known(w)'
    BY <1>3, <2>2, <2>6, Unmoved
  <2>7. QED
    BY <2>4, <2>5, <2>6 DEF Fresh
<1>6. QED
  BY <1>2, <1>4, <1>5

LEMMA FreshStep == IInv /\ [Next]_vars => Fresh'
<1> SUFFICES ASSUME IInv, [Next]_vars PROVE Fresh'
  OBVIOUS
<1>0. /\ users \in [Ids -> User] /\ titles \in [TitleIds -> Title]
      /\ req \in [Workers -> Request]
      /\ \A w \in Workers : req[w] \in Request /\ Sane(w)
  BY DEF IInv, TypeOK, Request, Basis
<1>1. CASE UNCHANGED vars
  <2>1. ASSUME NEW w \in Workers, w \notin stale PROVE Known(w)'
    <3>1. TypeOK /\ Sane(w) /\ Known(w)
      BY <2>1 DEF IInv, Basis, Fresh
    <3>2. QED
      BY <1>1, <3>1, Frame DEF vars
  <2>2. QED
    BY <1>1, <2>1 DEF vars, Fresh
<1>2. CASE Stop
  <2>1. ASSUME NEW w \in Workers PROVE req'[w].pc = "idle"
    BY <1>2 DEF Stop, Idle
  <2>2. QED
    BY <2>1, Quiet DEF Fresh
<1>3. ASSUME NEW s \in Workers, MustHavePrivilege(s) PROVE Fresh'
  <2>1. PICK what \in asked, l \in Logins :
          /\ \E i \in FindActiveUserWithLogin(l) : PermittedTo(users[i], Asks[what])
          /\ req' = [req EXCEPT ![s] = [Idle EXCEPT !.pc = "admitted", !.what = what, !.login = l]]
    BY <1>3 DEF MustHavePrivilege
  <2> DEFINE r == [Idle EXCEPT !.pc = "admitted", !.what = what, !.login = l]
  <2>2. r.pc = "admitted" /\ r.what = what /\ r.login = l
    BY DEF Idle
  <2>3. req' = [req EXCEPT ![s] = r] /\ req'[s] = r
    BY <1>0, <2>1
  <2> HIDE DEF r
  <2>4. ReadOnly /\ UNCHANGED <<users, titles>>
    BY <1>3 DEF MustHavePrivilege, ReadOnly
  <2>5. Actor(s)'
    BY <2>1, <2>2, <2>3, <2>4 DEF Actor, FindActiveUserWithLogin, PermittedTo
  <2>6. (Target(s) /\ Written(s) /\ Titled(s))'
    BY <2>2, <2>3 DEF Target, Written, Titled
  <2>7. QED
    BY <2>3, <2>4, <2>5, <2>6, FreshRead DEF Known
<1>4. ASSUME NEW s \in Workers, Response(s) PROVE Fresh'
  <2>1. /\ req[s].pc = "admitted" /\ ReadOnly /\ UNCHANGED <<users, titles>>
        /\ req[s] \in Request
    BY <1>0, <1>4 DEF Response, ReadOnly
  <2>2. CASE FindActiveUserWithLogin(req[s].login) = {}
    <3> DEFINE r == [req[s] EXCEPT !.pc = "answer"]
    <3>1. req' = [req EXCEPT ![s] = r]
      BY <1>4, <2>2 DEF Response
    <3>2. ~Known(s)
      BY <2>1, <2>2 DEF Known, Actor, Asking
    <3> HIDE DEF r
    <3>3. QED
      BY <2>1, <3>1, <3>2, FreshRead
  <2>3. ASSUME NEW i \in FindActiveUserWithLogin(req[s].login),
               req' = [req EXCEPT ![s].pc = "answer", ![s].actor = i, ![s].as = users[i]]
        PROVE  Fresh'
    <3> DEFINE r == [req[s] EXCEPT !.pc = "answer", !.actor = i, !.as = users[i]]
    <3>1. /\ r.pc = "answer" /\ r.actor = i /\ r.as = users[i] /\ r.what = req[s].what
          /\ r.login = req[s].login
      BY <2>1 DEF Request
    <3>2. req' = [req EXCEPT ![s] = r] /\ req'[s] = r
      BY <1>0, <2>3
    <3> HIDE DEF r
    <3>3. Known(s) => Actor(s)'
      BY <2>1, <3>1, <3>2 DEF Known, Actor, Asking, FindActiveUserWithLogin
    <3>4. (Target(s) /\ Written(s) /\ Titled(s))'
      BY <3>1, <3>2 DEF Target, Written, Titled
    <3>5. QED
      BY <2>1, <3>2, <3>3, <3>4, FreshRead DEF Known
  <2>4. QED
    BY <1>4, <2>2, <2>3 DEF Response
<1>5. ASSUME NEW s \in Workers, Refuse(s) PROVE Fresh'
  BY <1>5, FreshDone DEF Refuse, ReadOnly
<1>6. ASSUME NEW s \in Workers, GetUserForSave(s) PROVE Fresh'
  <2>1. PICK f \in Form(s) :
          \/ \E i \in KnownUsers :
               /\ CanModifyUser(req[s].actor, req[s].as, i)
               /\ Ready(s, "save user", i, [users[i] EXCEPT !.roles = (@ \cup f.grant) \ f.deny])
          \/ \E l \in Logins :
               /\ LoginFree(l)
               /\ Ready(s, "save user", None, [login |-> l, roles |-> f.grant, active |-> TRUE])
    BY <1>6 DEF GetUserForSave
  <2>2. \A role \in f.grant \cup f.deny : CanGrant(req[s].as, role)
    BY DEF Form
  <2>3. req[s].pc = "answer" /\ ReadOnly
    BY <1>6 DEF GetUserForSave
  <2>4. ASSUME NEW i \in KnownUsers, CanModifyUser(req[s].actor, req[s].as, i),
               Ready(s, "save user", i, [users[i] EXCEPT !.roles = (@ \cup f.grant) \ f.deny])
        PROVE  Fresh'
    <3> DEFINE user == [users[i] EXCEPT !.roles = (@ \cup f.grant) \ f.deny]
    <3>1. i \in Ids /\ i # None
      BY AccountsAssumption DEF KnownUsers
    <3>2. /\ user.active = users[i].active
          /\ user.roles = (users[i].roles \cup f.grant) \ f.deny
      BY <1>0, <3>1 DEF User
    <3>3. Ready(s, "save user", i, user)
      BY <2>4
    <3> HIDE DEF user
    <3>4. QED
      BY <2>2, <2>3, <2>4, <3>1, <3>2, <3>3, ReadyStep
  <2>5. ASSUME NEW l \in Logins, LoginFree(l),
               Ready(s, "save user", None, [login |-> l, roles |-> f.grant, active |-> TRUE])
        PROVE  Fresh'
    <3> DEFINE user == [login |-> l, roles |-> f.grant, active |-> TRUE]
    <3>1. user.login = l /\ user.roles = f.grant
      OBVIOUS
    <3>2. Ready(s, "save user", None, user)
      BY <2>5
    <3> HIDE DEF user
    <3>3. NoUser.roles = {}
      BY DEF NoUser
    <3>4. LoginFree(user.login)
      BY <2>5, <3>1
    <3>5. QED
      BY <2>2, <2>3, <3>1, <3>2, <3>3, <3>4, ReadyStep
  <2>6. QED
    BY <2>1, <2>4, <2>5
<1>7. ASSUME NEW s \in Workers, GetUserForDeactivate(s) PROVE Fresh'
  <2>1. PICK i \in KnownUsers : /\ CanModifyUser(req[s].actor, req[s].as, i)
                                /\ Ready(s, "deactivate", i, NoUser)
    BY <1>7 DEF GetUserForDeactivate
  <2>2. req[s].pc = "answer" /\ ReadOnly /\ i \in Ids
    BY <1>7 DEF GetUserForDeactivate, KnownUsers
  <2>3. QED
    BY <2>1, <2>2, ReadyStep
<1>8. ASSUME NEW s \in Workers, GetTitle(s) PROVE Fresh'
  <2>1. /\ req[s].pc = "answer" /\ ReadOnly /\ UNCHANGED <<users, titles>>
        /\ req[s] \in Request /\ req[s].id = None /\ req[s].title = NoTitle
    BY <1>0, <1>8 DEF GetTitle, Sane, ReadOnly
  <2>2. ASSUME NEW i \in KnownTitles, NEW pc \in {"loaded title", "pull"},
               req' = [req EXCEPT ![s].pc = pc, ![s].id = i, ![s].title = titles[i]]
        PROVE  Fresh'
    <3> DEFINE r == [req[s] EXCEPT !.pc = pc, !.id = i, !.title = titles[i]]
    <3>1. req' = [req EXCEPT ![s] = r] /\ req'[s] = r
      BY <1>0, <2>2
    <3>2. /\ r.pc = pc /\ r.id = i /\ r.title = titles[i] /\ r.login = req[s].login
          /\ r.actor = req[s].actor /\ r.as = req[s].as /\ r.what = req[s].what
      BY <2>1 DEF Request
    <3> HIDE DEF r
    <3>3. i # None
      BY AccountsAssumption DEF KnownTitles
    <3>4. Titled(s)'
      BY <2>1, <3>1, <3>2, <3>3 DEF Titled
    <3>5. QED
      BY <2>1, <3>1, <3>2, <3>4, TitleStep
  <2>3. ASSUME req' = [req EXCEPT ![s].pc = "loaded title"] PROVE Fresh'
    <3> DEFINE r == [req[s] EXCEPT !.pc = "loaded title"]
    <3>1. req' = [req EXCEPT ![s] = r] /\ req'[s] = r
      BY <1>0, <2>3
    <3>2. /\ r.pc = "loaded title" /\ r.id = None /\ r.title = NoTitle /\ r.login = req[s].login
          /\ r.actor = req[s].actor /\ r.as = req[s].as /\ r.what = req[s].what
      BY <2>1 DEF Request
    <3> HIDE DEF r
    <3>3. req'[s].pc = "loaded title" /\ req'[s].title = NoTitle /\ req'[s].id = None
      BY <3>1, <3>2
    <3>4. Titled(s)'
      BY <3>3 DEF Titled
    <3>5. QED
      BY <2>1, <3>1, <3>2, <3>4, TitleStep
  <2>4. QED
    BY <1>8, <2>2, <2>3 DEF GetTitle
<1>9. ASSUME NEW s \in Workers, SetTitleData(s) PROVE Fresh'
  <2>1. PICK lccn \in LCCNs, dir \in Dirs \cup {None} :
          LET t == Entered(s, lccn, dir)
          IN  /\ ~\E i \in KnownTitles \ {req[s].id} : Twins(t, titles[i])
              /\ req' = [req EXCEPT ![s].pc = "save title", ![s].title = t]
    BY <1>9 DEF SetTitleData
  <2> DEFINE t == Entered(s, lccn, dir)
             r == [req[s] EXCEPT !.pc = "save title", !.title = t]
  <2>2. req' = [req EXCEPT ![s] = r] /\ req'[s] = r
    BY <1>0, <2>1
  <2>3. /\ r.pc = "save title" /\ r.id = req[s].id /\ r.title = t /\ r.login = req[s].login
        /\ r.actor = req[s].actor /\ r.as = req[s].as /\ r.what = req[s].what
    BY <1>0 DEF Request
  <2>4. /\ req[s].pc = "loaded title" /\ ReadOnly /\ UNCHANGED <<users, titles>>
    BY <1>9 DEF SetTitleData, ReadOnly
  <2>5. req[s].title.valid => t.lccn = req[s].title.lccn \/ IsAdmin(req[s].as)
    BY DEF Entered, MayChangeLCCN, AdminsOnly, PermittedTo, IsAdmin
  <2>6. \A i \in KnownTitles \ {req[s].id} : ~Twins(t, titles[i])
    BY <2>1
  <2> HIDE DEF r, t
  <2>7. Known(s) => Titled(s)'
    BY <2>2, <2>3, <2>4, <2>5, <2>6 DEF Known, Titled, KnownTitles, Twins, IsAdmin
  <2>8. QED
    BY <2>2, <2>3, <2>4, <2>7, TitleStep
<1>10. ASSUME NEW s \in Workers, SaveUser(s) \/ Deactivate(s) \/ PullMARCForTitle(s) PROVE Fresh'
  BY <1>10, FreshDone DEF SaveUser, Deactivate, PullMARCForTitle
<1>11. QED
  BY <1>1, <1>2, <1>3, <1>4, <1>5, <1>6, <1>7, <1>8, <1>9, <1>10, SaveTitleStep
  DEF Next, UserPages, TitlePages, Workers

LEMMA InitInv == Init => IInv
<1> SUFFICES ASSUME Init PROVE IInv
  OBVIOUS
<1>1. PICK x \in Starts : users = x.users /\ asked = x.asked
  BY DEF Init
<1>2. x \in Start /\ Sound(x)
  BY <1>1, AccountsAssumption
<1>3. users \in [Ids -> User] /\ asked \subseteq DOMAIN Asks
  BY <1>1, <1>2 DEF Start
<1>4. titles \in [TitleIds -> Title] /\ req \in [Workers -> Request] /\ stale = {}
  BY IdleType DEF Init
<1>5. Blank /\ ValidatedKnown
  BY <1>1, <1>2 DEF Sound, Blank, Init, ValidatedKnown, NoTitle
<1>6. \A w \in Workers : Sane(w) /\ Known(w)
  <2>1. ~NoTitle.valid
    BY DEF NoTitle
  <2>2. QED
    BY <2>1 DEF Init, Sane, Known, Actor, Target, Written, Titled, Asking, Idle
<1>7. QED
  BY <1>3, <1>4, <1>5, <1>6 DEF IInv, Basis, Fresh, TypeOK, Request

LEMMA InvStep == IInv /\ [Next]_vars => IInv'
BY TypeStep, BasisStep, FreshStep DEF IInv

----------------------------------------------------------------------------
(* Who writes a user, and who a title. *)
LEMMA UserWriter ==
  ASSUME TypeOK, [Next]_vars, users' # users
  PROVE  \E s \in Slots : s \in Workers /\ Writes(s) /\ UNCHANGED titles /\ (SaveUser(s) \/ Deactivate(s))
<1>1. PICK s \in Slots : SaveUser(s) \/ Deactivate(s)
  BY DEF Next, vars, Stop, MustHavePrivilege, Response, Refuse, UserPages, TitlePages, ReadOnly,
         GetUserForSave, GetUserForDeactivate, GetTitle, SetTitleData, SaveTitle,
         PullMARCForTitle
<1>2. req[s].pc # "idle" /\ req' = [req EXCEPT ![s] = Idle] /\ s \in Workers /\ UNCHANGED titles
  BY <1>1 DEF SaveUser, Deactivate, Done, Workers
<1>3. req'[s].pc = "idle"
  BY <1>2 DEF TypeOK, Idle
<1>4. QED
  BY <1>1, <1>2, <1>3 DEF Writes

LEMMA TitleWriter ==
  ASSUME TypeOK, [Next]_vars, titles' # titles
  PROVE  \E s \in Workers : /\ Writes(s) /\ UNCHANGED users
                            /\ (s \in Slots /\ SaveTitle(s)) \/ PullMARCForTitle(s)
<1>1. PICK s \in Workers : (s \in Slots /\ SaveTitle(s)) \/ PullMARCForTitle(s)
  BY DEF Next, vars, Stop, MustHavePrivilege, Response, Refuse, UserPages, TitlePages, ReadOnly,
         GetUserForSave, GetUserForDeactivate, GetTitle, SetTitleData, SaveUser,
         Deactivate, Workers
<1>2. UNCHANGED users
  BY <1>1 DEF SaveTitle, PullMARCForTitle
<1>3. Writes(s)
  <2>1. req[s].pc # "idle" /\ Idle.pc = "idle"
    BY <1>1 DEF SaveTitle, PullMARCForTitle, Idle
  <2>2. req'[s] = Idle
    <3>1. CASE Done(s)
      BY <3>1 DEF Done, TypeOK
    <3>2. ASSUME NEW p \in Pulls, NEW t, req[p].pc = "idle",
                 req' = [req EXCEPT ![s] = Idle, ![p] = t]
          PROVE  req'[s] = Idle
      <4>1. s # p
        BY <2>1, <3>2
      <4>2. QED
        BY <3>2, <4>1 DEF TypeOK
    <3>3. QED
      BY <1>1, <3>1, <3>2 DEF SaveTitle, PullMARCForTitle
  <2>3. QED
    BY <2>1, <2>2 DEF Writes
<1>4. QED
  BY <1>1, <1>2, <1>3

(* A user who is written, or deactivated, leaves an administrator there: whom an
   administrator modifies is not himself.                                   *)
LEMMA AdminStays ==
  ASSUME IInv, NEW s \in Workers, Known(s), NEW i \in Ids, HasAdmin,
         req[s].pc \in {"save user", "deactivate"},
         req[s].id = i \/ (req[s].id = None /\ i \notin KnownUsers),
         \A j \in Ids \ {i} : users'[j] = users[j]
  PROVE  HasAdmin'
<1>1. PICK w \in Ids : users[w].active /\ IsAdmin(users[w])
  BY DEF HasAdmin
<1>2. CASE w # i
  <2>1. users'[w] = users[w]
    BY <1>1, <1>2
  <2>2. users'[w].active /\ IsAdmin(users[w])'
    BY <1>1, <2>1 DEF IsAdmin
  <2>3. QED
    BY <1>1, <2>2 DEF HasAdmin, IsAdmin
<1>3. CASE w = i
  <2>1. i # None /\ i \in KnownUsers
    <3>1. ~NoUser.active
      BY DEF NoUser
    <3>2. users[i].login # None
      BY <1>1, <1>3, <3>1 DEF IInv, Basis, Blank
    <3>3. QED
      BY <3>2, AccountsAssumption DEF KnownUsers
  <2>2. CanModifyUser(req[s].actor, req[s].as, i)
    BY <2>1 DEF Known, Target
  <2>3. IsAdmin(req[s].as) /\ req[s].actor # i
    BY <1>1, <1>3, <2>2 DEF CanModifyUser
  <2>4. /\ req[s].actor \in Ids /\ users[req[s].actor] = req[s].as
        /\ users[req[s].actor].active
    BY DEF Known, Actor, Asking, FindActiveUserWithLogin
  <2>5. QED
    BY <2>3, <2>4 DEF HasAdmin, IsAdmin
<1>4. QED
  BY <1>2, <1>3

LEMMA AdminStep ==
  ASSUME IInv, [Next]_vars, HasAdmin, ~HasAdmin'
  PROVE  OnlyIfStale
<1>1. TypeOK /\ Basis /\ users \in [Ids -> User]
  BY DEF IInv, TypeOK
<1>2. users' # users
  BY DEF HasAdmin, IsAdmin
<1>3. PICK s \in Workers : Writes(s) /\ (SaveUser(s) \/ Deactivate(s))
  BY <1>1, <1>2, UserWriter
<1>4. SUFFICES ASSUME s \notin stale PROVE FALSE
  BY <1>3 DEF OnlyIfStale
<1>5. Known(s) /\ Sane(s)
  BY <1>1, <1>4 DEF IInv, Fresh, Basis
<1>6. PICK i \in Ids : /\ req[s].id = i \/ (req[s].id = None /\ i \notin KnownUsers)
                      /\ \A j \in Ids \ {i} : users'[j] = users[j]
  <2>1. CASE SaveUser(s)
    BY <1>1, <2>1, UserWritten
  <2>2. CASE Deactivate(s)
    BY <1>1, <1>5, <2>2 DEF Deactivate, Sane, KnownUsers
  <2>3. QED
    BY <1>3, <2>1, <2>2
<1>7. req[s].pc \in {"save user", "deactivate"}
  BY <1>3 DEF SaveUser, Deactivate
<1>8. QED
  BY <1>5, <1>6, <1>7, AdminStays

(* Two users who get one login, or two titles one LCCN or directory. *)
LEMMA NamesakeStep ==
  ASSUME IInv, [Next]_vars, NEW i \in Ids, NEW j \in Ids, Namesakes(i, j)', ~Namesakes(i, j)
  PROVE  OnlyIfStale
<1>1. TypeOK /\ Basis /\ users \in [Ids -> User]
  BY DEF IInv, TypeOK
<1>2. users' # users
  BY DEF Namesakes
<1>3. PICK s \in Workers : Writes(s) /\ (SaveUser(s) \/ Deactivate(s))
  BY <1>1, <1>2, UserWriter
<1>4. SUFFICES ASSUME s \notin stale PROVE FALSE
  BY <1>3 DEF OnlyIfStale
<1>5. Known(s) /\ Sane(s)
  BY <1>1, <1>4 DEF IInv, Fresh, Basis
<1>6. CASE Deactivate(s)
  <2>1. \A k \in Ids : /\ users'[k].login = users[k].login
                       /\ users'[k].active => users[k].active
    BY <1>1, <1>6 DEF Deactivate, User
  <2>2. QED
    BY <2>1 DEF Namesakes
<1>7. CASE SaveUser(s)
  <2>1. PICK k \in Ids :
          /\ users' = [users EXCEPT ![k] = req[s].user] /\ users'[k] = req[s].user
          /\ req[s].id = k \/ (req[s].id = None /\ k \notin KnownUsers)
          /\ k \in KnownUsers => req[s].user.login = users[k].login
    BY <1>1, <1>7, UserWritten
  <2>2. req[s].pc = "save user" /\ \A h \in Ids \ {k} : users'[h] = users[h]
    BY <1>1, <1>7, <2>1 DEF SaveUser
  <2>3. CASE req[s].id # None
    <3>1. users'[k].login = users[k].login /\ users'[k].active = users[k].active
      BY <1>5, <2>1, <2>2, <2>3 DEF Known, Written, Sane
    <3>2. QED
      BY <2>2, <3>1 DEF Namesakes
  <2>4. CASE req[s].id = None
    <3>1. \A h \in Ids : users[h].active => users[h].login # req[s].user.login
      BY <1>5, <2>2, <2>4 DEF Known, Written, LoginFree, FindActiveUserWithLogin
    <3>2. /\ i # j /\ users'[i].login = users'[j].login
          /\ users'[i].active /\ users'[j].active
      BY DEF Namesakes
    <3>3. i = k \/ j = k
      BY <2>2 DEF Namesakes
    <3>4. PICK h \in {i, j} \ {k} : users'[h] = users[h] /\ h \in Ids
      BY <2>2, <3>2, <3>3
    <3>5. users[h].active /\ users[h].login = req[s].user.login
      BY <2>1, <3>2, <3>3, <3>4
    <3>6. QED
      BY <3>1, <3>4, <3>5
  <2>5. QED
    BY <2>3, <2>4
<1>8. QED
  BY <1>3, <1>6, <1>7

LEMMA TwinStep ==
  ASSUME IInv, [Next]_vars, NEW i \in TitleIds, NEW j \in TitleIds,
         TwinTitles(i, j)', ~TwinTitles(i, j)
  PROVE  OnlyIfStale
<1>1. TypeOK /\ Basis /\ titles \in [TitleIds -> Title]
  BY DEF IInv, TypeOK
<1>2. titles' # titles
  BY DEF TwinTitles, KnownTitles, Twins
<1>3. PICK s \in Workers : Writes(s) /\ (SaveTitle(s) \/ PullMARCForTitle(s))
  BY <1>1, <1>2, TitleWriter
<1>4. SUFFICES ASSUME s \notin stale PROVE FALSE
  BY <1>3 DEF OnlyIfStale
<1>5. Known(s) /\ Sane(s)
  BY <1>1, <1>4 DEF IInv, Fresh, Basis
<1>6. CASE PullMARCForTitle(s)
  <2>1. /\ req[s].id \in TitleIds /\ titles[req[s].id] = req[s].title /\ req[s].title \in Title
    BY <1>1, <1>5, <1>6 DEF PullMARCForTitle, Known, Titled, Sane, KnownTitles, TypeOK
  <2>2. titles' = [titles EXCEPT ![req[s].id] = [req[s].title EXCEPT !.valid = TRUE]]
    BY <1>2, <1>6 DEF PullMARCForTitle
  <2>3. \A k \in TitleIds : titles'[k].lccn = titles[k].lccn /\ titles'[k].dir = titles[k].dir
    BY <1>1, <2>1, <2>2 DEF Title
  <2>4. QED
    BY <2>3 DEF TwinTitles, KnownTitles, Twins
<1>7. CASE SaveTitle(s)
  <2>1. PICK k \in TitleIds :
          /\ titles' = [titles EXCEPT ![k] = req[s].title] /\ titles'[k] = req[s].title
          /\ req[s].id = k \/ (req[s].id = None /\ k \notin KnownTitles)
    BY <1>1, <1>7, TitleWritten
  <2>2. req[s].pc = "save title" /\ \A h \in TitleIds \ {k} : titles'[h] = titles[h]
    BY <1>1, <1>7, <2>1 DEF SaveTitle
  <2>3. \A h \in KnownTitles \ {k} : ~Twins(req[s].title, titles[h])
    BY <1>5, <2>1, <2>2, AccountsAssumption DEF Known, Titled, KnownTitles
  <2>4. /\ i # j /\ titles'[i].lccn # None /\ titles'[j].lccn # None
        /\ \/ titles'[i].lccn = titles'[j].lccn
           \/ titles'[i].dir # None /\ titles'[i].dir = titles'[j].dir
    BY DEF TwinTitles, KnownTitles, Twins
  <2>5. i = k \/ j = k
    BY <2>2 DEF TwinTitles, KnownTitles, Twins
  <2>6. PICK h \in {i, j} \ {k} : titles'[h] = titles[h] /\ h \in TitleIds
    BY <2>2, <2>4, <2>5
  <2>7. h \in KnownTitles \ {k}
    BY <2>4, <2>6 DEF KnownTitles
  <2>8. \/ req[s].title.lccn = titles[h].lccn
        \/ req[s].title.dir # None /\ req[s].title.dir = titles[h].dir
    BY <2>1, <2>4, <2>5, <2>6
  <2>9. QED
    BY <2>3, <2>7, <2>8 DEF Twins
<1>8. QED
  BY <1>3, <1>6, <1>7

(* Whoever changes a user is another, and unless overtaken may. *)
LEMMA UserStep ==
  ASSUME IInv, [Next]_vars, NEW i \in Ids, users'[i] # users[i]
  PROVE  \E s \in Slots : /\ Writes(s) /\ req[s].actor # i
                          /\ i \in KnownUsers => users'[i].login = users[i].login
                          /\ s \notin stale => Entitled(req[s], i)
<1>1. TypeOK /\ Basis /\ users \in [Ids -> User] /\ None \notin Ids
  BY AccountsAssumption DEF IInv, TypeOK
<1>2. PICK s \in Slots : s \in Workers /\ Writes(s) /\ (SaveUser(s) \/ Deactivate(s))
  BY <1>1, UserWriter
<1>3. Sane(s) /\ req[s] \in Request
  BY <1>1, <1>2 DEF Basis, TypeOK, Request
<1>4. ASSUME s \notin stale, req[s].what \in {"save_user", "deactivate"},
             req[s].pc \in {"save user", "deactivate"}
      PROVE  /\ \E j \in FindActiveUserWithLogin(req[s].login) : PermittedTo(users[j], ModifyUsers)
             /\ req[s].actor \in Ids /\ users[req[s].actor] = req[s].as
  <2>1. Asks["save_user"] = ModifyUsers /\ Asks["deactivate"] = ModifyUsers
    BY DEF Asks
  <2>2. Known(s)
    BY <1>2, <1>4 DEF IInv, Fresh
  <2>3. QED
    BY <1>4, <2>1, <2>2 DEF Known, Actor, Asking, FindActiveUserWithLogin
<1>5. CASE SaveUser(s)
  <2>1. PICK k \in Ids :
          /\ users' = [users EXCEPT ![k] = req[s].user] /\ users'[k] = req[s].user
          /\ req[s].id = k \/ (req[s].id = None /\ k \notin KnownUsers)
          /\ k \in KnownUsers => req[s].user.login = users[k].login
    BY <1>1, <1>2, <1>5, UserWritten
  <2>2. k = i /\ req[s].pc = "save user" /\ req[s].what = "save_user"
    BY <1>1, <1>3, <1>5, <2>1 DEF SaveUser, Sane
  <2>3. req[s].actor # i
    BY <1>1, <1>3, <2>1, <2>2 DEF Sane
  <2>4. req[s].user.roles \subseteq Roles /\ users[i].roles \subseteq Roles
    BY <1>1, <1>3 DEF Request, User
  <2>5. ASSUME s \notin stale PROVE Entitled(req[s], i)
    <3>1. /\ \E j \in FindActiveUserWithLogin(req[s].login) : PermittedTo(users[j], ModifyUsers)
          /\ req[s].actor \in Ids /\ users[req[s].actor] = req[s].as
      BY <1>4, <2>2, <2>5
    <3>2. Known(s)
      BY <1>2, <2>5 DEF IInv, Fresh
    <3>3. CASE req[s].id = i
      <4>1. /\ CanModifyUser(req[s].actor, req[s].as, i) /\ users'[i].active = users[i].active
            /\ \A role \in Roles : ~(role \in users'[i].roles <=> role \in users[i].roles)
                                     => CanGrant(req[s].as, role)
        BY <1>1, <2>1, <2>2, <3>2, <3>3 DEF Known, Target, Written
      <4>2. QED
        BY <2>1, <2>2, <2>4, <3>1, <4>1 DEF Entitled, CanModifyUser, CanGrant
    <3>4. CASE req[s].id = None /\ i \notin KnownUsers
      <4>1. users[i] = NoUser /\ NoUser.roles = {}
        BY <1>1, <3>4 DEF Basis, Blank, KnownUsers, NoUser
      <4>2. \A role \in Roles : role \in users'[i].roles => CanGrant(req[s].as, role)
        BY <2>1, <2>2, <3>2, <3>4, <4>1 DEF Known, Written
      <4>3. QED
        BY <2>1, <2>2, <2>4, <3>1, <3>4, <4>1, <4>2 DEF Entitled, CanGrant, IsAdmin
    <3>5. QED
      BY <2>1, <2>2, <3>3, <3>4
  <2>6. QED
    BY <1>2, <2>1, <2>2, <2>3, <2>5
<1>6. CASE Deactivate(s)
  <2>1. /\ i = req[s].id /\ req[s].pc = "deactivate" /\ req[s].what = "deactivate"
        /\ req[s].actor # i
    BY <1>1, <1>3, <1>6 DEF Deactivate, Sane
  <2>2. /\ users'[i].login = users[i].login /\ ~users'[i].active
        /\ users'[i].roles = users[i].roles
    BY <1>1, <1>6, <2>1 DEF Deactivate, User
  <2>3. ASSUME s \notin stale PROVE Entitled(req[s], i)
    <3>1. /\ \E j \in FindActiveUserWithLogin(req[s].login) : PermittedTo(users[j], ModifyUsers)
          /\ req[s].actor \in Ids /\ users[req[s].actor] = req[s].as
      BY <1>4, <2>1, <2>3
    <3>2. CanModifyUser(req[s].actor, req[s].as, i)
      BY <1>1, <1>2, <2>1, <2>3 DEF IInv, Fresh, Known, Target
    <3>3. QED
      BY <2>2, <3>1, <3>2 DEF Entitled, CanModifyUser
  <2>4. QED
    BY <1>2, <2>1, <2>2, <2>3
<1>7. QED
  BY <1>2, <1>5, <1>6

(* Whoever changes the LCCN of a validated title is an administrator, or overtaken. *)
LEMMA LCCNStep ==
  ASSUME IInv, [Next]_vars, NEW i \in TitleIds, titles[i].valid, titles'[i].lccn # titles[i].lccn
  PROVE  \/ OnlyIfStale
         \/ \E s \in Slots : /\ req[s].pc = "save title" /\ Writes(s) /\ req[s].actor \in Ids
                             /\ users[req[s].actor].active /\ IsAdmin(users[req[s].actor])
<1>1. TypeOK /\ Basis /\ titles \in [TitleIds -> Title]
  BY DEF IInv, TypeOK
<1>2. titles' # titles
  OBVIOUS
<1>3. PICK s \in Workers : Writes(s) /\ ((s \in Slots /\ SaveTitle(s)) \/ PullMARCForTitle(s))
  BY <1>1, <1>2, TitleWriter
<1>4. SUFFICES ASSUME s \notin stale
               PROVE  /\ s \in Slots /\ req[s].pc = "save title" /\ req[s].actor \in Ids
                      /\ users[req[s].actor].active /\ IsAdmin(users[req[s].actor])
  BY <1>3 DEF OnlyIfStale
<1>5. Known(s) /\ Sane(s)
  BY <1>1, <1>4 DEF IInv, Fresh, Basis
<1>6. CASE PullMARCForTitle(s)
  <2>1. /\ req[s].id \in TitleIds /\ titles[req[s].id] = req[s].title /\ req[s].title \in Title
    BY <1>1, <1>5, <1>6 DEF PullMARCForTitle, Known, Titled, Sane, KnownTitles, TypeOK
  <2>2. titles' = [titles EXCEPT ![req[s].id] = [req[s].title EXCEPT !.valid = TRUE]]
    BY <1>2, <1>6 DEF PullMARCForTitle
  <2>3. titles'[i].lccn = titles[i].lccn
    BY <1>1, <2>1, <2>2 DEF Title
  <2>4. QED
    BY <2>3
<1>7. CASE s \in Slots /\ SaveTitle(s)
  <2>1. PICK k \in TitleIds :
          /\ titles' = [titles EXCEPT ![k] = req[s].title] /\ titles'[k] = req[s].title
          /\ req[s].id = k \/ (req[s].id = None /\ k \notin KnownTitles)
    BY <1>1, <1>7, TitleWritten
  <2>2. k = i /\ req[s].pc = "save title"
    BY <1>1, <1>7, <2>1 DEF SaveTitle
  <2>3. req[s].id = i /\ i # None
    BY <1>1, <2>1, <2>2, AccountsAssumption DEF Basis, ValidatedKnown, KnownTitles
  <2>4. IsAdmin(req[s].as)
    BY <1>5, <2>1, <2>2, <2>3 DEF Known, Titled
  <2>5. /\ req[s].actor \in Ids /\ users[req[s].actor] = req[s].as
        /\ users[req[s].actor].active
    BY <1>5, <2>2 DEF Known, Actor, Asking, FindActiveUserWithLogin
  <2>6. QED
    BY <1>7, <2>2, <2>4, <2>5
<1>8. QED
  BY <1>3, <1>6, <1>7

----------------------------------------------------------------------------
(* Every state of every behaviour is of its type. *)
THEOREM Types == Spec => []TypeOK
<1>1. Init => TypeOK
  BY InitInv DEF IInv
<1>2. QED
  BY <1>1, TypeStep, PTL DEF Spec

(* MustHavePrivilege, getUserForModify, applyRoles, setTitleData: what each request
   that was not overtaken goes by is so, however many others are in hand.   *)
THEOREM Invariance == Spec => []IInv
BY InitInv, InvStep, PTL DEF Spec

(* userhandler: nobody modifies himself, so the last administrator is lost only to
   a request that was overtaken.                                            *)
THEOREM AdminLostToStale == Spec => SomeAdmin
<1>1. IInv /\ [Next]_vars => [HasAdmin /\ ~HasAdmin' => OnlyIfStale]_vars
  BY AdminStep
<1>2. QED
  BY <1>1, Invariance, PTL DEF Spec, SomeAdmin

(* handleInvalidUser and titlehandler's setTitleData: two active users get one login,
   and two titles one LCCN or one SFTP directory, only by one who was overtaken. *)
THEOREM TwinsOfStale == Spec => NoTwins
<1>1. IInv /\ [Next]_vars =>
        [\/ /\ \A i, j \in Ids : Namesakes(i, j)' => Namesakes(i, j)
            /\ \A i, j \in TitleIds : TwinTitles(i, j)' => TwinTitles(i, j)
         \/ OnlyIfStale]_vars
  BY NamesakeStep, TwinStep
<1>2. QED
  BY <1>1, Invariance, PTL DEF Spec, NoTwins

(* getUserForModify and applyRoles: whoever changes a user is another and leaves the
   login alone; who was not overtaken may when it is written, and changes no
   right he could not give.                                                 *)
THEOREM UsersChangedByRight == Spec => ChangedByRight
<1>1. IInv /\ [Next]_vars =>
        [\A i \in Ids : users'[i] # users[i] =>
           \E s \in Slots : /\ Writes(s) /\ req[s].actor # i
                            /\ i \in KnownUsers => users'[i].login = users[i].login
                            /\ s \notin stale => Entitled(req[s], i)]_vars
  BY UserStep
<1>2. QED
  BY <1>1, Invariance, PTL DEF Spec, ChangedByRight

(* setTitleData and pullMARCForTitle: the LCCN of a validated title changes only by
   an administrator's save, or by one who was overtaken.                    *)
THEOREM ValidatedLCCNsKept == Spec => ValidatedKept
<1>1. IInv /\ [Next]_vars =>
        [\A i \in TitleIds :
           titles[i].valid /\ titles'[i].lccn # titles[i].lccn =>
             \/ OnlyIfStale
             \/ \E s \in Slots : /\ req[s].pc = "save title" /\ Writes(s) /\ req[s].actor \in Ids
                                 /\ users[req[s].actor].active /\ IsAdmin(users[req[s].actor])]_vars
  BY LCCNStep
<1>2. QED
  BY <1>1, Invariance, PTL DEF Spec, ValidatedKept

(* pullMARCForTitle and setTitleData: whoever overtakes whom, a title that is said to
   be validated has an LCCN of which there is a record.                     *)
THEOREM ValidatedAreKnown == Spec => []ValidatedKnown
<1>1. IInv => ValidatedKnown
  BY DEF IInv, Basis
<1>2. QED
  BY <1>1, Invariance, PTL
=============================================================================
