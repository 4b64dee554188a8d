------------------------------ MODULE Accounts ------------------------------
(***************************************************************************)
(* The pages of the web application on which users and titles are managed: *)
(* requests that check who asks, load a row, change their copy of it and   *)
(* write the whole row back, with no transaction and no lock; and the pull *)
(* of a title's MARC record, which goes on behind such a request and writes *)
(* its copy back when the library has answered.                            *)
(***************************************************************************)
CONSTANTS
  Ids,        (* the ids rows of the users table may get                    *)
  Logins,     (* the logins people have                                     *)
  TitleIds,   (* the ids rows of the titles table may get                   *)
  LCCNs,      (* what may be entered as a title's LCCN ...                  *)
  MARC,       (* ... and those the library has a record of                  *)
  Starts,     (* who there is at first, and what is ever asked: see Start   *)
  Dirs,       (* what may be entered as a title's SFTP directory            *)
  Slots,      (* bound: requests in hand at once                            *)
  Pulls,      (* bound: pulls of MARC records that go on behind an answer   *)
  Handed,     (* bound: the roles that are ever given or taken              *)
  None        (* no id, no login, no LCCN and no directory                  *)

VARIABLES
  asked,    (* what is asked in this behaviour                              *)
  users,    (* the users table                                              *)
  titles,   (* the titles table                                             *)
  req,      (* the requests and the pulls in hand                           *)
  stale     (* history, for the properties alone: those in hand of whom a row
               they go by has been changed since they read it               *)

vars == <<asked, users, titles, req, stale>>

Workers == Slots \cup Pulls

----------------------------------------------------------------------------
(* Privileges, by the roles that have them.  The roles that have nothing to do
   with these pages are left out.                                           *)
Roles == {"admin", "user manager", "title manager"}
ModifyUsers == {"user manager"}
ModifyTitles == {"title manager"}
AdminsOnly == {}   (* ModifyTitleSFTP, ModifyValidatedLCCNs *)

User == [login : Logins \cup {None}, roles : SUBSET Roles, active : BOOLEAN]
Title == [lccn : LCCNs \cup {None}, valid : BOOLEAN, dir : Dirs \cup {None}]

NoUser == [login |-> None, roles |-> {}, active |-> FALSE]
NoTitle == [lccn |-> None, valid |-> FALSE, dir |-> None]

KnownUsers == {i \in Ids : users[i].login # None}
KnownTitles == {i \in TitleIds : titles[i].lccn # None}

PermittedTo(u, privilege) == u.active /\ u.roles \cap (privilege \cup {"admin"}) # {}
IsAdmin(u) == "admin" \in u.roles

(* Mutant: who manages users may give them any role. *)
CanGrantAny(u, role) == PermittedTo(u, ModifyUsers)

CanGrant(u, role) ==
  /\ PermittedTo(u, ModifyUsers)
  /\ IsAdmin(u) \/ role \in u.roles

(* Mutant: people may modify themselves. *)
CanModifyAny(actor, u, i) ==
  \/ IsAdmin(u)
  \/ ~IsAdmin(users[i]) /\ PermittedTo(u, ModifyUsers)

CanModifyUser(actor, u, i) ==
  /\ actor # i
  /\ \/ IsAdmin(u)
     \/ ~IsAdmin(users[i]) /\ PermittedTo(u, ModifyUsers)

FindActiveUserWithLogin(l) == {i \in Ids : users[i].login = l /\ users[i].active}

----------------------------------------------------------------------------
(* A request: how far it is, what is asked, whose it is, the row of who asks
   as it was read, and the row it is about with the values to be written.   *)
Idle == [pc |-> "idle", what |-> "nothing", login |-> None, actor |-> None,
         as |-> NoUser, id |-> None, user |-> NoUser, title |-> NoTitle]

Asks == [save_user |-> ModifyUsers, deactivate |-> ModifyUsers,
         save_title |-> ModifyTitles, validate |-> ModifyTitles]

(* Somebody must be an administrator, and no two have one login.            *)
Start == [users : [Ids -> User], asked : SUBSET DOMAIN Asks]

Sound(start) ==
  /\ \E i \in Ids : start.users[i].active /\ IsAdmin(start.users[i])
  /\ \A i \in Ids : start.users[i].login = None => start.users[i] = NoUser
  /\ \A i, j \in Ids :
       start.users[i].login = start.users[j].login /\ start.users[i].login # None => i = j

ASSUME AccountsAssumption ==
  /\ None \notin Ids \cup Logins \cup TitleIds \cup LCCNs \cup Dirs
  /\ MARC \subseteq LCCNs /\ Handed \subseteq Roles /\ Slots \cap Pulls = {}
  /\ Starts \subseteq Start /\ \A start \in Starts : Sound(start)

Init ==
  /\ \E x \in Starts : users = x.users /\ asked = x.asked
  /\ titles = [i \in TitleIds |-> NoTitle]
  /\ req = [w \in Workers |-> Idle] /\ stale = {}

Done(w) == req' = [req EXCEPT ![w] = Idle]

(* The rows a request goes by: of who asks, and of whom or what it is about; one
   that has looked for another of the same login or LCCN has read them all.  *)
Asking == {"admitted", "answer", "save user", "deactivate", "loaded title", "save title"}

UsersRead(w) ==
  {i \in Ids :
     \/ /\ req[w].pc \in Asking
        /\ i = req[w].actor \/ i \in FindActiveUserWithLogin(req[w].login)
     \/ req[w].pc \in {"save user", "deactivate"} /\ req[w].id = i
     \/ req[w].pc = "save user" /\ req[w].id = None}

TitlesRead(w) ==
  {i \in TitleIds :
     \/ req[w].pc \in {"loaded title", "pull"} /\ req[w].id = i
     \/ req[w].pc = "save title"}

(* A request is overtaken when another changes what it goes by, until it ends. *)
Overtaken(w) ==
  \/ w \in stale
  \/ \E i \in UsersRead(w) : users'[i] # users[i]
  \/ \E i \in TitlesRead(w) : titles'[i] # titles[i]

Remember == stale' = {w \in Workers : req'[w].pc # "idle" /\ Overtaken(w)}

ReadOnly == UNCHANGED <<asked, users, titles>> /\ Remember

----------------------------------------------------------------------------
(* MustHavePrivilege looks the user up, and Response once more. *)
MustHavePrivilege(s) ==
  /\ req[s].pc = "idle"
  /\ \E what \in asked, l \in Logins :
       /\ \E i \in FindActiveUserWithLogin(l) : PermittedTo(users[i], Asks[what])
       /\ req' = [req EXCEPT ![s] = [Idle EXCEPT !.pc = "admitted", !.what = what, !.login = l]]
  /\ ReadOnly

Response(s) ==
  /\ req[s].pc = "admitted"
  /\ LET found == FindActiveUserWithLogin(req[s].login)
     IN  IF found = {} THEN req' = [req EXCEPT ![s].pc = "answer"]
         ELSE \E i \in found :
                req' = [req EXCEPT ![s].pc = "answer", ![s].actor = i, ![s].as = users[i]]
  /\ ReadOnly

(* A form that does not pass, or an error: nothing is written. *)
Refuse(s) ==
  /\ req[s].pc \in {"answer", "loaded title"}
  /\ Done(s)
  /\ ReadOnly

----------------------------------------------------------------------------
(* Users *)

(* applyRoles: some roles are given, some taken, the others left alone.     *)
Form(s) ==
  {f \in [grant : SUBSET Handed, deny : SUBSET Handed] :
     /\ f.grant \cap f.deny = {}
     /\ \A role \in f.grant \cup f.deny : CanGrant(req[s].as, role)}

(* Mutant: a login is not looked for. *)
AnyLogin(l) == l \in Logins

LoginFree(l) == FindActiveUserWithLogin(l) = {}

Ready(s, pc, i, user) ==
  req' = [req EXCEPT ![s].pc = pc, ![s].id = i, ![s].user = user]

GetUserForSave(s) ==
  /\ req[s].pc = "answer" /\ req[s].what = "save_user"
  /\ \E f \in Form(s) :
       \/ \E i \in KnownUsers :
            /\ CanModifyUser(req[s].actor, req[s].as, i)
            /\ Ready(s, "save user", i, [users[i] EXCEPT !.roles = (@ \cup f.grant) \ f.deny])
       \/ \E l \in Logins :
            /\ LoginFree(l)
            /\ Ready(s, "save user", None, [login |-> l, roles |-> f.grant, active |-> TRUE])
  /\ ReadOnly

(* The whole row is written, but the login of one there is already.         *)
SaveUser(s) ==
  /\ req[s].pc = "save user"
  /\ \E i \in IF req[s].id = None THEN Ids \ KnownUsers ELSE {req[s].id} :
       users' = [users EXCEPT ![i] = req[s].user]
  /\ Done(s)
  /\ UNCHANGED <<asked, titles>> /\ Remember

GetUserForDeactivate(s) ==
  /\ req[s].pc = "answer" /\ req[s].what = "deactivate"
  /\ \E i \in KnownUsers : /\ CanModifyUser(req[s].actor, req[s].as, i)
                           /\ Ready(s, "deactivate", i, NoUser)
  /\ ReadOnly

Deactivate(s) ==
  /\ req[s].pc = "deactivate"
  /\ users' = [users EXCEPT ![req[s].id].active = FALSE]
  /\ Done(s)
  /\ UNCHANGED <<asked, titles>> /\ Remember

----------------------------------------------------------------------------
(* Titles *)

(* FindTitleByID does not tell that there is none: the blank title it returns
   is saved as a new one.                                                   *)
GetTitle(s) ==
  /\ req[s].pc = "answer"
  /\ \/ /\ req[s].what = "save_title"
        /\ \E i \in KnownTitles :
             req' = [req EXCEPT ![s].pc = "loaded title", ![s].id = i, ![s].title = titles[i]]
     \/ /\ req[s].what = "save_title"
        /\ req' = [req EXCEPT ![s].pc = "loaded title"]
     \/ /\ req[s].what = "validate"
        /\ \E i \in KnownTitles :
             req' = [req EXCEPT ![s].pc = "pull", ![s].id = i, ![s].title = titles[i]]
  /\ ReadOnly

(* Mutant: that an LCCN was validated is not asked. *)
MayChangeAnyLCCN(s) == PermittedTo(req[s].as, ModifyTitles)

MayChangeLCCN(s) == ~req[s].title.valid \/ PermittedTo(req[s].as, AdminsOnly)

(* Mutant: a title is once and for all validated. *)
EnteredStillValid(s, lccn, dir) ==
  [lccn |-> IF MayChangeLCCN(s) THEN lccn ELSE req[s].title.lccn,
   valid |-> req[s].title.valid,
   dir |-> IF PermittedTo(req[s].as, AdminsOnly) THEN dir ELSE req[s].title.dir]

(* What becomes of a title when an LCCN and a directory are entered.        *)
Entered(s, lccn, dir) ==
  LET t == req[s].title
      anew == MayChangeLCCN(s) /\ lccn # t.lccn
  IN  [lccn |-> IF anew THEN lccn ELSE t.lccn,
       valid |-> t.valid /\ ~anew,
       dir |-> IF PermittedTo(req[s].as, AdminsOnly) THEN dir ELSE t.dir]

Twins(t, u) == t.lccn = u.lccn \/ (t.dir # None /\ t.dir = u.dir)

SetTitleData(s) ==
  /\ req[s].pc = "loaded title"
  /\ \E lccn \in LCCNs, dir \in Dirs \cup {None} :
       LET t == Entered(s, lccn, dir)
       IN  /\ t.lccn # None
           /\ ~\E i \in KnownTitles \ {req[s].id} : Twins(t, titles[i])
           /\ req' = [req EXCEPT ![s].pc = "save title", ![s].title = t]
  /\ ReadOnly

(* With an LCCN that is not validated the pull follows, behind the answer.  *)
Pulling(i, t) == [Idle EXCEPT !.pc = "pull", !.id = i, !.title = t]

SaveTitle(s) ==
  /\ req[s].pc = "save title"
  /\ \E i \in IF req[s].id = None THEN TitleIds \ KnownTitles ELSE {req[s].id} :
       /\ titles' = [titles EXCEPT ![i] = req[s].title]
       /\ \/ req[s].title.valid /\ Done(s)
          \/ /\ ~req[s].title.valid
             /\ \E p \in Pulls : /\ req[p].pc = "idle"
                                /\ req' = [req EXCEPT ![s] = Idle, ![p] = Pulling(i, req[s].title)]
  /\ UNCHANGED <<asked, users>> /\ Remember

(* The record may be there and not be had; then nothing is written.  A request to
   validate waits for its pull.                                             *)
PullMARCForTitle(w) ==
  /\ req[w].pc = "pull"
  /\ \/ UNCHANGED titles
     \/ /\ req[w].title.lccn \in MARC
        /\ titles' = [titles EXCEPT ![req[w].id] = [req[w].title EXCEPT !.valid = TRUE]]
  /\ Done(w)
  /\ UNCHANGED <<asked, users>> /\ Remember

(* The server stops: what was in hand is gone. *)
Stop ==
  /\ req' = [w \in Workers |-> Idle]
  /\ ReadOnly

----------------------------------------------------------------------------
UserPages(s) ==
  GetUserForSave(s) \/ SaveUser(s) \/ GetUserForDeactivate(s) \/ Deactivate(s)
TitlePages(s) == GetTitle(s) \/ SetTitleData(s) \/ SaveTitle(s)

Next ==
  \/ \E s \in Slots : MustHavePrivilege(s) \/ Response(s) \/ Refuse(s) \/ UserPages(s) \/ TitlePages(s)
  \/ \E w \in Workers : PullMARCForTitle(w)
  \/ Stop

Spec == Init /\ [][Next]_vars

----------------------------------------------------------------------------
(* Properties.  Nothing keeps two requests off one row.  What each promises by
   itself is therefore kept by all of them together, however they overlap, up to
   a write that goes by a row which has been changed since; and what holds also
   of those is said without the exception.                                  *)
Writes(w) == req'[w] # req[w]
OnlyIfStale == \E w \in stale : Writes(w)

(* Administrators may take rights from each other and deactivate each other, but
   not themselves: the last one is lost only to a request that goes by rows that
   are no longer so, such as that of another administrator who is one no more. *)
HasAdmin == \E i \in Ids : users[i].active /\ IsAdmin(users[i])
SomeAdmin == [][HasAdmin /\ ~HasAdmin' => OnlyIfStale]_vars

(* A login is one active user's, an LCCN and an SFTP directory one title's: two
   get one only by a request that looked for another before a row was written
   since, or by a pull that writes back what was changed behind it.         *)
Namesakes(i, j) ==
  /\ i # j /\ users[i].login # None /\ users[i].login = users[j].login
  /\ users[i].active /\ users[j].active

TwinTitles(i, j) == i # j /\ {i, j} \subseteq KnownTitles /\ Twins(titles[i], titles[j])

NoTwins ==
  [][\/ /\ \A i, j \in Ids : Namesakes(i, j)' => Namesakes(i, j)
        /\ \A i, j \in TitleIds : TwinTitles(i, j)' => TwinTitles(i, j)
     \/ OnlyIfStale]_vars

(* "User managers can assign any rights to others which have been assigned to
   them" (privilege/role.go): whoever changes a user is another, and leaves the
   login alone, whatever overtook him; and unless something did, he is asked for
   by one who manages users, is an administrator or leaves administrators alone
   and gives and takes only roles of his own, and nobody deactivated comes back. *)
Entitled(r, i) ==
  /\ \E j \in FindActiveUserWithLogin(r.login) : PermittedTo(users[j], ModifyUsers)
  /\ r.actor \in Ids
  /\ \/ IsAdmin(users[r.actor])
     \/ /\ ~IsAdmin(users[i])
        /\ users'[i].roles \subseteq users[i].roles \cup users[r.actor].roles
        /\ users[i].roles \subseteq users'[i].roles \cup users[r.actor].roles
  /\ i \in KnownUsers /\ users'[i].active => users[i].active

ChangedByRight ==
  [][\A i \in Ids : users'[i] # users[i] =>
       \E s \in Slots : /\ Writes(s) /\ req[s].actor # i
                        /\ i \in KnownUsers => users'[i].login = users[i].login
                        /\ s \notin stale => Entitled(req[s], i)]_vars

(* An LCCN that was validated is changed only by an administrator's save, or by
   one, or a pull, that does not know it to be validated by now.            *)
ValidatedKept ==
  [][\A i \in TitleIds :
       titles[i].valid /\ titles'[i].lccn # titles[i].lccn =>
         \/ OnlyIfStale
         \/ \E s \in Slots : /\ req[s].pc = "save title" /\ Writes(s) /\ req[s].actor \in Ids
                             /\ users[req[s].actor].active /\ IsAdmin(users[req[s].actor])]_vars

(* However saves and pulls overtake each other, a title said to be validated has
   an LCCN of which there is a record.                                      *)
ValidatedKnown == \A i \in TitleIds : titles[i].valid => titles[i].lccn \in MARC

TypeOK ==
  /\ asked \subseteq DOMAIN Asks
  /\ users \in [Ids -> User] /\ titles \in [TitleIds -> Title]
  /\ stale \subseteq Workers
  /\ req \in [Workers -> [pc : {"idle", "admitted", "answer", "save user", "deactivate",
                             "loaded title", "save title", "pull"},
                        what : DOMAIN Asks \cup {"nothing"}, login : Logins \cup {None},
                        actor : Ids \cup {None}, as : User, id : Ids \cup TitleIds \cup {None},
                        user : User, title : Title]]
=============================================================================
