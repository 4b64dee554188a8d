----------------------------- MODULE MCAccounts -----------------------------
(***************************************************************************)
(* Small instances of Accounts: three users on whom others work, and two   *)
(* titles that an administrator and a manager of titles work on.           *)
(***************************************************************************)
EXTENDS Accounts, TLC

CONSTANTS i1, i2, i3, t1, t2, s1, s2, p1, ann, bob

Only(login, roles) == [login |-> login, roles |-> roles, active |-> TRUE]

Users(second, third) ==
  (i1 :> Only(ann, {"admin"})) @@ (i2 :> second) @@ (i3 :> third)

MCStarts ==
  LET manager == Only(bob, {"title manager"})
  IN  {[users |-> Users(NoUser, NoUser), asked |-> {"save_user", "deactivate"}],
       [users |-> Users(manager, NoUser), asked |-> {"save_title", "validate"}]}

MCSymmetry == Permutations({i2, i3}) \cup Permutations(TitleIds) \cup Permutations(Slots)
=============================================================================
