-------------------------------- MODULE Users --------------------------------
(***************************************************************************)
(* Accounts: userService (internal/services/user_service_impl.go) behind    *)
(* POST, PATCH and DELETE of /api/v2/users and POST, PUT and DELETE of      *)
(* version 1. Logins are in Authentication.                                *)
(***************************************************************************)
EXTENDS Requests

\* Register looks the e-mail up first; the repository meets the constraint later.
RegisterLookup(o) ==
  /\ At(o, "lookup") /\ Is(o, "POST", "users")
  /\ Goto(o, IF FindByEmail(Body(o).email) = {} THEN "write" ELSE "conflict")
  /\ Reads

RegisterWrite(o) ==
  /\ At(o, "write") /\ Is(o, "POST", "users")
  /\ \E r \in {"ok", "exists", "error"} :
       /\ InsertUser(On(o), Body(o), r)
       /\ Done(o, r, [ok |-> "show", exists |-> "conflict", error |-> "error"])
  /\ UNCHANGED <<seen, loaded, todo>>

\* Both handlers answer with GetUserByID.
ShowUser(o) == Resource(o) = "users" /\ ShowRow(o)

\* UpdateUser of version 2 reads the user, to complete the command from it.
ReadUser(o) == Is(o, "PATCH", "users") /\ ReadRow(o, TRUE, "reload")

\* Mutation: is_blocked is not copied from the user when the request leaves it out.
UserCommandUnblocks(o) ==
  LET base == IF Api(o) = "v2" THEN seen[o] ELSE loaded[o] IN
  [Filled(o, base) EXCEPT !.blocked = "blocked" \in Asked(o) /\ Body(o).blocked]

\* buildUpdateUserCmd: what the request leaves out comes from the row the handler
\* read. In version 1 it is the request alone; an empty e-mail or password stands
\* for no change, and a missing is_blocked for FALSE.
UserCommand(o) ==
  IF Api(o) = "v2" THEN Filled(o, seen[o])
  ELSE [Filled(o, loaded[o]) EXCEPT !.blocked = "blocked" \in Asked(o) /\ Body(o).blocked]

\* applyUserUpdates: the password is the one the service read, unless it is asked for.
UserUpdated(o) ==
  [UserCommand(o) EXCEPT
     !.password = IF "password" \in Asked(o) THEN Body(o).password ELSE loaded[o].password]

\* The e-mail the command names.
NewEmail(o, row) ==
  IF "email" \in Asked(o) THEN Body(o).email ELSE IF Api(o) = "v2" THEN seen[o].email ELSE row.email

\* Mutation: the e-mail is looked up even if it does not change.
AlwaysLooksUp(o, row) == TRUE

EmailChanges(o, row) == NewEmail(o, row) # row.email

\* loadUserForUpdate; a user who is gone is an internal error here.
ReloadUser(o) ==
  Resource(o) = "users" /\ ReloadRow(o, IF EmailChanges(o, Row(o)) THEN "email" ELSE "write", "error")

\* updateEmailIfNeeded
CheckEmail(o) ==
  /\ At(o, "email")
  /\ Goto(o, IF FindByEmail(NewEmail(o, loaded[o])) = {} THEN "write" ELSE "conflict")
  /\ Reads

\* UpdateUser; version 1 answers without showing the row.
WriteUser(o) ==
  /\ At(o, "write") /\ Resource(o) = "users" /\ Method(o) \in {"PATCH", "PUT"}
  /\ \E r \in {"ok", "none", "error"} :
       /\ UpdateUserRow(On(o), UserUpdated(o), r)
       /\ Done(o, r, [ok |-> IF Api(o) = "v2" THEN "show" ELSE "ok",
                      none |-> "notFound", error |-> "error"])
  /\ UNCHANGED <<seen, loaded, todo>>

\* DeleteUser; an owner of datasets stays, with an internal error.
DeleteUser(o) ==
  /\ At(o, "write") /\ Is(o, "DELETE", "users")
  /\ \E r \in {"ok", "none", "error"} :
       /\ DeleteUserRow(On(o), r)
       /\ Done(o, r, [ok |-> "ok", none |-> "notFound", error |-> "error"])
  /\ UNCHANGED <<seen, loaded, todo>>

NextUsers(o) ==
  \/ RegisterLookup(o) \/ RegisterWrite(o) \/ ShowUser(o)
  \/ ReadUser(o) \/ ReloadUser(o) \/ CheckEmail(o) \/ WriteUser(o) \/ DeleteUser(o)
=============================================================================
