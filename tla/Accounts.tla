-------------------------------- MODULE Accounts --------------------------------
(***************************************************************************)
(* Users, sessions and companies: identity/routers/auth.py, users.py and   *)
(* me.py, and the company rows of tenancy/routers/companies.py.            *)
(*                                                                         *)
(* A request authenticates, looks its rows up, checks what must be free or *)
(* exist, and writes; each of these is one SELECT, or the COMMIT, of its   *)
(* own READ COMMITTED transaction, and others commit in between.  SQL-     *)
(* Alchemy compares what it writes with what it read: an UPDATE names the  *)
(* columns that differ, fails when its row is gone, and a DELETE does not. *)
(* A user and its profile are one row here, as they come and go together;  *)
(* a transaction's inserts reach PostgreSQL in an order its keys allow.    *)
(***************************************************************************)
EXTENDS Naturals, FiniteSets

CONSTANTS
  Req,        \* requests
  Users, Companies, Tokens,   \* identifiers of rows, uuid4 or random
  Emails,     \* e-mail addresses as typed
  Normal,     \* Normal[e]: as normalize_email returns it
  Names,      \* names of companies
  Folded,     \* Folded[n]: without case
  Seed,       \* the rows there are at first
  Asks,       \* Asks[r]: what r may ask
  None

Roles == {"public", "member", "manager", "admin"}
User == [email : Emails, company : Companies, role : Roles]
Token == [user : Users, session : Tokens, live : BOOLEAN]

\* What the bodies and paths hold (identity/schemas, routers/auth.py); what else a
\* profile may be asked to change is left out.
Askable(a) ==
  LET given == DOMAIN a.set
  IN /\ a.by \in Users \cup {None}
     /\ "email" \in given => a.set.email \in Emails
     /\ "role" \in given => a.set.role \in Roles
     /\ "company" \in given => a.set.company \in Companies
     /\ "name" \in given => a.set.name \in Names
     /\ a.op \in {"login", "signup", "create", "invite"} => "email" \in given
     /\ a.op \in {"create", "invite"} => "role" \in given
     /\ a.op \in {"signup", "newCompany", "rename"} => "name" \in given
     /\ a.op = "update" => given \subseteq {"email", "company", "role"}
     /\ a.op = "updateMe" => given \subseteq {"email"}
     /\ a.op \in {"update", "deleteUser"} => a.on \in Users
     /\ a.op \in {"refresh", "logout"} => a.on \in Tokens
     /\ a.op \in {"rename", "deleteCompany"} => a.on \in Companies

ASSUME AccountsAssumption ==
  /\ Normal \in [Emails -> Emails] /\ \A e \in Emails : Normal[Normal[e]] = Normal[e]
  /\ DOMAIN Folded = Names
  /\ Seed.users \in [Users -> User \cup {None}]
  /\ Seed.companies \in [Companies -> Names \cup {None}]
  /\ Seed.tokens \in [Tokens -> Token \cup {None}]
  /\ None \notin User \cup Token \cup Names \cup Users \cup Companies \cup Tokens \cup Roles
  /\ \A r \in Req : \A a \in Asks[r] : Askable(a)

VARIABLES
  users, companies, tokens, \* the rows
  req,    \* the requests' local state
  used,   \* history: identifiers that were ever a row's, or are a session's
  shared, \* history: sessions two of whose requests used one token
  ended   \* history: sessions logged out of

vars == <<users, companies, tokens, req, used, shared, ended>>
rows == <<users, companies, tokens, used, shared, ended>>

Local == {"pc", "ask", "caller", "seen"}

TypeOK ==
  /\ users \in [Users -> User \cup {None}]
  /\ companies \in [Companies -> Names \cup {None}]
  /\ tokens \in [Tokens -> Token \cup {None}]
  /\ req = [r \in Req |-> req[r]]
  /\ \A r \in Req : DOMAIN req[r] = Local /\ req[r].caller \in User \cup {None}
  /\ used \subseteq Users \cup Companies \cup Tokens
  /\ shared \subseteq Tokens /\ ended \subseteq Tokens

\* What there is of a table.
There(table) == {x \in DOMAIN table : table[x] # None}

Init ==
  /\ users = Seed.users /\ companies = Seed.companies /\ tokens = Seed.tokens
  /\ req = [r \in Req |-> [pc |-> "idle", ask |-> None, caller |-> None, seen |-> None]]
  /\ used = There(Seed.users) \cup There(Seed.companies) \cup There(Seed.tokens)
            \cup {Seed.tokens[t].session : t \in There(Seed.tokens)}
  /\ shared = {} /\ ended = {}

At(r, pc, ops) == req[r].pc = pc /\ req[r].ask.op \in ops
Ask(r) == req[r].ask
Set(r) == req[r].ask.set
Caller(r) == req[r].caller
Seen(r) == req[r].seen
ByAdmin(r) == Caller(r).role = "admin"
Fresh(ids) == ids \ used

\* r goes on to pc, having seen x; or it has been answered.
Goes(r, pc, x) == req' = [req EXCEPT ![r].pc = pc, ![r].seen = x]
Answered(r) == Goes(r, "done", None)
Reading(r, pc, x) == Goes(r, pc, x) /\ UNCHANGED rows

-----------------------------------------------------------------------------
(* Who may ask what. *)

\* require_roles; None: no access token is asked for.
Callers ==
  [login |-> {None}, signup |-> {None}, refresh |-> {None}, logout |-> {None},
   invite |-> {"admin", "manager"}, create |-> {"admin", "manager"},
   update |-> {"admin", "manager"}, updateMe |-> Roles, deleteUser |-> {"admin"},
   newCompany |-> {"admin"}, rename |-> {"admin"}, deleteCompany |-> {"admin"}]

\* The early returns that read nothing else.
Admits(a, caller) ==
  /\ a.op \in {"create", "invite"} /\ caller.role = "admin" => "company" \in DOMAIN a.set
  /\ a.op = "create" /\ caller.role = "manager" => a.set.role = "member"
  /\ a.op = "invite" /\ caller.role = "manager" => a.set.role \in {"member", "public"}
  /\ a.op = "deleteUser" => a.by # a.on
  /\ a.op = "deleteCompany" => caller.company # a.on

\* get_current_profile, and r's first checks.
Authenticate(r, a, callers) ==
  LET caller == IF a.by = None THEN None ELSE users[a.by]
      role == IF caller = None THEN None ELSE caller.role
  IN /\ req[r].pc = "idle"
     /\ req' = [req EXCEPT ![r] =
          [pc |-> IF role \in callers /\ Admits(a, caller) THEN "look" ELSE "done",
           ask |-> a, caller |-> caller, seen |-> None]]
     /\ UNCHANGED rows

-----------------------------------------------------------------------------
(* What PostgreSQL takes: the unique and the foreign keys of 000_init.sql. *)

Distinct(us, cs) ==
  /\ \A u, v \in There(us) : u # v => us[u].email # us[v].email
  /\ \A c, d \in There(cs) : c # d => cs[c] # cs[d]

Admissible(us, cs, ts) ==
  /\ Distinct(us, cs)
  /\ \A u \in There(us) : cs[us[u].company] # None
  /\ \A t \in There(ts) : us[ts[t].user] # None

\* What is there at first was taken by PostgreSQL and by ensure_email_is_available,
\* and no session was refreshed twice with one token.
ASSUME SeedAssumption ==
  /\ Admissible(Seed.users, Seed.companies, Seed.tokens)
  /\ \A u, v \in There(Seed.users) :
       u # v => Normal[Seed.users[u].email] # Normal[Seed.users[v].email]
  /\ \A s, t \in There(Seed.tokens) :
       s # t => Seed.tokens[s].session # Seed.tokens[t].session

\* r commits these rows, or nothing; either way it has been answered.
Commit(r, us, cs, ts) ==
  /\ IF Admissible(us, cs, ts)
     THEN /\ users' = us /\ companies' = cs /\ tokens' = ts
          /\ used' = used \cup There(us) \cup There(cs) \cup There(ts)
     ELSE UNCHANGED <<users, companies, tokens, used>>
  /\ Answered(r)

\* refresh_tokens go with their users (ON DELETE CASCADE).
Cascade(us, ts) == [t \in Tokens |-> IF t \in There(ts) /\ us[ts[t].user] = None THEN None ELSE ts[t]]

-----------------------------------------------------------------------------
(* Sessions. *)

NewSession(u, t) == [user |-> u, session |-> t, live |-> TRUE]

\* The user is looked up by e-mail; the password may be wrong.
Login(r) ==
  \/ /\ At(r, "look", {"login"})
     /\ \/ Reading(r, "done", None)
        \/ \E u \in There(users) : /\ users[u].email = Normal[Set(r).email]
                                   /\ Reading(r, "write", u)
  \/ /\ At(r, "write", {"login"})
     /\ \E t \in Fresh(Tokens) :
          Commit(r, users, companies, [tokens EXCEPT ![t] = NewSession(Seen(r), t)])
     /\ UNCHANGED <<shared, ended>>

\* The row of the token r was given.
FindToken(r) ==
  /\ At(r, "look", {"refresh", "logout"})
  /\ Reading(r, IF tokens[Ask(r).on] = None THEN "done" ELSE "write", tokens[Ask(r).on])

Gone(r) == IF tokens[Ask(r).on] = None THEN {Seen(r).session} ELSE {}

\* Mutant of Refresh: the token stays.
RefreshKeeps(r) ==
  /\ At(r, "write", {"refresh"})
  /\ IF Seen(r).live
     THEN \E t \in Fresh(Tokens) :
            Commit(r, users, companies, [tokens EXCEPT ![t] = [Seen(r) EXCEPT !.live = TRUE]])
     ELSE Commit(r, users, companies, [tokens EXCEPT ![Ask(r).on] = None])
  /\ shared' = shared \cup Gone(r)
  /\ UNCHANGED ended

\* The token is exchanged for another, whoever has deleted it since; an expired
\* one is deleted.
Refresh(r) ==
  /\ At(r, "write", {"refresh"})
  /\ IF Seen(r).live
     THEN \E t \in Fresh(Tokens) :
            Commit(r, users, companies, [tokens EXCEPT ![Ask(r).on] = None,
                                                       ![t] = [Seen(r) EXCEPT !.live = TRUE]])
     ELSE Commit(r, users, companies, [tokens EXCEPT ![Ask(r).on] = None])
  /\ shared' = shared \cup Gone(r)
  /\ UNCHANGED ended

Logout(r) ==
  /\ At(r, "write", {"logout"})
  /\ Commit(r, users, companies, [tokens EXCEPT ![Ask(r).on] = None])
  /\ shared' = shared \cup Gone(r)
  /\ ended' = ended \cup {Seen(r).session}

\* Five days pass.
Expire(t) ==
  /\ t \in There(tokens) /\ tokens[t].live
  /\ tokens' = [tokens EXCEPT ![t].live = FALSE]
  /\ UNCHANGED <<users, companies, req, used, shared, ended>>

-----------------------------------------------------------------------------
(* Users. *)

\* ensure_email_is_available
EmailFree(e, self) == \A u \in There(users) \ {self} : Normal[users[u].email] # Normal[e]

\* ensure_company_name_is_available
NameFree(n, self) == \A c \in There(companies) \ {self} : Folded[companies[c]] # Folded[n]

\* create_user and signup; signup without an access token brings its company along.
CheckNewUser(r) ==
  \/ /\ At(r, "look", {"create", "invite", "signup"})
     /\ Reading(r, IF ~EmailFree(Set(r).email, None) THEN "done"
                   ELSE IF Ask(r).op = "signup" THEN "check" ELSE "write", None)
  \/ /\ At(r, "check", {"signup"})
     /\ Reading(r, IF NameFree(Set(r).name, None) THEN "write" ELSE "done", None)

\* An administrator says which company, and nobody checks that it is there.
Home(r) == IF ByAdmin(r) THEN Set(r).company ELSE Caller(r).company

NewUser(r) ==
  /\ At(r, "write", {"create", "invite", "signup"})
  /\ \E u \in Fresh(Users), t \in Fresh(Tokens), c \in Fresh(Companies) :
       LET alone == Ask(r).op = "signup"
           user == [email |-> Normal[Set(r).email],
                    company |-> IF alone THEN c ELSE Home(r),
                    role |-> IF alone THEN "public" ELSE Set(r).role]
       IN Commit(r, [users EXCEPT ![u] = user],
                 IF alone THEN [companies EXCEPT ![c] = Set(r).name] ELSE companies,
                 IF Ask(r).op = "create" THEN tokens ELSE [tokens EXCEPT ![t] = NewSession(u, t)])
  /\ UNCHANGED <<shared, ended>>

Target(r) == IF Ask(r).op = "updateMe" THEN Ask(r).by ELSE Ask(r).on

\* What r's session shows of the user: its own profile is the one authenticated.
Loaded(r, u) ==
  IF u # Ask(r).by THEN users[u]
  ELSE [users[u] EXCEPT !.company = Caller(r).company, !.role = Caller(r).role]

\* A manager edits members of the company, and promotes nobody.
MayEdit(r, u) ==
  \/ Ask(r).op = "updateMe" \/ ByAdmin(r)
  \/ /\ users[u].company = Caller(r).company /\ Loaded(r, u).role = "member"
     /\ "role" \in DOMAIN Set(r) => Set(r).role = "member"

FindUser(r) ==
  /\ At(r, "look", {"update", "updateMe"})
  /\ LET u == Target(r)
     IN IF u \in There(users) /\ MayEdit(r, u)
        THEN Reading(r, "check", Loaded(r, u)) ELSE Reading(r, "done", None)

\* The new e-mail must be free, the company an administrator names must exist.
CheckUpdate(r) ==
  /\ At(r, "check", {"update", "updateMe"})
  /\ LET taken == /\ "email" \in DOMAIN Set(r)
                  /\ Normal[Set(r).email] # Normal[Seen(r).email]
                  /\ ~EmailFree(Set(r).email, Target(r))
         nowhere == "company" \in DOMAIN Set(r) /\ ByAdmin(r) /\ companies[Set(r).company] = None
     IN Reading(r, IF taken \/ nowhere THEN "done" ELSE "write", Seen(r))

\* Mutant of Assigned: the e-mail is stored as it was typed.
AssignedRaw(r) == [f \in (IF ByAdmin(r) THEN DOMAIN Set(r) ELSE DOMAIN Set(r) \ {"company"}) |-> Set(r)[f]]

\* What the request assigns; only an administrator moves users.
Assigned(r) ==
  [f \in (IF ByAdmin(r) THEN DOMAIN Set(r) ELSE DOMAIN Set(r) \ {"company"}) |->
     IF f = "email" THEN Normal[Set(r).email] ELSE Set(r)[f]]

\* Mutant of Edited: every column of the row as it was read is written.
EditedWhole(r, user) ==
  [f \in DOMAIN user |-> IF f \in DOMAIN Assigned(r) THEN Assigned(r)[f] ELSE Seen(r)[f]]

\* UPDATE names what differs from what was read.
Edited(r, user) ==
  [f \in DOMAIN user |-> IF f \in DOMAIN Assigned(r) /\ Assigned(r)[f] # Seen(r)[f]
                         THEN Assigned(r)[f] ELSE user[f]]

UpdateUser(r) ==
  /\ At(r, "write", {"update", "updateMe"})
  /\ LET u == Target(r)
     IN IF users[u] = None THEN Answered(r) /\ UNCHANGED <<users, companies, tokens, used>>
        ELSE Commit(r, [users EXCEPT ![u] = Edited(r, users[u])], companies, tokens)
  /\ UNCHANGED <<shared, ended>>

DeleteUser(r) ==
  \/ /\ At(r, "look", {"deleteUser"})
     /\ Reading(r, IF users[Ask(r).on] = None THEN "done" ELSE "write", None)
  \/ /\ At(r, "write", {"deleteUser"})
     /\ LET us == [users EXCEPT ![Ask(r).on] = None]
        IN Commit(r, us, companies, Cascade(us, tokens))
     /\ UNCHANGED <<shared, ended>>

-----------------------------------------------------------------------------
(* Companies. *)

CheckName(r) ==
  \/ /\ At(r, "look", {"newCompany"})
     /\ Reading(r, IF NameFree(Set(r).name, None) THEN "write" ELSE "done", None)
  \/ /\ At(r, "look", {"rename"})
     /\ Reading(r, IF companies[Ask(r).on] = None THEN "done"
                   ELSE IF Folded[companies[Ask(r).on]] = Folded[Set(r).name] THEN "write"
                   ELSE "check", companies[Ask(r).on])
  \/ /\ At(r, "check", {"rename"})
     /\ Reading(r, IF NameFree(Set(r).name, Ask(r).on) THEN "write" ELSE "done", Seen(r))

NewCompany(r) ==
  /\ At(r, "write", {"newCompany"})
  /\ \E c \in Fresh(Companies) : Commit(r, users, [companies EXCEPT ![c] = Set(r).name], tokens)
  /\ UNCHANGED <<shared, ended>>

\* A name that is the one it read is not written.
Rename(r) ==
  /\ At(r, "write", {"rename"})
  /\ IF companies[Ask(r).on] = None \/ Set(r).name = Seen(r)
     THEN Answered(r) /\ UNCHANGED <<users, companies, tokens, used>>
     ELSE Commit(r, users, [companies EXCEPT ![Ask(r).on] = Set(r).name], tokens)
  /\ UNCHANGED <<shared, ended>>

\* Its people are listed, then deleted with it.
FindPeople(r) ==
  \/ /\ At(r, "look", {"deleteCompany"})
     /\ Reading(r, IF companies[Ask(r).on] = None THEN "done" ELSE "check", None)
  \/ /\ At(r, "check", {"deleteCompany"})
     /\ Reading(r, "write", {u \in There(users) : users[u].company = Ask(r).on})

DeleteCompany(r) ==
  /\ At(r, "write", {"deleteCompany"})
  /\ LET us == [u \in Users |-> IF u \in Seen(r) THEN None ELSE users[u]]
     IN Commit(r, us, [companies EXCEPT ![Ask(r).on] = None], Cascade(us, tokens))
  /\ UNCHANGED <<shared, ended>>

AccountStep(r) ==
  \/ \E a \in Asks[r] : a.op \in DOMAIN Callers /\ Authenticate(r, a, Callers[a.op])
  \/ Login(r) \/ FindToken(r) \/ Refresh(r) \/ Logout(r)
  \/ CheckNewUser(r) \/ NewUser(r)
  \/ FindUser(r) \/ CheckUpdate(r) \/ UpdateUser(r) \/ DeleteUser(r)
  \/ CheckName(r) \/ NewCompany(r) \/ Rename(r) \/ FindPeople(r) \/ DeleteCompany(r)

Next == (\E r \in Req : AccountStep(r)) \/ \E t \in Tokens : Expire(t)
Spec == Init /\ [][Next]_vars

-----------------------------------------------------------------------------
(* Properties. *)

\* No two users have one e-mail address, however it was typed and whoever signed
\* up, was created or changed address at the same time.
EmailsDistinct ==
  \A u, v \in There(users) : u # v => Normal[users[u].email] # Normal[users[v].email]

\* A request that edits a user leaves what it does not name as it is, also where
\* another request has changed it since it read the user (a field that both name is
\* the later one's); only administrators change a role or a company.
OnlyNamedFields ==
  [][\A u \in There(users) \cap There(users') : \A f \in DOMAIN users[u] :
       users'[u][f] # users[u][f] =>
         \E r \in Req : /\ At(r, "write", {"update", "updateMe"}) /\ req'[r].pc = "done"
                        /\ f \in DOMAIN Set(r)
                        /\ f # "email" => ByAdmin(r)]_vars

\* A session has one refresh token, and none after a logout, unless two of its
\* requests used one and the same token.
OneTokenPerSession ==
  \A s \in Tokens \ shared :
    Cardinality({t \in There(tokens) : tokens[t].session = s}) <= IF s \in ended THEN 0 ELSE 1

=============================================================================
