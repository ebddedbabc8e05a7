---------------------------- MODULE Tenancy_proofs ----------------------------
(***************************************************************************)
(* Theorems about Accounts and Tenancy together, for any number of         *)
(* requests, users, companies, tokens, codes and fields.                   *)
(*                                                                         *)
(* A request reads, and writes later what it read or checked; others       *)
(* commit in between.  Knows says what of that still holds when it writes. *)
(* It does because rows only move as AccountsMoved and TenancyMoved say:   *)
(* an identifier that was used never comes back, addresses that are not    *)
(* normal only disappear, what passed a test or was offered stays so.      *)
(***************************************************************************)
EXTENDS Tenancy, FiniteSetTheorems, TLAPS

Edits == {"update", "updateMe"}
Patches == {"patch", "adminPatch"}

\* The requests that need a caller have one.
KnowsCaller(r) ==
  /\ Ask(r) \in Asks[r]
  /\ Ask(r).op \notin {"login", "signup", "refresh", "logout"} =>
       Caller(r) \in User /\ Ask(r).by \in Users
  /\ Ask(r).op \in {"create", "invite"} /\ ByAdmin(r) => "company" \in DOMAIN Set(r)

\* The row of the token is as it was read, or is gone for good.
KnowsToken(r) ==
  At(r, "write", {"refresh", "logout"}) =>
    /\ Seen(r) \in Token /\ Seen(r).session \in used
    /\ Ask(r).on \in used
    /\ tokens[Ask(r).on] # None => tokens[Ask(r).on].session = Seen(r).session

\* Nobody but u has an address that is e but for normalization.
NormalOrFree(e, u) ==
  \A v \in There(users) \ {u} :
    Normal[users[v].email] = Normal[e] => users[v].email = Normal[users[v].email]

KnowsAddress(r) ==
  /\ At(r, "check", {"signup"}) \/ At(r, "write", {"create", "invite", "signup"})
       => NormalOrFree(Set(r).email, None)
  /\ At(r, "check", Edits) => NormalOrFree(Seen(r).email, Target(r))
  /\ At(r, "write", Edits) /\ "email" \in DOMAIN Set(r) => NormalOrFree(Set(r).email, Target(r))

\* A manager gives a user the role it read.
KnowsUser(r) ==
  /\ At(r, "write", {"login"}) => Seen(r) \in Users
  /\ At(r, "check", Edits) \/ At(r, "write", Edits) =>
       /\ Seen(r) \in User
       /\ "role" \in DOMAIN Set(r) /\ ~ByAdmin(r) => Set(r).role = Seen(r).role

KnowsCredential(r) ==
  /\ At(r, "test", Patches) => Seen(r) \in Credential
  /\ At(r, "reread", Patches) => Seen(r) \in passed
  /\ At(r, "write", Patches) => Seen(r).value \in passed /\ Seen(r).row \in {0} \cup DOMAIN creds
  /\ At(r, "write", {"deactivate"}) => Seen(r) \in DOMAIN creds

\* The codes of a set were offered to r's company.
OfferedTo(r, codes) == codes \subseteq Codes /\ \A x \in codes : <<Caller(r).company, x>> \in offered

KnowsCodes(r) ==
  /\ At(r, "cached", {"discover"}) => OfferedTo(r, Seen(r))
  /\ At(r, "write", {"discover"}) =>
       /\ OfferedTo(r, Seen(r).found)
       /\ Seen(r).cached \in [Codes -> BOOLEAN \cup {None}]
       /\ OfferedTo(r, {x \in Codes : Seen(r).cached[x] # None})
  /\ At(r, "cached", {"link"}) \/ At(r, "write", {"link"}) => OfferedTo(r, {Set(r).code})
  /\ At(r, "write", {"link", "unlink"}) => Seen(r) \in Link \cup {None}
  /\ At(r, "write", {"unlink"}) => Seen(r) # None

Knows(r) ==
  /\ KnowsCaller(r) /\ KnowsToken(r) /\ KnowsAddress(r) /\ KnowsUser(r)
  /\ KnowsCredential(r) /\ KnowsCodes(r)

Acting(r) == req[r].pc \notin {"idle", "done"}

UsedIsUsed ==
  /\ There(users) \cup There(companies) \cup There(tokens) \subseteq used
  /\ \A t \in There(tokens) : tokens[t].session \in used
  /\ ended \subseteq used

\* A session that is not shared has one token, none if it was ended.
SessionsApart ==
  \A t \in There(tokens) :
    tokens[t].session \notin shared =>
      /\ tokens[t].session \notin ended
      /\ \A s \in There(tokens) : tokens[s].session = tokens[t].session => s = t

SourcesOffered ==
  \A c \in Companies : \A x \in Codes : sources[c][x] # None => <<c, x>> \in offered

IInv ==
  /\ TTypeOK
  /\ Admissible(users, companies, tokens)
  /\ UsedIsUsed
  /\ EmailsDistinct
  /\ SessionsApart
  /\ StoredWasTested
  /\ SourcesOffered
  /\ \A r \in Req : Acting(r) => Knows(r)

-----------------------------------------------------------------------------
(* Local state. *)

Shaped ==
  /\ req = [r \in Req |-> req[r]]
  /\ \A r \in Req : DOMAIN req[r] = Local

\* What a request takes along, and that the others stay as they are.
LEMMA GoesOn ==
  ASSUME Shaped, NEW r \in Req, NEW pc, NEW x, Goes(r, pc, x)
  PROVE  /\ Shaped'
         /\ req'[r].pc = pc /\ req'[r].seen = x
         /\ req'[r].ask = req[r].ask /\ req'[r].caller = req[r].caller
         /\ \A s \in Req \ {r} : req'[s] = req[s]
<1>1. DOMAIN req = Req
  BY DEF Shaped
<1>2. req' = [req EXCEPT ![r] = [req[r] EXCEPT !.pc = pc, !.seen = x]]
  BY <1>1 DEF Goes
<1>3. req' = [s \in Req |-> req'[s]]
  BY <1>1, <1>2
<1>4. req'[r] = [req[r] EXCEPT !.pc = pc, !.seen = x] /\ \A s \in Req \ {r} : req'[s] = req[s]
  BY <1>1, <1>2
<1>5. DOMAIN req[r] = Local
  BY DEF Shaped
<1> QED
  BY <1>3, <1>4, <1>5 DEF Shaped, Local

-----------------------------------------------------------------------------
(* What requests commit. *)

UserRows == [Users -> User \cup {None}]
CompanyRows == [Companies -> Names \cup {None}]
TokenRows == [Tokens -> Token \cup {None}]

\* The address of a user is the one it had, or one nobody else has.
AddressKept(us) ==
  \A u \in There(us) :
    \/ u \in There(users) /\ us[u].email = users[u].email
    \/ us[u].email = Normal[us[u].email] /\ NormalOrFree(us[u].email, u)

\* A token is of the session it was of, or it is new.
SessionKept(ts) ==
  \A t \in There(ts) : t \notin used \/ (t \in There(tokens) /\ ts[t].session = tokens[t].session)

Writable(us, cs, ts) ==
  /\ us \in UserRows /\ cs \in CompanyRows /\ ts \in TokenRows
  /\ AddressKept(us) /\ SessionKept(ts)

LEMMA Normalized ==
  ASSUME NEW e \in Emails
  PROVE  Normal[e] \in Emails /\ Normal[Normal[e]] = Normal[e]
  BY AccountsAssumption

LEMMA NoneIsNothing ==
  /\ None \notin User /\ None \notin Token /\ None \notin Names
  /\ None \notin Users /\ None \notin Companies /\ None \notin Tokens /\ None \notin Roles
  BY AccountsAssumption

LEMMA ThereIs ==
  ASSUME IInv
  PROVE  /\ users \in UserRows /\ companies \in CompanyRows /\ tokens \in TokenRows
         /\ \A u \in There(users) : u \in Users /\ users[u] \in User
         /\ \A c \in There(companies) : c \in Companies /\ companies[c] \in Names
         /\ \A t \in There(tokens) : t \in Tokens /\ tokens[t] \in Token
         /\ \A u \in Users : users[u] # None => u \in There(users)
         /\ \A t \in Tokens : tokens[t] # None => t \in There(tokens)
  BY DEF IInv, TTypeOK, TypeOK, There, UserRows, CompanyRows, TokenRows

LEMMA NothingIsWritable ==
  ASSUME IInv
  PROVE  Writable(users, companies, tokens)
  BY ThereIs DEF Writable, AddressKept, SessionKept

\* Two requests that found an address free at the same time: the second commit
\* finds the first one's address as it is, and PostgreSQL refuses it.
LEMMA AddressesStayDistinct ==
  ASSUME IInv, NEW us, NEW cs, NEW ts, Writable(us, cs, ts), Admissible(us, cs, ts)
  PROVE  \A u, v \in There(us) : u # v => Normal[us[u].email] # Normal[us[v].email]
<1> SUFFICES ASSUME NEW u \in There(us), NEW v \in There(us), u # v,
                    Normal[us[u].email] = Normal[us[v].email]
             PROVE  FALSE
  OBVIOUS
<1>1. us[u] \in User /\ us[v] \in User
  BY DEF Writable, There, UserRows
<1>2. us[u].email \in Emails /\ us[v].email \in Emails
  BY <1>1 DEF User
<1>3. us[u].email # us[v].email
  BY DEF Admissible, Distinct
<1>4. \A w \in {u, v} :
        \/ w \in There(users) /\ us[w].email = users[w].email
        \/ us[w].email = Normal[us[w].email] /\ NormalOrFree(us[w].email, w)
  BY DEF Writable, AddressKept
<1>5. ASSUME NEW a \in {u, v}, NEW b \in {u, v}, a # b,
             us[a].email = Normal[us[a].email], NormalOrFree(us[a].email, a),
             b \in There(users), us[b].email = users[b].email
      PROVE  FALSE
  BY <1>3, <1>5 DEF NormalOrFree
<1>6. CASE u \in There(users) /\ us[u].email = users[u].email
           /\ v \in There(users) /\ us[v].email = users[v].email
  BY <1>6 DEF IInv, EmailsDistinct
<1> QED
  BY <1>3, <1>4, <1>5, <1>6

\* How the rows of Accounts move in any step.
AccountsMoved ==
  /\ users' \in UserRows /\ companies' \in CompanyRows /\ tokens' \in TokenRows
  /\ used' \subseteq Users \cup Companies \cup Tokens
  /\ Admissible(users, companies, tokens)'
  /\ used \subseteq used'
  /\ There(users') \cup There(companies') \cup There(tokens') \subseteq used'
  /\ AddressKept(users') /\ SessionKept(tokens')
  /\ EmailsDistinct'

LEMMA CommitMoves ==
  ASSUME IInv, NEW r \in Req, NEW us, NEW cs, NEW ts, Writable(us, cs, ts), Commit(r, us, cs, ts)
  PROVE  AccountsMoved
<1>1. CASE Admissible(us, cs, ts)
  <2>1. /\ users' = us /\ companies' = cs /\ tokens' = ts
        /\ used' = used \cup There(us) \cup There(cs) \cup There(ts)
    BY <1>1 DEF Commit
  <2>2. There(us) \subseteq Users /\ There(cs) \subseteq Companies /\ There(ts) \subseteq Tokens
    BY DEF Writable, There, UserRows, CompanyRows, TokenRows
  <2>3. EmailsDistinct'
    BY <2>1, <1>1, AddressesStayDistinct DEF EmailsDistinct
  <2>4. Admissible(users, companies, tokens)'
    BY <1>1, <2>1 DEF Admissible, Distinct, There
  <2> QED
    BY <2>1, <2>2, <2>3, <2>4 DEF AccountsMoved, Writable, IInv, TTypeOK, TypeOK
<1>2. CASE ~Admissible(us, cs, ts)
  <2>1. users' = users /\ companies' = companies /\ tokens' = tokens /\ used' = used
    BY <1>2 DEF Commit
  <2>2. Admissible(users, companies, tokens)' /\ EmailsDistinct'
    BY <2>1 DEF IInv, Admissible, Distinct, There, EmailsDistinct
  <2> QED
    BY <2>1, <2>2, NothingIsWritable DEF AccountsMoved, Writable, IInv, TTypeOK, TypeOK, UsedIsUsed
<1> QED
  BY <1>1, <1>2

-----------------------------------------------------------------------------
(* Sessions. *)

SessionsMoved ==
  /\ SessionsApart' /\ UsedIsUsed'
  /\ shared' \subseteq Tokens /\ ended' \subseteq Tokens

\* Tokens that go, and tokens that start a session.
LEMMA SessionsStart ==
  ASSUME IInv, AccountsMoved, shared' = shared, ended' = ended,
         \A t \in There(tokens') : t \notin used => tokens'[t].session = t
  PROVE  SessionsMoved
<1>1. \A t \in There(tokens') :
        \/ t \in There(tokens) /\ tokens'[t].session = tokens[t].session /\ tokens[t].session \in used
        \/ t \notin used /\ tokens'[t].session = t
  BY DEF AccountsMoved, SessionKept, IInv, UsedIsUsed
<1>2. ended \subseteq used
  BY DEF IInv, UsedIsUsed
<1>3. SessionsApart'
  <2> SUFFICES ASSUME NEW t \in There(tokens'), tokens'[t].session \notin shared
               PROVE  /\ tokens'[t].session \notin ended
                      /\ \A s \in There(tokens') : tokens'[s].session = tokens'[t].session => s = t
    BY DEF SessionsApart
  <2>1. CASE t \in There(tokens) /\ tokens'[t].session = tokens[t].session
    BY <1>1, <2>1 DEF IInv, SessionsApart
  <2>2. CASE t \notin used /\ tokens'[t].session = t
    BY <1>1, <1>2, <2>2
  <2> QED
    BY <1>1, <2>1, <2>2
<1>4. UsedIsUsed'
  BY <1>1, <1>2 DEF UsedIsUsed, AccountsMoved
<1> QED
  BY <1>3, <1>4 DEF SessionsMoved, IInv, TTypeOK, TypeOK

\* A session of which a token has been exchanged, or ended: had it been used by
\* another request in between, it would be shared now.
LEMMA SessionsRotate ==
  ASSUME IInv, AccountsMoved, NEW r \in Req, At(r, "write", {"refresh", "logout"}),
         shared' = shared \cup Gone(r),
         ended' = ended \/ (ended' = ended \cup {Seen(r).session}
                            /\ \A t \in There(tokens') : t \in used),
         \/ tokens' = tokens /\ ended' = ended
         \/ /\ Ask(r).on \notin There(tokens')
            /\ \A t \in There(tokens') : t \notin used => tokens'[t].session = Seen(r).session
            /\ \A s, t \in There(tokens') : s \notin used /\ t \notin used => s = t
  PROVE  SessionsMoved
<1> DEFINE on == Ask(r).on
           session == Seen(r).session
<1>1. Knows(r) /\ Ask(r) \in Asks[r] /\ on \in Tokens
  BY AccountsAssumption DEF IInv, Acting, At, Knows, KnowsCaller, Askable, Ask
<1>2. /\ session \in used /\ on \in used /\ session \in Tokens
      /\ tokens[on] # None => tokens[on].session = session
  BY <1>1 DEF Knows, KnowsToken, Token
<1>3. tokens[on] = None => session \in shared'
  BY DEF Gone
<1>4. tokens[on] # None => on \in There(tokens)
  BY <1>1, ThereIs
<1>5. \A t \in There(tokens) :
        /\ tokens[t].session \in used
        /\ tokens[t].session \notin shared' =>
             /\ tokens[t].session \notin ended
             /\ \A s \in There(tokens) : tokens[s].session = tokens[t].session => s = t
  BY DEF IInv, UsedIsUsed, SessionsApart
<1>6. session \notin shared' =>
        /\ on \in There(tokens) /\ session \notin ended
        /\ \A t \in There(tokens) : tokens[t].session = session => t = on
  BY <1>2, <1>3, <1>4, <1>5
<1> HIDE DEF on, session
<1>7. \A t \in There(tokens') :
        t \notin used \/ (t \in There(tokens) /\ tokens'[t].session = tokens[t].session)
  BY DEF AccountsMoved, SessionKept
<1>8. CASE tokens' = tokens /\ ended' = ended
  <2>1. SessionsApart'
    BY <1>5, <1>8 DEF SessionsApart
  <2> QED
    BY <1>8, <2>1, <1>2, <1>5 DEF SessionsMoved, UsedIsUsed, AccountsMoved, IInv, UsedIsUsed, TTypeOK, TypeOK, Gone, session
<1>9. CASE /\ on \notin There(tokens')
           /\ \A t \in There(tokens') : t \notin used => tokens'[t].session = session
           /\ \A s, t \in There(tokens') : s \notin used /\ t \notin used => s = t
  <2>1. SessionsApart'
    <3> SUFFICES ASSUME NEW t \in There(tokens'), tokens'[t].session \notin shared'
                 PROVE  /\ tokens'[t].session \notin ended'
                        /\ \A s \in There(tokens') : tokens'[s].session = tokens'[t].session => s = t
      BY DEF SessionsApart
    <3>1. CASE t \in used
      <4>1. t \in There(tokens) /\ tokens'[t].session = tokens[t].session
        BY <1>7, <3>1
      <4>2. tokens'[t].session # session
        BY <4>1, <1>6, <1>9
      <4> QED
        BY <4>1, <4>2, <1>5, <1>7, <1>9 DEF session
    <3>2. CASE t \notin used
      <4>1. tokens'[t].session = session /\ ended' = ended
        BY <3>2, <1>9
      <4>2. \A s \in There(tokens') : s \in used => tokens'[s].session # session
        BY <4>1, <1>6, <1>7, <1>9
      <4> QED
        BY <4>1, <4>2, <1>6, <1>9, <3>2
    <3> QED
      BY <3>1, <3>2
  <2>2. UsedIsUsed'
    BY <1>2, <1>5, <1>7, <1>9 DEF UsedIsUsed, AccountsMoved, IInv, session
  <2>3. shared' \subseteq Tokens /\ ended' \subseteq Tokens
    BY <1>2 DEF IInv, TTypeOK, TypeOK, Gone, session
  <2> QED
    BY <2>1, <2>2, <2>3 DEF SessionsMoved
<1> QED
  BY <1>8, <1>9 DEF on, session

-----------------------------------------------------------------------------
(* The commits, one by one. *)

LEMMA Actor ==
  ASSUME IInv, NEW r \in Req, Acting(r)
  PROVE  /\ Knows(r) /\ Ask(r) \in Asks[r] /\ Askable(Ask(r)) /\ TAskable(Ask(r))
         /\ Set(r) = Ask(r).set
         /\ Caller(r) \in User \cup {None}
  BY AccountsAssumption, TenancyAssumption
  DEF IInv, Knows, KnowsCaller, TTypeOK, TypeOK, Caller, Ask, Set

LEMMA AtActs ==
  ASSUME NEW r \in Req, NEW pc, NEW ops, At(r, pc, ops), pc \notin {"idle", "done"}
  PROVE  Acting(r) /\ Ask(r).op \in ops /\ req[r].pc = pc
  BY DEF At, Acting, Ask

\* The tokens with another one.
Plus(t, row) == [tokens EXCEPT ![t] = row]

LEMMA TokenRowsWritten ==
  ASSUME IInv, NEW t \in Fresh(Tokens), NEW row \in Token
  PROVE  /\ Plus(t, row) \in TokenRows /\ SessionKept(Plus(t, row))
         /\ \A s \in There(Plus(t, row)) : s \notin used => s = t /\ Plus(t, row)[s] = row
<1> DEFINE ts == Plus(t, row)
<1>1. tokens \in TokenRows /\ t \in Tokens /\ t \notin used
  BY ThereIs DEF Fresh
<1>2. ts \in TokenRows /\ \A s \in Tokens : ts[s] = IF s = t THEN row ELSE tokens[s]
  BY <1>1 DEF TokenRows, Plus
<1>3. \A s \in There(ts) : s \in Tokens /\ (s # t => s \in There(tokens))
  BY <1>1, <1>2, ThereIs DEF There, TokenRows
<1>4. \A s \in There(tokens) : s \in used
  BY DEF IInv, UsedIsUsed
<1> HIDE DEF ts
<1>5. \A s \in There(ts) : s \notin used => s = t /\ ts[s] = row
  BY <1>1, <1>2, <1>3, <1>4
<1>6. SessionKept(ts)
  BY <1>1, <1>2, <1>3, <1>4 DEF SessionKept
<1> QED
  BY <1>2, <1>5, <1>6 DEF ts

\* Tokens that only go.
LEMMA TokenRowsLess ==
  ASSUME IInv, NEW ts \in TokenRows, \A t \in Tokens : ts[t] \in {tokens[t], None}
  PROVE  SessionKept(ts) /\ \A t \in There(ts) : t \in used
<1>1. \A t \in There(ts) : t \in There(tokens) /\ ts[t] = tokens[t]
  BY ThereIs DEF There, TokenRows
<1>2. \A t \in There(tokens) : t \in used
  BY DEF IInv, UsedIsUsed
<1> QED
  BY <1>1, <1>2 DEF SessionKept

LEMMA LoginWrites ==
  ASSUME IInv, NEW r \in Req, Login(r), At(r, "write", {"login"})
  PROVE  AccountsMoved /\ SessionsMoved
<1>1. Acting(r)
  BY AtActs
<1>2. PICK t \in Fresh(Tokens) : Commit(r, users, companies, Plus(t, NewSession(Seen(r), t)))
  BY DEF Login, At, Plus
<1>3. NewSession(Seen(r), t) \in Token /\ NewSession(Seen(r), t).session = t
  BY <1>1, Actor DEF Knows, KnowsUser, NewSession, Token, Fresh
<1> DEFINE ts == Plus(t, NewSession(Seen(r), t))
<1>4. /\ Writable(users, companies, ts)
      /\ \A s \in There(ts) : s \notin used => ts[s].session = s
  BY <1>3, TokenRowsWritten, NothingIsWritable DEF Writable
<1>5. AccountsMoved
  BY <1>2, <1>4, CommitMoves
<1>6. tokens' = ts \/ tokens' = tokens
  BY <1>2 DEF Commit
<1>7. \A s \in There(tokens') : s \notin used => tokens'[s].session = s
  <2>1. \A s \in There(tokens) : s \in used
    BY DEF IInv, UsedIsUsed
  <2> HIDE DEF ts
  <2> QED
    BY <1>4, <1>6, <2>1
<1>8. shared' = shared /\ ended' = ended
  BY <1>1 DEF Login, At
<1> QED
  BY <1>5, <1>7, <1>8, SessionsStart

LEMMA RefreshWrites ==
  ASSUME IInv, NEW r \in Req, Refresh(r)
  PROVE  AccountsMoved /\ SessionsMoved
<1> DEFINE on == Ask(r).on
           row == [Seen(r) EXCEPT !.live = TRUE]
           less == [tokens EXCEPT ![on] = None]
<1>1. At(r, "write", {"refresh"}) /\ At(r, "write", {"refresh", "logout"}) /\ Acting(r)
  BY DEF Refresh, At, Acting
<1>2. shared' = shared \cup Gone(r) /\ ended' = ended
  BY DEF Refresh
<1>3. Seen(r) \in Token /\ on \in Tokens /\ on \in used
  BY <1>1, Actor DEF Knows, KnowsToken, Askable, At, Ask
<1>4. row \in Token /\ row.session = Seen(r).session
  BY <1>3 DEF Token
<1>5. less \in TokenRows /\ \A t \in Tokens : less[t] = IF t = on THEN None ELSE tokens[t]
  BY <1>3, ThereIs DEF TokenRows
<1>6. Writable(users, companies, less) /\ \A t \in There(less) : t \in used /\ t # on
  BY <1>5, TokenRowsLess, NothingIsWritable DEF Writable, There, TokenRows
<1>7. CASE Seen(r).live
  <2>1. PICK t \in Fresh(Tokens) : Commit(r, users, companies, [tokens EXCEPT ![on] = None, ![t] = row])
    BY <1>7 DEF Refresh
  <2> DEFINE ts == [tokens EXCEPT ![on] = None, ![t] = row]
  <2>2. t \in Tokens /\ t \notin used /\ t # on
    BY <1>3 DEF Fresh
  <2>3. ts \in TokenRows /\ \A s \in Tokens : ts[s] = IF s = t THEN row ELSE less[s]
    BY <1>3, <1>4, <1>5, <2>2, ThereIs DEF TokenRows
  <2>4. \A s \in There(ts) : s \in Tokens /\ s # on /\ (s # t => s \in There(less) /\ ts[s] = less[s])
    BY <1>5, <2>2, <2>3 DEF There, TokenRows
  <2>5. SessionKept(ts)
    BY <1>6, <2>2, <2>4 DEF SessionKept, Writable
  <2>6. Writable(users, companies, ts)
    BY <2>3, <2>5, NothingIsWritable DEF Writable
  <2>7. AccountsMoved
    BY <2>1, <2>6, CommitMoves
  <2>8. tokens' = ts \/ tokens' = tokens
    BY <2>1 DEF Commit
  <2>9. \A s \in There(ts) : s \notin used => s = t
    BY <1>6, <2>4
  <2>10. ts[t].session = Seen(r).session
    BY <1>4, <2>2, <2>3
  <2>11. on \notin There(ts)
    BY <2>4
  <2> HIDE DEF ts, on, row, less
  <2> QED
    BY <1>1, <1>2, <2>7, <2>8, <2>9, <2>10, <2>11, SessionsRotate DEF on
<1>8. CASE ~Seen(r).live
  <2>1. Commit(r, users, companies, less)
    BY <1>8 DEF Refresh
  <2>2. AccountsMoved
    BY <2>1, <1>6, CommitMoves
  <2>3. tokens' = less \/ tokens' = tokens
    BY <2>1 DEF Commit
  <2> HIDE DEF less
  <2> QED
    BY <1>1, <1>2, <1>6, <2>2, <2>3, SessionsRotate
<1> QED
  BY <1>7, <1>8

\* What is without one token is still what PostgreSQL takes.
LEMMA LogoutWrites ==
  ASSUME IInv, NEW r \in Req, Logout(r)
  PROVE  AccountsMoved /\ SessionsMoved
<1> DEFINE on == Ask(r).on
           less == [tokens EXCEPT ![on] = None]
<1>1. At(r, "write", {"refresh", "logout"}) /\ Acting(r)
  BY DEF Logout, At, Acting
<1>2. shared' = shared \cup Gone(r) /\ ended' = ended \cup {Seen(r).session}
  BY DEF Logout
<1>3. on \in Tokens
  BY <1>1, Actor DEF Askable, At, Ask
<1>4. less \in TokenRows /\ \A t \in Tokens : less[t] = IF t = on THEN None ELSE tokens[t]
  BY <1>3, ThereIs DEF TokenRows
<1>5. Writable(users, companies, less) /\ \A t \in There(less) : t \in used /\ t # on /\ t \in There(tokens) /\ less[t] = tokens[t]
  BY <1>4, TokenRowsLess, NothingIsWritable, ThereIs DEF Writable, There, TokenRows
<1>6. Commit(r, users, companies, less)
  BY DEF Logout
<1>7. AccountsMoved
  BY <1>5, <1>6, CommitMoves
<1>8. Admissible(users, companies, less)
  BY <1>5 DEF IInv, Admissible
<1>9. tokens' = less
  BY <1>6, <1>8 DEF Commit
<1> HIDE DEF less
<1> QED
  BY <1>1, <1>2, <1>5, <1>7, <1>9, SessionsRotate

LEMMA NewUserWrites ==
  ASSUME IInv, NEW r \in Req, NewUser(r)
  PROVE  AccountsMoved /\ SessionsMoved
<1>1. /\ Acting(r) /\ At(r, "write", {"create", "invite", "signup"})
      /\ Ask(r).op \in {"create", "invite", "signup"}
      /\ shared' = shared /\ ended' = ended
  BY DEF NewUser, At, Acting, Ask
<1> DEFINE alone == Ask(r).op = "signup"
           user(c) == [email |-> Normal[Set(r).email],
                       company |-> IF alone THEN c ELSE Home(r),
                       role |-> IF alone THEN "public" ELSE Set(r).role]
           us(u, c) == [users EXCEPT ![u] = user(c)]
           cs(c) == IF alone THEN [companies EXCEPT ![c] = Set(r).name] ELSE companies
           ts(u, t) == IF Ask(r).op = "create" THEN tokens ELSE [tokens EXCEPT ![t] = NewSession(u, t)]
<1>2. PICK u \in Fresh(Users), t \in Fresh(Tokens), c \in Fresh(Companies) :
        Commit(r, us(u, c), cs(c), ts(u, t))
  BY DEF NewUser
<1>3. Askable(Ask(r)) /\ Knows(r) /\ Set(r) = Ask(r).set
  BY <1>1, Actor
<1>4. u \in Users /\ u \notin used /\ c \in Companies /\ t \in Tokens
  BY DEF Fresh
<1>5. Set(r).email \in Emails /\ Normal[Set(r).email] \in Emails
      /\ Normal[Normal[Set(r).email]] = Normal[Set(r).email]
  BY <1>1, <1>3, Normalized DEF Askable
<1>6. ~alone => Home(r) \in Companies /\ Set(r).role \in Roles
  BY <1>1, <1>3 DEF Askable, Home, Knows, KnowsCaller, User
<1>7. user(c) \in User
  BY <1>4, <1>5, <1>6 DEF User, Roles
<1>8. /\ us(u, c) \in UserRows /\ \A v \in Users : us(u, c)[v] = IF v = u THEN user(c) ELSE users[v]
  BY <1>4, <1>7, ThereIs DEF UserRows
<1>9. \A v \in There(us(u, c)) : v \in Users /\ (v # u => v \in There(users) /\ us(u, c)[v] = users[v])
  BY <1>8 DEF There, UserRows
<1>10. user(c).email = Normal[Set(r).email]
  OBVIOUS
<1>11. NormalOrFree(Normal[Set(r).email], u)
  <2>1. NormalOrFree(Set(r).email, None)
    BY <1>1, <1>3 DEF Knows, KnowsAddress, At
  <2>2. \A v \in There(users) : v # None
    BY ThereIs, NoneIsNothing
  <2> QED
    BY <1>5, <2>1, <2>2 DEF NormalOrFree
<1>12. AddressKept(us(u, c))
  BY <1>5, <1>8, <1>9, <1>10, <1>11, <1>4 DEF AddressKept
<1>13. cs(c) \in CompanyRows
  BY <1>1, <1>3, <1>4, ThereIs DEF Askable, CompanyRows
<1>14. NewSession(u, t) \in Token /\ NewSession(u, t).session = t
  BY <1>4 DEF NewSession, Token
<1>15. /\ ts(u, t) \in TokenRows /\ SessionKept(ts(u, t))
       /\ \A s \in There(ts(u, t)) : s \notin used => ts(u, t)[s].session = s
  <2>1. CASE Ask(r).op = "create"
    BY <2>1, NothingIsWritable DEF Writable, IInv, UsedIsUsed
  <2>2. CASE Ask(r).op # "create"
    <3>1. ts(u, t) = Plus(t, NewSession(u, t))
      BY <2>2 DEF Plus
    <3> HIDE DEF ts
    <3> QED
      BY <3>1, <1>14, TokenRowsWritten
  <2> QED
    BY <2>1, <2>2
<1> HIDE DEF us, cs, ts, alone
<1>16. AccountsMoved
  BY <1>2, <1>8, <1>12, <1>13, <1>15, CommitMoves DEF Writable
<1>17. tokens' = ts(u, t) \/ tokens' = tokens
  BY <1>2 DEF Commit
<1>18. \A s \in There(tokens) : s \in used
  BY DEF IInv, UsedIsUsed
<1> QED
  BY <1>1, <1>15, <1>16, <1>17, <1>18, SessionsStart

LEMMA SameTokens ==
  ASSUME IInv, AccountsMoved, tokens' = tokens \/ \A t \in There(tokens') : t \in used,
         shared' = shared, ended' = ended
  PROVE  SessionsMoved
<1>1. \A t \in There(tokens) : t \in used
  BY DEF IInv, UsedIsUsed
<1> QED
  BY <1>1, SessionsStart

\* An UPDATE gives a user the columns of another such row.
LEMMA EditedUser ==
  ASSUME IInv, NEW r \in Req, At(r, "write", Edits), users[Target(r)] # None
  PROVE  /\ Target(r) \in Users
         /\ Edited(r, users[Target(r)]) \in User
         /\ LET e == Edited(r, users[Target(r)]).email
            IN e = users[Target(r)].email
               \/ ("email" \in DOMAIN Set(r) /\ e = Normal[Set(r).email])
         /\ \A f \in DOMAIN users[Target(r)] :
              Edited(r, users[Target(r)])[f] # users[Target(r)][f] =>
                /\ f \in DOMAIN Set(r)
                /\ f # "email" => ByAdmin(r)
<1> DEFINE u == Target(r)
           row == users[u]
           given == IF ByAdmin(r) THEN DOMAIN Set(r) ELSE DOMAIN Set(r) \ {"company"}
           new == Edited(r, row)
<1>1. Acting(r) /\ Ask(r).op \in Edits
  BY AtActs
<1>2. Askable(Ask(r)) /\ Knows(r) /\ Set(r) = Ask(r).set
  BY <1>1, Actor
<1>3. u \in Users
  BY <1>1, <1>2 DEF Target, Askable, Knows, KnowsCaller, Edits
<1>4. row \in User
  BY <1>3, ThereIs
<1>5. given \subseteq {"email", "company", "role"}
  BY <1>1, <1>2 DEF Askable, Edits
<1>6. /\ DOMAIN Assigned(r) = given
      /\ \A f \in given : Assigned(r)[f] = IF f = "email" THEN Normal[Set(r).email] ELSE Set(r)[f]
  BY DEF Assigned
<1>7. DOMAIN row = {"email", "company", "role"}
  BY <1>4 DEF User
<1>8. /\ new = [f \in {"email", "company", "role"} |-> new[f]]
      /\ \A f \in {"email", "company", "role"} :
           new[f] = IF f \in given /\ Assigned(r)[f] # Seen(r)[f] THEN Assigned(r)[f] ELSE row[f]
  BY <1>6, <1>7 DEF Edited
<1>9. /\ "email" \in given => Set(r).email \in Emails /\ Normal[Set(r).email] \in Emails
      /\ "company" \in given => Set(r).company \in Companies
      /\ "role" \in given => Set(r).role \in Roles
  BY <1>2, Normalized DEF Askable
<1>10. new.email \in Emails /\ new.company \in Companies /\ new.role \in Roles
  BY <1>4, <1>6, <1>8, <1>9 DEF User
<1>11. new \in User
  BY <1>8, <1>10 DEF User
<1>12. "role" \in given /\ ~ByAdmin(r) => Set(r)["role"] = Seen(r)["role"]
  BY <1>2 DEF Knows, KnowsUser
<1>13. \A f \in DOMAIN row : new[f] # row[f] => f \in DOMAIN Set(r) /\ (f # "email" => ByAdmin(r))
  BY <1>6, <1>7, <1>8, <1>12
<1>14. new.email = row.email \/ ("email" \in DOMAIN Set(r) /\ new.email = Normal[Set(r).email])
  BY <1>6, <1>8
<1> QED
  BY <1>3, <1>11, <1>13, <1>14

LEMMA UpdateUserWrites ==
  ASSUME IInv, NEW r \in Req, UpdateUser(r)
  PROVE  AccountsMoved /\ SessionsMoved
<1> DEFINE u == Target(r)
           us == [users EXCEPT ![u] = Edited(r, users[u])]
<1>1. /\ At(r, "write", Edits) /\ Acting(r)
      /\ shared' = shared /\ ended' = ended /\ tokens' = tokens
  BY DEF UpdateUser, At, Acting, Edits, Commit
<1>2. CASE users[u] = None
  <2>1. Commit(r, users, companies, tokens)
    BY <1>2 DEF UpdateUser, Commit, IInv, UsedIsUsed
  <2> QED
    BY <1>1, <2>1, NothingIsWritable, CommitMoves, SameTokens
<1>3. CASE users[u] # None
  <2>1. Commit(r, us, companies, tokens)
    BY <1>3 DEF UpdateUser
  <2>2. /\ u \in Users /\ Edited(r, users[u]) \in User
        /\ \/ Edited(r, users[u]).email = users[u].email
           \/ "email" \in DOMAIN Set(r) /\ Edited(r, users[u]).email = Normal[Set(r).email]
    BY <1>1, <1>3, EditedUser
  <2>3. us \in UserRows /\ \A v \in Users : us[v] = IF v = u THEN Edited(r, users[u]) ELSE users[v]
    BY <2>2, ThereIs DEF UserRows
  <2>4. "email" \in DOMAIN Set(r) =>
          /\ Normal[Normal[Set(r).email]] = Normal[Set(r).email]
          /\ NormalOrFree(Set(r).email, u)
    BY <1>1, Actor, Normalized DEF Knows, KnowsAddress, Askable
  <2>5. "email" \in DOMAIN Set(r) => NormalOrFree(Normal[Set(r).email], u)
    BY <2>4 DEF NormalOrFree
  <2>6. \A v \in There(us) : v \in Users /\ (v # u => v \in There(users) /\ us[v] = users[v])
    BY <2>3 DEF There, UserRows
  <2>7. u \in There(users) /\ us[u] = Edited(r, users[u])
    BY <1>3, <2>2, <2>3, ThereIs
  <2> HIDE DEF us, u
  <2>8. AddressKept(us)
    BY <2>2, <2>4, <2>5, <2>6, <2>7 DEF AddressKept
  <2> QED
    BY <1>1, <2>1, <2>3, <2>8, NothingIsWritable, CommitMoves, SameTokens DEF Writable
<1> QED
  BY <1>2, <1>3

\* Users that only go, and what goes with them.
LEMMA UsersLess ==
  ASSUME IInv, NEW us \in UserRows, \A u \in Users : us[u] \in {users[u], None},
         NEW cs \in CompanyRows
  PROVE  Writable(us, cs, Cascade(us, tokens)) /\ \A t \in There(Cascade(us, tokens)) : t \in used
<1>1. \A u \in There(us) : u \in There(users) /\ us[u] = users[u]
  BY ThereIs DEF There, UserRows
<1>2. Cascade(us, tokens) \in TokenRows /\ \A t \in Tokens : Cascade(us, tokens)[t] \in {tokens[t], None}
  BY ThereIs DEF Cascade, TokenRows
<1> QED
  BY <1>1, <1>2, TokenRowsLess DEF Writable, AddressKept

LEMMA DeleteUserWrites ==
  ASSUME IInv, NEW r \in Req, DeleteUser(r), At(r, "write", {"deleteUser"})
  PROVE  AccountsMoved /\ SessionsMoved
<1> DEFINE us == [users EXCEPT ![Ask(r).on] = None]
<1>1. Commit(r, us, companies, Cascade(us, tokens)) /\ shared' = shared /\ ended' = ended
  BY DEF DeleteUser, At
<1>2. us \in UserRows /\ \A u \in Users : us[u] \in {users[u], None}
  BY ThereIs DEF UserRows
<1> HIDE DEF us
<1>3. AccountsMoved
  BY <1>1, <1>2, UsersLess, ThereIs, CommitMoves
<1>4. tokens' = tokens \/ \A t \in There(tokens') : t \in used
  BY <1>1, <1>2, UsersLess, ThereIs DEF Commit
<1> QED
  BY <1>1, <1>3, <1>4, SameTokens

LEMMA DeleteCompanyWrites ==
  ASSUME IInv, NEW r \in Req, DeleteCompany(r)
  PROVE  AccountsMoved /\ SessionsMoved
<1> DEFINE us == [u \in Users |-> IF u \in Seen(r) THEN None ELSE users[u]]
           cs == [companies EXCEPT ![Ask(r).on] = None]
<1>1. Commit(r, us, cs, Cascade(us, tokens)) /\ shared' = shared /\ ended' = ended
  BY DEF DeleteCompany
<1>2. us \in UserRows /\ \A u \in Users : us[u] \in {users[u], None}
  BY ThereIs DEF UserRows
<1>3. cs \in CompanyRows
  BY ThereIs DEF CompanyRows
<1> HIDE DEF us, cs
<1>4. AccountsMoved
  BY <1>1, <1>2, <1>3, UsersLess, CommitMoves
<1>5. tokens' = tokens \/ \A t \in There(tokens') : t \in used
  BY <1>1, <1>2, <1>3, UsersLess DEF Commit
<1> QED
  BY <1>1, <1>4, <1>5, SameTokens

LEMMA CompanyWrites ==
  ASSUME IInv, NEW r \in Req, NewCompany(r) \/ Rename(r)
  PROVE  AccountsMoved /\ SessionsMoved
<1>1. At(r, "write", {"newCompany", "rename"}) /\ Acting(r)
  BY DEF NewCompany, Rename, At, Acting
<1>2. Set(r).name \in Names
  BY <1>1, Actor DEF Askable, At, Ask
<1>3. \A c \in Companies : Writable(users, [companies EXCEPT ![c] = Set(r).name], tokens)
  BY <1>2, NothingIsWritable DEF Writable, CompanyRows
<1>4. Rename(r) => Ask(r).on \in Companies
  BY <1>1, Actor DEF Rename, Askable, At, Ask
<1>5. \E cs : Writable(users, cs, tokens) /\ Commit(r, users, cs, tokens)
  <2>1. CASE NewCompany(r)
    BY <2>1, <1>3 DEF NewCompany, Fresh
  <2>2. CASE Rename(r) /\ (companies[Ask(r).on] = None \/ Set(r).name = Seen(r))
    BY <2>2, NothingIsWritable DEF Rename, Commit, IInv, UsedIsUsed
  <2>3. CASE Rename(r) /\ ~(companies[Ask(r).on] = None \/ Set(r).name = Seen(r))
    BY <2>3, <1>3, <1>4 DEF Rename
  <2> QED
    BY <2>1, <2>2, <2>3
<1>6. tokens' = tokens /\ shared' = shared /\ ended' = ended
  BY <1>5 DEF Commit, NewCompany, Rename
<1> QED
  BY <1>5, <1>6, CommitMoves, SameTokens

-----------------------------------------------------------------------------
(* The rows after any step. *)

Rows == <<users, companies, tokens, used, shared, ended>>

\* The steps of a request that write the tables of Accounts.
Commits(r) ==
  \/ Login(r) /\ At(r, "write", {"login"})
  \/ Refresh(r) \/ Logout(r) \/ NewUser(r) \/ UpdateUser(r)
  \/ DeleteUser(r) /\ At(r, "write", {"deleteUser"})
  \/ NewCompany(r) \/ Rename(r) \/ DeleteCompany(r)

LEMMA CommitsMove ==
  ASSUME IInv, NEW r \in Req, Commits(r)
  PROVE  AccountsMoved /\ SessionsMoved /\ Answered(r)
<1>1. AccountsMoved /\ SessionsMoved
  BY LoginWrites, RefreshWrites, LogoutWrites, NewUserWrites, UpdateUserWrites, DeleteUserWrites,
     DeleteCompanyWrites, CompanyWrites DEF Commits
<1>2. Answered(r)
  <2>1. CASE Login(r) /\ At(r, "write", {"login"})
    BY <2>1 DEF Login, At, Commit
  <2>2. CASE Refresh(r) \/ Logout(r) \/ NewUser(r)
    BY <2>2 DEF Refresh, Logout, NewUser, Commit
  <2>3. CASE UpdateUser(r)
    BY <2>3 DEF UpdateUser, Commit
  <2>4. CASE DeleteUser(r) /\ At(r, "write", {"deleteUser"})
    BY <2>4 DEF DeleteUser, At, Commit
  <2>5. CASE NewCompany(r) \/ Rename(r) \/ DeleteCompany(r)
    BY <2>5 DEF NewCompany, Rename, DeleteCompany, Commit
  <2> QED
    BY <2>1, <2>2, <2>3, <2>4, <2>5 DEF Commits
<1> QED
  BY <1>1, <1>2

LEMMA NothingMoves ==
  ASSUME IInv, UNCHANGED Rows
  PROVE  AccountsMoved /\ SessionsMoved
<1>1. AccountsMoved
  BY NothingIsWritable DEF Rows, AccountsMoved, Writable, IInv, TTypeOK, TypeOK, UsedIsUsed, Admissible, Distinct, There, EmailsDistinct
<1> QED
  BY <1>1, SameTokens DEF Rows

LEMMA ExpireMoves ==
  ASSUME IInv, NEW t \in Tokens, Expire(t)
  PROVE  AccountsMoved /\ SessionsMoved
<1>1. /\ t \in There(tokens) /\ tokens' = [tokens EXCEPT ![t].live = FALSE]
      /\ users' = users /\ companies' = companies /\ used' = used /\ shared' = shared /\ ended' = ended
  BY DEF Expire
<1>2. tokens[t] \in Token /\ tokens \in TokenRows
  BY <1>1, ThereIs
<1>3. [tokens[t] EXCEPT !.live = FALSE] \in Token
      /\ [tokens[t] EXCEPT !.live = FALSE].session = tokens[t].session
      /\ [tokens[t] EXCEPT !.live = FALSE].user = tokens[t].user
  BY <1>2 DEF Token
<1>4. tokens' \in TokenRows
      /\ \A s \in Tokens : tokens'[s] = IF s = t THEN [tokens[t] EXCEPT !.live = FALSE] ELSE tokens[s]
  BY <1>1, <1>2, <1>3 DEF TokenRows
<1>5. There(tokens') = There(tokens)
      /\ \A s \in There(tokens) : tokens'[s].session = tokens[s].session /\ tokens'[s].user = tokens[s].user
  BY <1>1, <1>2, <1>3, <1>4, NoneIsNothing DEF There, TokenRows
<1>6. Admissible(users, companies, tokens)'
  BY <1>1, <1>5 DEF IInv, Admissible, Distinct, There
<1>7. SessionKept(tokens')
  BY <1>5 DEF SessionKept
<1>8. AccountsMoved
  BY <1>1, <1>4, <1>5, <1>6, <1>7, NothingIsWritable
  DEF AccountsMoved, Writable, IInv, TTypeOK, TypeOK, UsedIsUsed, EmailsDistinct, There
<1>9. \A s \in There(tokens') : s \in used
  BY <1>5 DEF IInv, UsedIsUsed
<1> QED
  BY <1>1, <1>8, <1>9, SameTokens

\* The tables of Tenancy.
TenancyMoved ==
  /\ creds' \in Seq(CredRow \cup {None}) /\ DOMAIN creds \subseteq DOMAIN creds'
  /\ mappings' \in [Companies -> Link \cup {None}]
  /\ sources' \in [Companies -> [Codes -> BOOLEAN \cup {None}]]
  /\ passed' \subseteq Credential /\ passed \subseteq passed'
  /\ offered' \subseteq Companies \X Codes /\ offered \subseteq offered'
  /\ StoredWasTested' /\ SourcesOffered'

LEMMA SameTenancy ==
  ASSUME IInv, UNCHANGED tenancy
  PROVE  TenancyMoved
  BY DEF IInv, TTypeOK, tenancy, TenancyMoved, StoredWasTested, SourcesOffered

LEMMA Cascades ==
  ASSUME IInv, CascadeTenancy
  PROVE  TenancyMoved
<1> DEFINE gone(i) == creds[i] # None /\ companies'[creds[i].company] = None
<1>1. /\ creds' = [i \in DOMAIN creds |-> IF gone(i) THEN None ELSE creds[i]]
      /\ mappings' = [c \in Companies |-> IF companies'[c] = None THEN None ELSE mappings[c]]
      /\ sources' = [c \in Companies |-> IF companies'[c] = None THEN [x \in Codes |-> None] ELSE sources[c]]
      /\ passed' = passed /\ offered' = offered
  BY DEF CascadeTenancy
<1>2. /\ creds \in Seq(CredRow \cup {None}) /\ mappings \in [Companies -> Link \cup {None}]
      /\ sources \in [Companies -> [Codes -> BOOLEAN \cup {None}]]
      /\ passed \subseteq Credential /\ offered \subseteq Companies \X Codes
      /\ StoredWasTested /\ SourcesOffered
  BY DEF IInv, TTypeOK
<1> HIDE DEF gone
<1>3. creds' \in Seq(CredRow \cup {None}) /\ DOMAIN creds' = DOMAIN creds
      /\ \A i \in DOMAIN creds : creds'[i] = creds[i] \/ creds'[i] = None
  BY <1>1, <1>2
<1>4. mappings' \in [Companies -> Link \cup {None}]
  BY <1>1, <1>2
<1>5. /\ sources' \in [Companies -> [Codes -> BOOLEAN \cup {None}]]
      /\ SourcesOffered'
  BY <1>1, <1>2 DEF SourcesOffered
<1>6. StoredWasTested'
  BY <1>1, <1>2, <1>3 DEF StoredWasTested
<1> QED
  BY <1>1, <1>2, <1>3, <1>4, <1>5, <1>6 DEF TenancyMoved

LEMMA TestPasses ==
  ASSUME IInv, NEW r \in Req, Test(r)
  PROVE  TenancyMoved
<1>1. At(r, "test", Patches) /\ Acting(r)
  BY DEF Test, At, Acting, Patches
<1>2. Seen(r) \in Credential
  BY <1>1, Actor DEF Knows, KnowsCredential
<1> QED
  BY <1>2 DEF Test, IInv, TTypeOK, TenancyMoved, StoredWasTested, SourcesOffered

LEMMA FetchOffers ==
  ASSUME IInv, NEW r \in Req, Fetch(r)
  PROVE  TenancyMoved
<1>1. Acting(r) /\ Ask(r).op \in {"discover", "link"}
  BY DEF Fetch, At, Acting, Ask
<1>2. Caller(r).company \in Companies
  BY <1>1, Actor DEF Knows, KnowsCaller, User
<1>3. offered' \subseteq Companies \X Codes /\ offered \subseteq offered'
  BY <1>2 DEF Fetch, IInv, TTypeOK
<1> QED
  BY <1>3 DEF Fetch, IInv, TTypeOK, TenancyMoved, StoredWasTested, SourcesOffered

LEMMA OwnerIs ==
  ASSUME IInv, NEW r \in Req, Acting(r), Ask(r).op \in Patches
  PROVE  Owner(r) \in Companies /\ Provider(r) \in Providers /\ Set(r) \in Credential
  BY Actor DEF Patches, Owner, Provider, Knows, KnowsCaller, User, TAskable

\* What is stored is what was tested.
LEMMA StoreCredentialMoves ==
  ASSUME IInv, NEW r \in Req, StoreCredential(r)
  PROVE  TenancyMoved
<1> DEFINE i == Seen(r).row
           c == Owner(r)
           new == [company |-> c, provider |-> Provider(r), active |-> TRUE, value |-> Stored(r)]
<1>1. At(r, "write", Patches) /\ Acting(r) /\ Ask(r).op \in Patches
  BY DEF StoreCredential, At, Acting, Patches, Ask
<1>2. Stored(r) \in passed /\ Stored(r) \in Credential /\ i \in {0} \cup DOMAIN creds
  BY <1>1, Actor DEF Knows, KnowsCredential, Stored, IInv, TTypeOK
<1>3. creds \in Seq(CredRow \cup {None})
  BY DEF IInv, TTypeOK
<1>4. new \in CredRow
  BY <1>1, <1>2, OwnerIs DEF CredRow
<1>5. CASE UNCHANGED tenancy
  BY <1>5, SameTenancy
<1>6. CASE /\ i # 0 /\ creds[i] # None
           /\ creds' = [creds EXCEPT ![i].value = Stored(r)]
           /\ UNCHANGED <<mappings, sources, passed, offered>>
  <2>1. i \in DOMAIN creds /\ creds[i] \in CredRow
    BY <1>2, <1>3, <1>6
  <2>2. [creds[i] EXCEPT !.value = Stored(r)] \in CredRow
        /\ [creds[i] EXCEPT !.value = Stored(r)].value = Stored(r)
    BY <1>2, <2>1 DEF CredRow
  <2>3. creds' \in Seq(CredRow \cup {None}) /\ DOMAIN creds' = DOMAIN creds
        /\ \A j \in DOMAIN creds : creds'[j] = IF j = i THEN [creds[i] EXCEPT !.value = Stored(r)] ELSE creds[j]
    BY <1>3, <1>6, <2>1, <2>2
  <2>4. StoredWasTested'
    BY <1>2, <1>6, <2>2, <2>3 DEF IInv, StoredWasTested
  <2> QED
    BY <1>6, <2>3, <2>4 DEF IInv, TTypeOK, TenancyMoved, SourcesOffered
<1>7. CASE creds' = Append(creds, new) /\ UNCHANGED <<mappings, sources, passed, offered>>
  <2>1. new.value = Stored(r)
    OBVIOUS
  <2> HIDE DEF new
  <2>2. creds' \in Seq(CredRow \cup {None}) /\ DOMAIN creds \subseteq DOMAIN creds'
        /\ \A j \in DOMAIN creds' : creds'[j] = IF j \in DOMAIN creds THEN creds[j] ELSE new
    BY <1>3, <1>4, <1>7
  <2>3. StoredWasTested'
    BY <1>2, <1>7, <2>1, <2>2 DEF IInv, StoredWasTested
  <2> QED
    BY <1>7, <2>2, <2>3 DEF IInv, TTypeOK, TenancyMoved, SourcesOffered
<1> QED
  BY <1>5, <1>6, <1>7 DEF StoreCredential, Unwritten, Writes

LEMMA DeactivateMoves ==
  ASSUME IInv, NEW r \in Req, Deactivate(r)
  PROVE  TenancyMoved
<1>1. CASE UNCHANGED tenancy
  BY <1>1, SameTenancy
<1>2. CASE /\ At(r, "write", {"deactivate"}) /\ creds[Seen(r)] # None
           /\ creds' = [creds EXCEPT ![Seen(r)].active = FALSE]
           /\ UNCHANGED <<mappings, sources, passed, offered>>
  <2>1. Seen(r) \in DOMAIN creds
    BY <1>2, AtActs, Actor DEF Knows, KnowsCredential
  <2>2. creds \in Seq(CredRow \cup {None}) /\ creds[Seen(r)] \in CredRow
    BY <1>2, <2>1 DEF IInv, TTypeOK
  <2>3. [creds[Seen(r)] EXCEPT !.active = FALSE] \in CredRow
        /\ [creds[Seen(r)] EXCEPT !.active = FALSE].value = creds[Seen(r)].value
    BY <2>2 DEF CredRow
  <2>4. creds' \in Seq(CredRow \cup {None}) /\ DOMAIN creds' = DOMAIN creds
        /\ \A j \in DOMAIN creds :
             creds'[j] = IF j = Seen(r) THEN [creds[Seen(r)] EXCEPT !.active = FALSE] ELSE creds[j]
    BY <1>2, <2>1, <2>2, <2>3
  <2>5. StoredWasTested'
    BY <1>2, <2>1, <2>3, <2>4 DEF IInv, StoredWasTested
  <2> QED
    BY <1>2, <2>4, <2>5 DEF IInv, TTypeOK, TenancyMoved, SourcesOffered
<1> QED
  BY <1>1, <1>2 DEF Deactivate, Looks, Unwritten, Writes

LEMMA CacheSourcesMoves ==
  ASSUME IInv, NEW r \in Req, CacheSources(r)
  PROVE  TenancyMoved
<1> DEFINE c == Caller(r).company
           l == Seen(r)
<1>1. At(r, "write", {"discover"}) /\ Acting(r)
  BY DEF CacheSources, At, Acting
<1>2. /\ OfferedTo(r, l.found) /\ l.cached \in [Codes -> BOOLEAN \cup {None}]
      /\ OfferedTo(r, {x \in Codes : l.cached[x] # None})
  BY <1>1, Actor DEF Knows, KnowsCodes
<1>3. CASE UNCHANGED tenancy
  BY <1>3, SameTenancy
<1>4. CASE /\ sources' = [sources EXCEPT ![c] = [x \in Codes |-> Recorded(l, x, sources[c][x])]]
           /\ UNCHANGED <<creds, mappings, passed, offered>>
  <2>1. sources \in [Companies -> [Codes -> BOOLEAN \cup {None}]] /\ SourcesOffered
    BY DEF IInv, TTypeOK
  <2>2. c \in Companies
    BY <1>1, Actor, AtActs DEF Knows, KnowsCaller, User
  <2>3. \A x \in Codes : Recorded(l, x, sources[c][x]) \in BOOLEAN \cup {None}
    BY <1>2, <2>1, <2>2 DEF Recorded
  <2>4. \A x \in Codes : Recorded(l, x, sources[c][x]) # None => <<c, x>> \in offered
    BY <1>2, <2>1, <2>2 DEF Recorded, OfferedTo, SourcesOffered
  <2> HIDE DEF c, l
  <2>5. sources' \in [Companies -> [Codes -> BOOLEAN \cup {None}]]
    BY <1>4, <2>1, <2>2, <2>3
  <2>6. SourcesOffered'
    BY <1>4, <2>1, <2>2, <2>4 DEF SourcesOffered
  <2> QED
    BY <1>4, <2>5, <2>6 DEF IInv, TTypeOK, TenancyMoved, StoredWasTested
<1> QED
  BY <1>3, <1>4 DEF CacheSources, Unwritten, Writes

LEMMA StoreLinkMoves ==
  ASSUME IInv, NEW r \in Req, StoreLink(r)
  PROVE  /\ TenancyMoved
         /\ \A c \in Companies :
              \/ mappings'[c] = mappings[c]
              \/ /\ c = Ask(r).on /\ mappings'[c] # None
                 /\ \/ mappings[c] # None /\ mappings'[c].code = mappings[c].code
                    \/ Ask(r).op = "link" /\ mappings'[c].code = Set(r).code
<1> DEFINE c == Ask(r).on
           now == mappings[c]
           old == Seen(r)
           want == Want(r)
           edited == [f \in DOMAIN now |-> IF want[f] # old[f] THEN want[f] ELSE now[f]]
<1>1. At(r, "write", {"link", "unlink"}) /\ Acting(r) /\ Ask(r).op \in {"link", "unlink"}
  BY DEF StoreLink, At, Acting, Ask
<1>2. /\ c \in Companies /\ old \in Link \cup {None}
      /\ Ask(r).op = "link" => Set(r).code \in Codes
      /\ Ask(r).op = "unlink" => old # None
  BY <1>1, Actor DEF Knows, KnowsCodes, TAskable, At, Ask
<1>3. mappings \in [Companies -> Link \cup {None}]
  BY DEF IInv, TTypeOK
<1>4. CASE UNCHANGED tenancy
  BY <1>4, SameTenancy DEF tenancy
<1>5. CASE /\ (old = None) = (now = None)
           /\ mappings' = [mappings EXCEPT ![c] = IF old = None THEN want ELSE edited]
           /\ UNCHANGED <<creds, sources, passed, offered>>
  <2>1. /\ want \in Link
        /\ Ask(r).op = "link" => want.code = Set(r).code
        /\ Ask(r).op = "unlink" => want.code = old.code
    BY <1>1, <1>2 DEF Want, Link
  <2> HIDE DEF want
  <2>2. old # None => /\ edited \in Link
                      /\ edited.code = IF want.code # old.code THEN want.code ELSE now.code
    <3> HAVE old # None
    <3>1. now \in Link /\ old \in Link
      BY <1>2, <1>3, <1>5
    <3> QED
      BY <2>1, <3>1 DEF Link
  <2> HIDE DEF edited
  <2>3. mappings'[c] = (IF old = None THEN want ELSE edited) /\ mappings'[c] \in Link
        /\ \A d \in Companies \ {c} : mappings'[d] = mappings[d]
    BY <1>2, <1>3, <1>5, <2>1, <2>2
  <2>4. mappings' \in [Companies -> Link \cup {None}]
    BY <1>2, <1>3, <1>5, <2>1, <2>2
  <2>5. mappings'[c] # None
    BY <2>3, TenancyAssumption
  <2>6. \/ now # None /\ mappings'[c].code = now.code
        \/ Ask(r).op = "link" /\ mappings'[c].code = Set(r).code
    BY <1>1, <1>2, <1>5, <2>1, <2>2, <2>3
  <2>7. TenancyMoved
    BY <1>5, <2>4 DEF IInv, TTypeOK, TenancyMoved, StoredWasTested, SourcesOffered
  <2> QED
    BY <2>3, <2>5, <2>6, <2>7
<1> QED
  BY <1>4, <1>5 DEF StoreLink, Unwritten, Writes

-----------------------------------------------------------------------------
(* What requests know: first that others do not disturb it. *)

LEMMA KnowsStays ==
  ASSUME IInv, AccountsMoved, TenancyMoved, NEW r \in Req, Acting(r), req'[r] = req[r]
  PROVE  Knows(r)'
<1>1. Knows(r)
  BY Actor
<1>2. /\ Ask(r)' = Ask(r) /\ Set(r)' = Set(r) /\ Caller(r)' = Caller(r) /\ Seen(r)' = Seen(r)
      /\ Target(r)' = Target(r) /\ ByAdmin(r)' = ByAdmin(r)
      /\ \A pc, ops : At(r, pc, ops)' = At(r, pc, ops)
  BY DEF Ask, Set, Caller, Seen, Target, ByAdmin, At
<1>3. KnowsCaller(r)' /\ KnowsUser(r)'
  BY <1>1, <1>2 DEF Knows, KnowsCaller, KnowsUser
<1>4. KnowsToken(r)'
  <2> SUFFICES ASSUME At(r, "write", {"refresh", "logout"})
               PROVE  /\ Seen(r) \in Token /\ Seen(r).session \in used'
                      /\ Ask(r).on \in used'
                      /\ tokens'[Ask(r).on] # None => tokens'[Ask(r).on].session = Seen(r).session
    BY <1>2 DEF KnowsToken
  <2>1. /\ Seen(r) \in Token /\ Seen(r).session \in used /\ Ask(r).on \in used
        /\ tokens[Ask(r).on] # None => tokens[Ask(r).on].session = Seen(r).session
    BY <1>1 DEF Knows, KnowsToken
  <2>2. Ask(r).on \in Tokens
    BY Actor, AtActs DEF Askable
  <2>3. tokens'[Ask(r).on] # None => Ask(r).on \in There(tokens')
    BY <2>2 DEF AccountsMoved, There, TokenRows
  <2>4. \A t \in There(tokens') : t \notin used \/ (tokens[t] # None /\ tokens'[t].session = tokens[t].session)
    BY DEF AccountsMoved, SessionKept, There
  <2> QED
    BY <2>1, <2>3, <2>4 DEF AccountsMoved
<1>5. KnowsAddress(r)'
  <2>1. \A u \in There(users') :
          \/ u \in There(users) /\ users'[u].email = users[u].email
          \/ users'[u].email = Normal[users'[u].email]
    BY DEF AccountsMoved, AddressKept
  <2>2. ASSUME NEW e, NEW u, NormalOrFree(e, u)
        PROVE  \A v \in There(users') \ {u} :
                 Normal[users'[v].email] = Normal[e] => users'[v].email = Normal[users'[v].email]
    BY <2>1, <2>2 DEF NormalOrFree
  <2>3. At(r, "check", {"signup"}) \/ At(r, "write", {"create", "invite", "signup"})
          => NormalOrFree(Set(r).email, None)'
    <3> HAVE At(r, "check", {"signup"}) \/ At(r, "write", {"create", "invite", "signup"})
    <3>1. NormalOrFree(Set(r).email, None)
      BY <1>1 DEF Knows, KnowsAddress
    <3> QED
      BY <1>2, <2>2, <3>1 DEF NormalOrFree
  <2>4. At(r, "check", Edits) => NormalOrFree(Seen(r).email, Target(r))'
    BY <1>1, <1>2, <2>2 DEF Knows, KnowsAddress, NormalOrFree
  <2>5. At(r, "write", Edits) /\ "email" \in DOMAIN Set(r) => NormalOrFree(Set(r).email, Target(r))'
    BY <1>1, <1>2, <2>2 DEF Knows, KnowsAddress, NormalOrFree
  <2> QED
    BY <1>2, <2>3, <2>4, <2>5 DEF KnowsAddress
<1>6. KnowsCredential(r)'
  BY <1>1, <1>2 DEF Knows, KnowsCredential, TenancyMoved
<1>7. KnowsCodes(r)'
  BY <1>1, <1>2 DEF Knows, KnowsCodes, OfferedTo, TenancyMoved
<1> QED
  BY <1>3, <1>4, <1>5, <1>6, <1>7 DEF Knows

-----------------------------------------------------------------------------
(* Then what a request knows after each of its steps. *)

\* r goes on with pc, having seen x.
OnTo(r, pc, x) ==
  /\ req'[r].pc = pc /\ req'[r].seen = x
  /\ req'[r].ask = req[r].ask /\ req'[r].caller = req[r].caller

\* Steps in which r only reads leave all this alone.
Quiet ==
  /\ UNCHANGED Rows
  /\ passed \subseteq passed' /\ offered \subseteq offered' /\ DOMAIN creds' = DOMAIN creds

KnowsNext(r) == req'[r].pc = "done" \/ Knows(r)'

LEMMA Static ==
  ASSUME IInv, NEW r \in Req, Acting(r), NEW pc, NEW x, OnTo(r, pc, x)
  PROVE  /\ KnowsCaller(r)'
         /\ Ask(r)' = Ask(r) /\ Set(r)' = Set(r) /\ Caller(r)' = Caller(r) /\ Seen(r)' = x
         /\ Target(r)' = Target(r) /\ ByAdmin(r)' = ByAdmin(r)
         /\ \A p, ops : At(r, p, ops)' <=> p = pc /\ Ask(r).op \in ops
<1>1. /\ Ask(r)' = Ask(r) /\ Set(r)' = Set(r) /\ Caller(r)' = Caller(r) /\ Seen(r)' = x
      /\ Target(r)' = Target(r) /\ ByAdmin(r)' = ByAdmin(r)
  BY DEF OnTo, Ask, Set, Caller, Seen, Target, ByAdmin
<1>2. \A p, ops : At(r, p, ops)' <=> p = pc /\ Ask(r).op \in ops
  BY DEF OnTo, At, Ask
<1>3. KnowsCaller(r)'
  BY <1>1, Actor DEF Knows, KnowsCaller
<1> QED
  BY <1>1, <1>2, <1>3

\* Nothing is claimed of what has been seen.
LEMMA NothingToKnow ==
  ASSUME IInv, NEW r \in Req, Acting(r), NEW pc, NEW x, OnTo(r, pc, x),
         \/ pc \notin {"check", "write", "test", "reread", "cached"}
         \/ Ask(r).op \in {"newCompany", "rename", "deleteCompany", "deleteUser"}
  PROVE  Knows(r)'
<1>1. /\ Ask(r)' = Ask(r)
      /\ \A p, ops : At(r, p, ops)' <=> p = pc /\ Ask(r).op \in ops
  BY Static
<1>2. KnowsCaller(r)'
  BY Static
<1> QED
  BY <1>1, <1>2 DEF Knows, KnowsToken, KnowsAddress, KnowsUser, KnowsCredential, KnowsCodes, Edits, Patches

LEMMA AuthenticateKnows ==
  ASSUME IInv, NEW r \in Req, NEW a \in Asks[r],
         \/ a.op \in DOMAIN Callers /\ Authenticate(r, a, Callers[a.op])
         \/ a.op \in DOMAIN TCallers /\ Authenticate(r, a, TCallers[a.op])
  PROVE  /\ KnowsNext(r)
         /\ req' = [s \in Req |-> req'[s]] /\ DOMAIN req'[r] = Local
         /\ req'[r].caller \in User \cup {None}
         /\ req'[r].pc # "idle"
         /\ \A s \in Req \ {r} : req'[s] = req[s]
         /\ UNCHANGED Rows
<1> DEFINE caller == IF a.by = None THEN None ELSE users[a.by]
           role == IF caller = None THEN None ELSE caller.role
           callers == IF a.op \in DOMAIN Callers THEN Callers[a.op] ELSE TCallers[a.op]
           ok == role \in callers /\ Admits(a, caller)
           l == [pc |-> IF ok THEN "look" ELSE "done", ask |-> a, caller |-> caller, seen |-> None]
<1>1. DOMAIN Callers \cap DOMAIN TCallers = {}
  BY DEF Callers, TCallers
<1>2. req' = [req EXCEPT ![r] = l] /\ UNCHANGED Rows
  BY <1>1 DEF Authenticate, Rows, rows
<1>3. DOMAIN req = Req /\ req = [s \in Req |-> req[s]]
  BY DEF IInv, TTypeOK, TypeOK
<1>4. Askable(a)
  BY AccountsAssumption
<1>5. caller \in User \cup {None} /\ (caller # None => a.by \in Users)
  BY <1>4, ThereIs DEF Askable, UserRows
<1>6. /\ l.pc = (IF ok THEN "look" ELSE "done") /\ l.ask = a /\ l.caller = caller
      /\ DOMAIN l = Local
  BY DEF Local
<1>7. a.op \notin {"login", "signup", "refresh", "logout"} => callers \subseteq Roles
  BY DEF Callers, TCallers, Roles
<1>8. ok /\ a.op \notin {"login", "signup", "refresh", "logout"} => caller \in User /\ a.by \in Users
  BY <1>5, <1>7, NoneIsNothing
<1>9. ok /\ a.op \in {"create", "invite"} /\ caller.role = "admin" => "company" \in DOMAIN a.set
  BY DEF Admits
<1> HIDE DEF l, ok, caller, callers
<1>10. req'[r] = l /\ req' = [s \in Req |-> req'[s]] /\ \A s \in Req \ {r} : req'[s] = req[s]
  BY <1>2, <1>3
<1>11. ok => Knows(r)'
  BY <1>6, <1>8, <1>9, <1>10
  DEF Knows, KnowsCaller, KnowsToken, KnowsAddress, KnowsUser, KnowsCredential, KnowsCodes,
      Edits, Patches, At, Ask, Set, Caller, ByAdmin
<1> QED
  BY <1>2, <1>5, <1>6, <1>10, <1>11 DEF KnowsNext

LEMMA LoginKnows ==
  ASSUME IInv, NEW r \in Req, At(r, "look", {"login"}), NEW u \in There(users), OnTo(r, "write", u)
  PROVE  Knows(r)'
<1>1. Acting(r) /\ Ask(r).op = "login"
  BY AtActs
<1>2. u \in Users
  BY ThereIs
<1> QED
  BY <1>1, <1>2, Static DEF Knows, KnowsToken, KnowsAddress, KnowsUser, KnowsCredential, KnowsCodes, Edits, Patches

LEMMA FindTokenKnows ==
  ASSUME IInv, NEW r \in Req, At(r, "look", {"refresh", "logout"}), Quiet,
         tokens[Ask(r).on] # None, OnTo(r, "write", tokens[Ask(r).on])
  PROVE  Knows(r)'
<1>1. Acting(r) /\ Ask(r).op \in {"refresh", "logout"}
  BY AtActs
<1>2. Ask(r).on \in There(tokens)
  BY <1>1, Actor, ThereIs DEF Askable
<1>3. /\ tokens[Ask(r).on] \in Token /\ tokens[Ask(r).on].session \in used /\ Ask(r).on \in used
  BY <1>2, ThereIs DEF IInv, UsedIsUsed
<1> QED
  BY <1>1, <1>3, Static DEF Quiet, Rows, Knows, KnowsToken, KnowsAddress, KnowsUser, KnowsCredential, KnowsCodes, Edits, Patches

\* An address that is free is nobody's, however it is written.
LEMMA FreeIsFree ==
  ASSUME NEW e, NEW u, EmailFree(e, u)
  PROVE  NormalOrFree(e, u)
  BY DEF EmailFree, NormalOrFree

LEMMA NewUserKnows ==
  ASSUME IInv, NEW r \in Req, NEW pc \in {"check", "write"}, Quiet, OnTo(r, pc, None),
         \/ At(r, "look", {"create", "invite", "signup"}) /\ EmailFree(Set(r).email, None)
         \/ At(r, "check", {"signup"}) /\ pc = "write"
  PROVE  Knows(r)'
<1>1. Acting(r) /\ Ask(r).op \in {"create", "invite", "signup"}
  BY DEF At, Acting, Ask
<1>2. NormalOrFree(Set(r).email, None)
  BY <1>1, Actor, FreeIsFree DEF Knows, KnowsAddress
<1>3. NormalOrFree(Set(r).email, None)'
  BY <1>1, <1>2, Static DEF Quiet, Rows, NormalOrFree
<1> QED
  BY <1>1, <1>3, Static DEF Knows, KnowsToken, KnowsAddress, KnowsUser, KnowsCredential, KnowsCodes, Edits, Patches

LEMMA FindUserKnows ==
  ASSUME IInv, NEW r \in Req, At(r, "look", Edits), Quiet,
         Target(r) \in There(users), MayEdit(r, Target(r)),
         OnTo(r, "check", Loaded(r, Target(r)))
  PROVE  Knows(r)'
<1> DEFINE u == Target(r)
           row == Loaded(r, u)
<1>1. Acting(r) /\ Ask(r).op \in Edits
  BY AtActs
<1>2. Caller(r) \in User /\ Askable(Ask(r)) /\ Set(r) = Ask(r).set
  BY <1>1, Actor DEF Knows, KnowsCaller, Edits
<1>3. users[u] \in User
  BY ThereIs
<1>4. row \in User /\ row.email = users[u].email
  BY <1>2, <1>3 DEF Loaded, User
<1>5. "role" \in DOMAIN Set(r) /\ ~ByAdmin(r) => Set(r).role = row.role
  BY <1>1, <1>2 DEF MayEdit, Askable, Edits
<1>6. NormalOrFree(row.email, u)
  BY <1>4 DEF NormalOrFree, IInv, EmailsDistinct
<1> HIDE DEF row
<1>7. NormalOrFree(Seen(r).email, Target(r))'
  BY <1>1, <1>6, Static DEF Quiet, Rows, NormalOrFree, row
<1> QED
  BY <1>1, <1>4, <1>5, <1>7, Static
  DEF row, Knows, KnowsToken, KnowsAddress, KnowsUser, KnowsCredential, KnowsCodes, Edits, Patches

\* Where the address was not checked it is the user's own, as nobody else had it.
LEMMA CheckUpdateKnows ==
  ASSUME IInv, NEW r \in Req, At(r, "check", Edits), Quiet, OnTo(r, "write", Seen(r)),
         \/ "email" \notin DOMAIN Set(r)
         \/ Normal[Set(r).email] = Normal[Seen(r).email]
         \/ EmailFree(Set(r).email, Target(r))
  PROVE  Knows(r)'
<1>1. Acting(r) /\ Ask(r).op \in Edits
  BY AtActs
<1>2. Knows(r)
  BY <1>1, Actor
<1>3. "email" \in DOMAIN Set(r) => NormalOrFree(Set(r).email, Target(r))
  <2>1. NormalOrFree(Seen(r).email, Target(r))
    BY <1>2 DEF Knows, KnowsAddress
  <2> QED
    BY <2>1, FreeIsFree DEF NormalOrFree
<1>4. ("email" \in DOMAIN Set(r) => NormalOrFree(Set(r).email, Target(r)))'
  BY <1>1, <1>3, Static DEF Quiet, Rows, NormalOrFree
<1>5. Seen(r) \in User /\ ("role" \in DOMAIN Set(r) /\ ~ByAdmin(r) => Set(r).role = Seen(r).role)
  BY <1>2 DEF Knows, KnowsUser
<1> QED
  BY <1>1, <1>4, <1>5, Static
  DEF Knows, KnowsToken, KnowsAddress, KnowsUser, KnowsCredential, KnowsCodes, Edits, Patches

LEMMA ActiveIsThere ==
  ASSUME NEW c, NEW p
  PROVE  /\ Active(c, p) \in {0} \cup DOMAIN creds
         /\ Active(c, p) # 0 => creds[Active(c, p)] # None
  BY DEF Active

LEMMA MergedIsCredential ==
  ASSUME NEW old \in Credential, NEW new \in Credential
  PROVE  Merged(old, new) \in Credential
<1>1. PICK F \in SUBSET Fields : old \in [F -> Values]
  BY DEF Credential
<1>2. PICK G \in SUBSET Fields : new \in [G -> Values]
  BY DEF Credential
<1>3. Merged(old, new) \in [F \cup G -> Values]
  BY <1>1, <1>2 DEF Merged
<1> QED
  BY <1>3 DEF Credential

LEMMA MergeKnows ==
  ASSUME IInv, NEW r \in Req, At(r, "merge", Patches),
         LET i == Active(Owner(r), Provider(r))
         IN OnTo(r, "test", Merged(IF i = 0 THEN [f \in {} |-> None] ELSE creds[i].value, Set(r)))
  PROVE  Knows(r)'
<1> DEFINE i == Active(Owner(r), Provider(r))
           old == IF i = 0 THEN [f \in {} |-> None] ELSE creds[i].value
<1>1. Acting(r) /\ Ask(r).op \in Patches
  BY AtActs
<1>2. Set(r) \in Credential
  BY <1>1, OwnerIs
<1>3. old \in Credential
  <2>1. CASE i = 0
    <3>1. [f \in {} |-> None] \in [{} -> Values]
      OBVIOUS
    <3> QED
      BY <2>1, <3>1 DEF Credential
  <2>2. CASE i # 0
    <3>1. i \in DOMAIN creds /\ creds[i] # None
      BY <2>2, ActiveIsThere
    <3>2. creds[i] \in CredRow
      BY <3>1 DEF IInv, TTypeOK
    <3> QED
      BY <2>2, <3>2 DEF CredRow
  <2> QED
    BY <2>1, <2>2
<1> HIDE DEF old
<1>4. Merged(old, Set(r)) \in Credential
  BY <1>2, <1>3, MergedIsCredential
<1>5. OnTo(r, "test", Merged(old, Set(r)))
  BY DEF old
<1> QED
  BY <1>1, <1>4, <1>5, Static
  DEF Knows, KnowsToken, KnowsAddress, KnowsUser, KnowsCredential, KnowsCodes, Edits, Patches

LEMMA TestKnows ==
  ASSUME IInv, NEW r \in Req, At(r, "test", Patches), OnTo(r, "reread", Seen(r)), Seen(r) \in passed'
  PROVE  Knows(r)'
<1>1. Acting(r) /\ Ask(r).op \in Patches
  BY AtActs
<1> QED
  BY <1>1, Static DEF Knows, KnowsToken, KnowsAddress, KnowsUser, KnowsCredential, KnowsCodes, Edits, Patches

LEMMA RereadKnows ==
  ASSUME IInv, NEW r \in Req, At(r, "reread", Patches), Quiet,
         OnTo(r, "write", [value |-> Seen(r), row |-> Active(Owner(r), Provider(r))])
  PROVE  Knows(r)'
<1>1. Acting(r) /\ Ask(r).op \in Patches
  BY AtActs
<1>2. Seen(r) \in passed
  BY <1>1, Actor DEF Knows, KnowsCredential
<1> QED
  BY <1>1, <1>2, Static, ActiveIsThere
  DEF Quiet, Knows, KnowsToken, KnowsAddress, KnowsUser, KnowsCredential, KnowsCodes, Edits, Patches

LEMMA DeactivateKnows ==
  ASSUME IInv, NEW r \in Req, At(r, "look", {"deactivate"}), Quiet,
         NEW c, NEW p, Active(c, p) # 0, OnTo(r, "write", Active(c, p))
  PROVE  Knows(r)'
<1>1. Acting(r) /\ Ask(r).op = "deactivate"
  BY AtActs
<1> QED
  BY <1>1, Static, ActiveIsThere
  DEF Quiet, Knows, KnowsToken, KnowsAddress, KnowsUser, KnowsCredential, KnowsCodes, Edits, Patches

\* What r's company was offered.
LEMMA FetchKnows ==
  ASSUME IInv, NEW r \in Req, At(r, "fetch", {"discover", "link"}),
         NEW found \in SUBSET Codes, OnTo(r, "cached", found),
         offered' = offered \cup {<<Caller(r).company, x>> : x \in found},
         Ask(r).op = "discover" \/ Set(r).code \in found
  PROVE  Knows(r)'
<1>1. Acting(r) /\ Ask(r).op \in {"discover", "link"}
  BY AtActs
<1>2. OfferedTo(r, found)' /\ (Ask(r).op = "link" => OfferedTo(r, {Set(r).code})')
  BY <1>1, Static DEF OfferedTo
<1> QED
  BY <1>1, <1>2, Static
  DEF Knows, KnowsToken, KnowsAddress, KnowsUser, KnowsCredential, KnowsCodes, Edits, Patches

LEMMA ReadCacheKnows ==
  ASSUME IInv, NEW r \in Req, At(r, "cached", {"discover"}), Quiet,
         OnTo(r, "write", [found |-> Seen(r), cached |-> sources[Caller(r).company]])
  PROVE  Knows(r)'
<1>1. Acting(r) /\ Ask(r).op = "discover"
  BY AtActs
<1>2. Caller(r).company \in Companies
  BY <1>1, Actor DEF Knows, KnowsCaller, User
<1>3. OfferedTo(r, Seen(r)) /\ sources[Caller(r).company] \in [Codes -> BOOLEAN \cup {None}]
      /\ OfferedTo(r, {x \in Codes : sources[Caller(r).company][x] # None})
  BY <1>1, <1>2, Actor DEF Knows, KnowsCodes, OfferedTo, IInv, TTypeOK, SourcesOffered
<1> QED
  BY <1>1, <1>3, Static
  DEF Quiet, OfferedTo, Knows, KnowsToken, KnowsAddress, KnowsUser, KnowsCredential, KnowsCodes, Edits, Patches

LEMMA KnownKnows ==
  ASSUME IInv, NEW r \in Req, At(r, "known", {"link"}), Quiet, Known(r), OnTo(r, "cached", None)
  PROVE  Knows(r)'
<1>1. Acting(r) /\ Ask(r).op = "link"
  BY AtActs
<1>2. Caller(r).company \in Companies /\ Set(r).code \in Codes
  BY <1>1, Actor DEF Knows, KnowsCaller, User, TAskable
<1>3. OfferedTo(r, {Set(r).code})
  BY <1>2, TenancyAssumption DEF Known, IInv, SourcesOffered, OfferedTo
<1> QED
  BY <1>1, <1>3, Static
  DEF Quiet, OfferedTo, Knows, KnowsToken, KnowsAddress, KnowsUser, KnowsCredential, KnowsCodes, Edits, Patches

LEMMA ReadLinkKnows ==
  ASSUME IInv, NEW r \in Req, Quiet, OnTo(r, "write", mappings[Ask(r).on]),
         \/ At(r, "cached", {"link"})
         \/ At(r, "read", {"unlink"}) /\ mappings[Ask(r).on] # None
  PROVE  Knows(r)'
<1>1. Acting(r) /\ Ask(r).op \in {"link", "unlink"}
  BY DEF At, Acting, Ask
<1>2. mappings[Ask(r).on] \in Link \cup {None}
  BY <1>1, Actor DEF TAskable, IInv, TTypeOK
<1>3. Ask(r).op = "link" => OfferedTo(r, {Set(r).code})
  BY <1>1, Actor DEF Knows, KnowsCodes, At, Ask
<1>4. Ask(r).op = "unlink" => mappings[Ask(r).on] # None
  BY DEF At, Ask
<1> QED
  BY <1>1, <1>2, <1>3, <1>4, Static
  DEF Quiet, OfferedTo, Knows, KnowsToken, KnowsAddress, KnowsUser, KnowsCredential, KnowsCodes, Edits, Patches

-----------------------------------------------------------------------------
(* Requests, step by step. *)

ReqMoved(r) ==
  /\ req' = [s \in Req |-> req'[s]] /\ DOMAIN req'[r] = Local
  /\ req'[r].caller \in User \cup {None}
  /\ \A s \in Req \ {r} : req'[s] = req[s]
  /\ Acting(r)' => Knows(r)'

LEMMA GoesMoves ==
  ASSUME IInv, NEW r \in Req, NEW pc, NEW x, Goes(r, pc, x),
         OnTo(r, pc, x) => pc = "done" \/ Knows(r)'
  PROVE  ReqMoved(r)
<1>1. Shaped
  BY DEF IInv, TTypeOK, TypeOK, Shaped
<1>2. /\ Shaped' /\ OnTo(r, pc, x) /\ \A s \in Req \ {r} : req'[s] = req[s]
  BY <1>1, GoesOn DEF OnTo
<1> QED
  BY <1>2 DEF Shaped, OnTo, ReqMoved, Acting, IInv, TTypeOK, TypeOK

LEMMA NothingMoved ==
  ASSUME IInv, NEW r \in Req, Acting(r), NEW pc, NEW x, Goes(r, pc, x),
         \/ pc \notin {"check", "write", "test", "reread", "cached"}
         \/ Ask(r).op \in {"newCompany", "rename", "deleteCompany", "deleteUser"}
  PROVE  ReqMoved(r)
  BY NothingToKnow, GoesMoves

LEMMA SessionReads ==
  ASSUME IInv, NEW r \in Req, Quiet, FindToken(r) \/ (Login(r) /\ ~At(r, "write", {"login"}))
  PROVE  ReqMoved(r)
<1>1. CASE FindToken(r)
  <2>1. At(r, "look", {"refresh", "logout"}) /\ Acting(r)
    BY <1>1 DEF FindToken, At, Acting
  <2>2. Goes(r, IF tokens[Ask(r).on] = None THEN "done" ELSE "write", tokens[Ask(r).on])
    BY <1>1 DEF FindToken, Reading
  <2> QED
    BY <2>1, <2>2, FindTokenKnows, GoesMoves
<1>2. CASE Login(r) /\ ~At(r, "write", {"login"})
  <2>1. At(r, "look", {"login"}) /\ Acting(r)
    BY <1>2 DEF Login, At, Acting
  <2>2. Goes(r, "done", None) \/ \E u \in There(users) : Goes(r, "write", u)
    BY <1>2 DEF Login, Reading
  <2> QED
    BY <2>1, <2>2, LoginKnows, GoesMoves
<1> QED
  BY <1>1, <1>2

LEMMA UserReads ==
  ASSUME IInv, NEW r \in Req, Quiet,
         CheckNewUser(r) \/ FindUser(r) \/ CheckUpdate(r)
         \/ (DeleteUser(r) /\ ~At(r, "write", {"deleteUser"}))
  PROVE  ReqMoved(r)
<1>1. CASE CheckNewUser(r)
  <2>1. CASE /\ At(r, "look", {"create", "invite", "signup"})
             /\ Reading(r, IF ~EmailFree(Set(r).email, None) THEN "done"
                           ELSE IF Ask(r).op = "signup" THEN "check" ELSE "write", None)
    BY <2>1, NewUserKnows, GoesMoves DEF Reading
  <2>2. CASE /\ At(r, "check", {"signup"})
             /\ Reading(r, IF NameFree(Set(r).name, None) THEN "write" ELSE "done", None)
    BY <2>2, NewUserKnows, GoesMoves DEF Reading
  <2> QED
    BY <1>1, <2>1, <2>2 DEF CheckNewUser
<1>2. CASE FindUser(r)
  <2>1. At(r, "look", Edits)
    BY <1>2 DEF FindUser, Edits
  <2>2. \/ /\ Target(r) \in There(users) /\ MayEdit(r, Target(r))
           /\ Goes(r, "check", Loaded(r, Target(r)))
        \/ Goes(r, "done", None)
    BY <1>2 DEF FindUser, Reading
  <2> QED
    BY <2>1, <2>2, FindUserKnows, GoesMoves
<1>3. CASE CheckUpdate(r)
  <2> DEFINE taken == /\ "email" \in DOMAIN Set(r)
                      /\ Normal[Set(r).email] # Normal[Seen(r).email]
                      /\ ~EmailFree(Set(r).email, Target(r))
  <2>1. At(r, "check", Edits)
    BY <1>3 DEF CheckUpdate, Edits
  <2>2. Goes(r, "done", Seen(r)) \/ (~taken /\ Goes(r, "write", Seen(r)))
    BY <1>3 DEF CheckUpdate, Reading
  <2> QED
    BY <2>1, <2>2, CheckUpdateKnows, GoesMoves
<1>4. CASE DeleteUser(r) /\ ~At(r, "write", {"deleteUser"})
  <2>1. At(r, "look", {"deleteUser"}) /\ Acting(r) /\ Ask(r).op = "deleteUser"
    BY <1>4 DEF DeleteUser, At, Acting, Ask
  <2> QED
    BY <1>4, <2>1, NothingMoved DEF DeleteUser, Reading
<1> QED
  BY <1>1, <1>2, <1>3, <1>4

LEMMA CompanyReads ==
  ASSUME IInv, NEW r \in Req, CheckName(r) \/ FindPeople(r)
  PROVE  ReqMoved(r)
<1>1. Acting(r) /\ Ask(r).op \in {"newCompany", "rename", "deleteCompany"}
  BY DEF CheckName, FindPeople, At, Acting, Ask
<1>2. \E pc, x : Goes(r, pc, x)
  BY DEF CheckName, FindPeople, Reading
<1> QED
  BY <1>1, <1>2, NothingMoved

Enters(r) == \E a \in Asks[r] : a.op \in DOMAIN Callers /\ Authenticate(r, a, Callers[a.op])
TEnters(r) ==
  \E a \in Asks[r] : a.op \in DOMAIN TCallers /\ Authenticate(r, a, TCallers[a.op]) /\ UNCHANGED tenancy

LEMMA AccountMoves ==
  ASSUME IInv, NEW r \in Req, AccountStep(r), CascadeTenancy
  PROVE  AccountsMoved /\ SessionsMoved /\ TenancyMoved /\ ReqMoved(r)
<1>1. TenancyMoved
  BY Cascades
<1>2. UNCHANGED Rows => Quiet
  BY DEF Quiet, CascadeTenancy
<1>3. CASE Enters(r)
  <2>1. ReqMoved(r) /\ UNCHANGED Rows
    BY <1>3, AuthenticateKnows DEF Enters, ReqMoved, KnowsNext, Acting
  <2> QED
    BY <1>1, <2>1, NothingMoves
<1>4. CASE Commits(r)
  <2>1. AccountsMoved /\ SessionsMoved /\ Answered(r)
    BY <1>4, CommitsMove
  <2>2. ReqMoved(r)
    BY <2>1, GoesMoves DEF Answered
  <2> QED
    BY <1>1, <2>1, <2>2
<1>5. CASE FindToken(r) \/ (Login(r) /\ ~At(r, "write", {"login"}))
  <2>1. UNCHANGED Rows
    BY <1>5 DEF FindToken, Login, Reading, Rows, rows
  <2> QED
    BY <1>1, <1>2, <1>5, <2>1, SessionReads, NothingMoves
<1>6. CASE CheckNewUser(r) \/ FindUser(r) \/ CheckUpdate(r)
           \/ (DeleteUser(r) /\ ~At(r, "write", {"deleteUser"}))
  <2>1. UNCHANGED Rows
    BY <1>6 DEF CheckNewUser, FindUser, CheckUpdate, DeleteUser, Reading, Rows, rows
  <2> QED
    BY <1>1, <1>2, <1>6, <2>1, UserReads, NothingMoves
<1>7. CASE CheckName(r) \/ FindPeople(r)
  <2>1. UNCHANGED Rows
    BY <1>7 DEF CheckName, FindPeople, Reading, Rows, rows
  <2> QED
    BY <1>1, <1>7, <2>1, CompanyReads, NothingMoves
<1>8. \/ Enters(r)
      \/ Login(r) \/ FindToken(r) \/ Refresh(r) \/ Logout(r) \/ CheckNewUser(r) \/ NewUser(r)
      \/ FindUser(r) \/ CheckUpdate(r) \/ UpdateUser(r) \/ DeleteUser(r)
      \/ CheckName(r) \/ NewCompany(r) \/ Rename(r) \/ FindPeople(r) \/ DeleteCompany(r)
  BY DEF AccountStep, Enters
<1> QED
  BY <1>3, <1>4, <1>5, <1>6, <1>7, <1>8 DEF Commits

LEMMA CredentialReads ==
  ASSUME IInv, NEW r \in Req, Quiet, MayPatch(r) \/ Merge(r) \/ Test(r) \/ Reread(r)
  PROVE  ReqMoved(r)
<1>1. CASE MayPatch(r)
  <2>1. Acting(r) /\ \E pc \in {"merge", "done"} : Goes(r, pc, None)
    BY <1>1 DEF MayPatch, Looks, Reading, At, Acting
  <2> QED
    BY <2>1, NothingMoved
<1>2. CASE Merge(r)
  <2> DEFINE i == Active(Owner(r), Provider(r))
             x == Merged(IF i = 0 THEN [f \in {} |-> None] ELSE creds[i].value, Set(r))
  <2>1. At(r, "merge", Patches) /\ (Goes(r, "done", None) \/ Goes(r, "test", x))
    BY <1>2 DEF Merge, Looks, Reading, Patches
  <2>2. OnTo(r, "test", x) => Knows(r)'
    BY <2>1, MergeKnows
  <2> HIDE DEF x
  <2> QED
    BY <2>1, <2>2, GoesMoves
<1>3. CASE Test(r)
  <2>1. At(r, "test", Patches)
    BY <1>3 DEF Test, Patches
  <2>2. Goes(r, "done", None) \/ (Seen(r) \in passed' /\ Goes(r, "reread", Seen(r)))
    BY <1>3 DEF Test, Answered
  <2> QED
    BY <2>1, <2>2, TestKnows, GoesMoves
<1>4. CASE Reread(r)
  <2> DEFINE x == [value |-> Seen(r), row |-> Active(Owner(r), Provider(r))]
  <2>1. At(r, "reread", Patches) /\ Goes(r, "write", x)
    BY <1>4 DEF Reread, Looks, Reading, Patches
  <2>2. OnTo(r, "write", x) => Knows(r)'
    BY <2>1, RereadKnows
  <2> HIDE DEF x
  <2> QED
    BY <2>1, <2>2, GoesMoves
<1> QED
  BY <1>1, <1>2, <1>3, <1>4

LEMMA CodeReads ==
  ASSUME IInv, NEW r \in Req, Quiet,
         NeedCredential(r) \/ Fetch(r) \/ ReadCache(r) \/ MayLink(r) \/ ReadLink(r)
  PROVE  ReqMoved(r)
<1>1. CASE NeedCredential(r)
  <2>1. Acting(r) /\ \E pc \in {"fetch", "done"} : Goes(r, pc, None)
    BY <1>1 DEF NeedCredential, Looks, Reading, At, Acting
  <2> QED
    BY <2>1, NothingMoved
<1>2. CASE Fetch(r)
  <2>1. At(r, "fetch", {"discover", "link"})
    BY <1>2 DEF Fetch
  <2>2. CASE Answered(r)
    BY <2>2, GoesMoves DEF Answered
  <2>3. CASE \E found \in SUBSET Codes :
               /\ offered' = offered \cup {<<Caller(r).company, x>> : x \in found}
               /\ Goes(r, IF Ask(r).op = "discover" \/ Set(r).code \in found THEN "cached" ELSE "done", found)
    <3>1. PICK found \in SUBSET Codes :
               /\ offered' = offered \cup {<<Caller(r).company, x>> : x \in found}
               /\ Goes(r, IF Ask(r).op = "discover" \/ Set(r).code \in found THEN "cached" ELSE "done", found)
      BY <2>3
    <3>2. CASE Ask(r).op = "discover" \/ Set(r).code \in found
      <4>1. OnTo(r, "cached", found) => Knows(r)'
        BY <2>1, <3>1, <3>2, FetchKnows
      <4> QED
        BY <3>1, <3>2, <4>1, GoesMoves
    <3>3. CASE ~(Ask(r).op = "discover" \/ Set(r).code \in found)
      BY <3>1, <3>3, GoesMoves
    <3> QED
      BY <3>2, <3>3
  <2> QED
    BY <1>2, <2>2, <2>3 DEF Fetch
<1>3. CASE ReadCache(r)
  <2> DEFINE x == [found |-> Seen(r), cached |-> sources[Caller(r).company]]
  <2>1. At(r, "cached", {"discover"}) /\ Goes(r, "write", x)
    BY <1>3 DEF ReadCache, Looks, Reading
  <2>2. OnTo(r, "write", x) => Knows(r)'
    BY <2>1, ReadCacheKnows
  <2> HIDE DEF x
  <2> QED
    BY <2>1, <2>2, GoesMoves
<1>4. CASE MayLink(r)
  <2>1. CASE Acting(r) /\ \E pc \in {"known", "validate", "done"} : Goes(r, pc, None)
    BY <2>1, NothingMoved
  <2>2. CASE At(r, "known", {"link"}) /\ Known(r) /\ Goes(r, "cached", None)
    BY <2>2, KnownKnows, GoesMoves
  <2> QED
    BY <1>4, <2>1, <2>2 DEF MayLink, Looks, Reading, At, Acting
<1>5. CASE ReadLink(r)
  <2>1. CASE Acting(r) /\ \E pc \in {"read", "done"} : \E x : Goes(r, pc, x)
    BY <2>1, NothingMoved
  <2>2. CASE /\ Goes(r, "write", mappings[Ask(r).on])
             /\ \/ At(r, "cached", {"link"})
                \/ At(r, "read", {"unlink"}) /\ mappings[Ask(r).on] # None
    BY <2>2, ReadLinkKnows, GoesMoves
  <2> QED
    BY <1>5, <2>1, <2>2 DEF ReadLink, Looks, Reading, At, Acting, Linked
<1> QED
  BY <1>1, <1>2, <1>3, <1>4, <1>5

LEMMA TenancyMoves ==
  ASSUME IInv, NEW r \in Req, TenancyStep(r)
  PROVE  AccountsMoved /\ SessionsMoved /\ TenancyMoved /\ ReqMoved(r)
<1>1. UNCHANGED Rows => AccountsMoved /\ SessionsMoved
  BY NothingMoves
<1>2. CASE TEnters(r)
  <2>1. ReqMoved(r) /\ UNCHANGED Rows /\ UNCHANGED tenancy
    BY <1>2, AuthenticateKnows DEF TEnters, ReqMoved, KnowsNext, Acting
  <2> QED
    BY <1>1, <2>1, SameTenancy
<1>3. CASE MayPatch(r) \/ Merge(r) \/ Test(r) \/ Reread(r)
  <2>1. UNCHANGED Rows /\ TenancyMoved
    BY <1>3, TestPasses, SameTenancy DEF MayPatch, Merge, Reread, Looks, Reading, Test, Rows, rows
  <2>2. Quiet
    BY <1>3, <2>1 DEF MayPatch, Merge, Reread, Looks, Test, tenancy, Quiet, TenancyMoved
  <2> QED
    BY <1>1, <1>3, <2>1, <2>2, CredentialReads
<1>4. CASE NeedCredential(r) \/ Fetch(r) \/ ReadCache(r) \/ MayLink(r) \/ ReadLink(r)
  <2>1. UNCHANGED Rows /\ TenancyMoved
    BY <1>4, FetchOffers, SameTenancy
    DEF NeedCredential, ReadCache, MayLink, ReadLink, Looks, Reading, Fetch, Rows, rows
  <2>2. Quiet
    BY <1>4, <2>1 DEF NeedCredential, ReadCache, MayLink, ReadLink, Looks, Fetch, tenancy, Quiet, TenancyMoved
  <2> QED
    BY <1>1, <1>4, <2>1, <2>2, CodeReads
<1>5. CASE StoreCredential(r) \/ CacheSources(r) \/ StoreLink(r) \/ Deactivate(r)
  <2>1. UNCHANGED Rows
    BY <1>5 DEF StoreCredential, CacheSources, StoreLink, Deactivate, Writes, Unwritten, Looks, Reading, Rows, rows
  <2>2. TenancyMoved
    BY <1>5, StoreCredentialMoves, CacheSourcesMoves, StoreLinkMoves, DeactivateMoves
  <2>3. CASE StoreCredential(r) \/ CacheSources(r) \/ StoreLink(r)
    <3>1. Answered(r)
      BY <2>3 DEF StoreCredential, CacheSources, StoreLink, Writes, Unwritten
    <3> QED
      BY <1>1, <2>1, <2>2, <3>1, GoesMoves DEF Answered
  <2>4. CASE Deactivate(r)
    <3>1. ASSUME Answered(r)
          PROVE  ReqMoved(r)
      BY <3>1, GoesMoves DEF Answered
    <3>2. ASSUME /\ At(r, "look", {"deactivate"}) /\ UNCHANGED tenancy
                 /\ \/ Goes(r, "done", 0)
                    \/ /\ Active(Ask(r).on, Provider(r)) # 0
                       /\ Goes(r, "write", Active(Ask(r).on, Provider(r)))
          PROVE  ReqMoved(r)
      <4>1. Quiet
        BY <2>1, <3>2 DEF Quiet, tenancy
      <4> QED
        BY <3>2, <4>1, DeactivateKnows, GoesMoves
    <3>3. \/ Answered(r)
          \/ /\ At(r, "look", {"deactivate"}) /\ UNCHANGED tenancy
             /\ \/ Goes(r, "done", 0)
                \/ /\ Active(Ask(r).on, Provider(r)) # 0
                   /\ Goes(r, "write", Active(Ask(r).on, Provider(r)))
      BY <2>4 DEF Deactivate, Looks, Reading, Writes, Unwritten
    <3>4. ReqMoved(r)
      BY <3>1, <3>2, <3>3
    <3> QED
      BY <1>1, <2>1, <2>2, <3>4
  <2> QED
    BY <1>5, <2>3, <2>4
<1> QED
  BY <1>2, <1>3, <1>4, <1>5 DEF TenancyStep, TEnters

LEMMA InvMoves ==
  ASSUME IInv, AccountsMoved, SessionsMoved, TenancyMoved,
         req' = [s \in Req |-> req'[s]],
         \A s \in Req : \/ req'[s] = req[s]
                        \/ /\ DOMAIN req'[s] = Local /\ req'[s].caller \in User \cup {None}
                           /\ Acting(s)' => Knows(s)'
  PROVE  IInv'
<1>1. \A s \in Req : Acting(s)' => Knows(s)'
  BY KnowsStays DEF Acting
<1>2. \A s \in Req : DOMAIN req'[s] = Local /\ req'[s].caller \in User \cup {None}
  BY DEF IInv, TTypeOK, TypeOK
<1>3. TTypeOK'
  BY <1>2 DEF TTypeOK, TypeOK, AccountsMoved, SessionsMoved, TenancyMoved, UserRows, CompanyRows, TokenRows
<1> QED
  BY <1>1, <1>3 DEF IInv, AccountsMoved, SessionsMoved, TenancyMoved

\* What requests know holds initially, and every step of a request, and the passing
\* of time, keep it.
THEOREM Invariance == TSpec => []IInv
<1>1. TInit => IInv
  <2> SUFFICES ASSUME TInit PROVE IInv
    OBVIOUS
  <2> USE DEF TInit, Init
  <2>1. \A i \in DOMAIN SeedCreds : SeedCreds[i] \in CredRow
    BY TenancyAssumption
  <2>2. TypeOK
    <3>1. DOMAIN [pc |-> "idle", ask |-> None, caller |-> None, seen |-> None] = Local
      BY DEF Local
    <3>2. used \subseteq Users \cup Companies \cup Tokens
      BY AccountsAssumption DEF There, Token
    <3> QED
      BY <3>1, <3>2, AccountsAssumption DEF TypeOK
  <2>3. passed \subseteq Credential
    BY <2>1 DEF CredRow
  <2>4. creds \in Seq(CredRow \cup {None})
    BY TenancyAssumption
  <2>5. TTypeOK
    BY <2>2, <2>3, <2>4, TenancyAssumption DEF TTypeOK
  <2>6. Admissible(users, companies, tokens) /\ EmailsDistinct
    BY SeedAssumption DEF EmailsDistinct
  <2>7. UsedIsUsed
    BY DEF UsedIsUsed
  <2>8. SessionsApart
    BY SeedAssumption DEF SessionsApart
  <2>9. StoredWasTested /\ SourcesOffered
    BY DEF StoredWasTested, SourcesOffered
  <2>10. \A r \in Req : ~Acting(r)
    BY DEF Acting
  <2> QED
    BY <2>5, <2>6, <2>7, <2>8, <2>9, <2>10 DEF IInv
<1>2. IInv /\ [TNext]_tvars => IInv'
  <2> SUFFICES ASSUME IInv, [TNext]_tvars PROVE IInv'
    OBVIOUS
  <2>1. ASSUME NEW r \in Req, TenancyStep(r) \/ (AccountStep(r) /\ CascadeTenancy)
        PROVE  IInv'
    BY <2>1, AccountMoves, TenancyMoves, InvMoves DEF ReqMoved
  <2>2. ASSUME NEW t \in Tokens, Expire(t), UNCHANGED tenancy
        PROVE  IInv'
    BY <2>2, ExpireMoves, SameTenancy, InvMoves DEF Expire, IInv, TTypeOK, TypeOK
  <2>3. ASSUME UNCHANGED tvars
        PROVE  IInv'
    BY <2>3, NothingMoves, SameTenancy, InvMoves DEF tvars, vars, tenancy, Rows, IInv, TTypeOK, TypeOK
  <2> QED
    BY <2>1, <2>2, <2>3 DEF TNext
<1> QED
  BY <1>1, <1>2, PTL DEF TSpec

-----------------------------------------------------------------------------
(* Theorems. *)

\* Rows, local states and what is at the providers are of their types, whatever
\* the requests ask and in whichever order they commit.
THEOREM TypeCorrect == TSpec => []TTypeOK
  BY Invariance, PTL DEF IInv

\* No two users have one address, though ensure_email_is_available and the insert
\* or update it allows are statements of two moments.
THEOREM AddressesDistinct == TSpec => []EmailsDistinct
  BY Invariance, PTL DEF IInv

\* A credential that is stored passed its live test as it is.
THEOREM StoredPassed == TSpec => []StoredWasTested
  BY Invariance, PTL DEF IInv

\* A session has one refresh token and none after a logout, as long as no two
\* requests were given the same token.
THEOREM SessionsHaveOneToken == TSpec => []OneTokenPerSession
<1>1. IInv => OneTokenPerSession
  <2> SUFFICES ASSUME IInv, NEW s \in Tokens \ shared
               PROVE  Cardinality({t \in There(tokens) : tokens[t].session = s})
                        <= IF s \in ended THEN 0 ELSE 1
    BY DEF OneTokenPerSession
  <2> DEFINE of == {t \in There(tokens) : tokens[t].session = s}
  <2>1. CASE of = {}
    BY <2>1, FS_EmptySet
  <2>2. CASE of # {}
    <3>1. PICK t \in of : TRUE
      BY <2>2
    <3>2. of = {t} /\ s \notin ended
      BY <3>1 DEF IInv, SessionsApart
    <3>3. Cardinality(of) = 1
      BY <3>2, FS_Singleton
    <3> QED
      BY <3>2, <3>3
  <2> QED
    BY <2>1, <2>2
<1> QED
  BY <1>1, Invariance, PTL

-----------------------------------------------------------------------------
(* What a step changes of a row that stays. *)

\* Only UpdateUser changes a user's columns: the other commits leave the row, delete
\* it, or insert one whose identifier is fresh.
LEMMA UsersKept ==
  ASSUME IInv, NEW r \in Req, AccountStep(r), ~UpdateUser(r),
         NEW u \in There(users) \cap There(users')
  PROVE  users'[u] = users[u]
<1> DEFINE Keeps(us) == u \in There(us) => us[u] = users[u]
<1>1. u \in Users /\ u \in used /\ users \in UserRows
  BY ThereIs DEF IInv, UsedIsUsed
<1>2. Keeps(users)
  OBVIOUS
<1>3. ASSUME NEW us, NEW cs, NEW ts, Keeps(us), Commit(r, us, cs, ts)
      PROVE  users'[u] = users[u]
  BY <1>3 DEF Commit
<1>4. CASE NewUser(r)
  <2>1. PICK v \in Fresh(Users) : \E row, cs, ts : Commit(r, [users EXCEPT ![v] = row], cs, ts)
    BY <1>4 DEF NewUser
  <2>2. PICK row, cs, ts : Commit(r, [users EXCEPT ![v] = row], cs, ts)
    BY <2>1
  <2>3. Keeps([users EXCEPT ![v] = row])
    BY <1>1, <2>1 DEF Fresh
  <2> HIDE DEF Keeps
  <2> QED
    BY <1>3, <2>2, <2>3
<1>5. CASE DeleteUser(r)
  <2>1. Keeps([users EXCEPT ![Ask(r).on] = None])
    BY <1>1 DEF There, UserRows
  <2> HIDE DEF Keeps
  <2> QED
    BY <1>3, <1>5, <2>1 DEF DeleteUser, Reading, rows
<1>6. CASE DeleteCompany(r)
  <2>1. Keeps([v \in Users |-> IF v \in Seen(r) THEN None ELSE users[v]])
    BY <1>1 DEF There
  <2> HIDE DEF Keeps
  <2> QED
    BY <1>3, <1>6, <2>1 DEF DeleteCompany
<1>7. CASE Login(r) \/ Refresh(r) \/ Logout(r) \/ NewCompany(r) \/ Rename(r)
  BY <1>7, <1>2, <1>3 DEF Login, Refresh, Logout, NewCompany, Rename, Reading, rows
<1>8. CASE Enters(r) \/ FindToken(r) \/ CheckNewUser(r) \/ FindUser(r) \/ CheckUpdate(r)
           \/ CheckName(r) \/ FindPeople(r)
  BY <1>8 DEF Enters, Authenticate, FindToken, CheckNewUser, FindUser, CheckUpdate, CheckName,
              FindPeople, Reading, rows
<1> QED
  BY <1>4, <1>5, <1>6, <1>7, <1>8 DEF AccountStep, Enters

LEMMA AnsweredIsDone ==
  ASSUME IInv, NEW r \in Req, Answered(r)
  PROVE  req'[r].pc = "done"
<1>1. Shaped
  BY DEF IInv, TTypeOK, TypeOK, Shaped
<1> QED
  BY <1>1, GoesOn DEF Answered

\* An edit changes only what it names: the other fields stay as another request has
\* committed them since the row was read; nobody but an administrator changes a role
\* or a company.
THEOREM EditsAreNamed == TSpec => OnlyNamedFields
<1> DEFINE Named(u, f) ==
      users'[u][f] # users[u][f] =>
        \E r \in Req : /\ At(r, "write", {"update", "updateMe"}) /\ req'[r].pc = "done"
                       /\ f \in DOMAIN Set(r)
                       /\ f # "email" => ByAdmin(r)
           NamedAll == \A u \in There(users) \cap There(users') : \A f \in DOMAIN users[u] : Named(u, f)
<1>1. IInv /\ [TNext]_tvars => [NamedAll]_vars
  <2> SUFFICES ASSUME IInv, [TNext]_tvars,
                      NEW u \in There(users) \cap There(users'), NEW f \in DOMAIN users[u],
                      users'[u][f] # users[u][f]
               PROVE  Named(u, f)
    OBVIOUS
  <2>1. PICK r \in Req : AccountStep(r)
    <3>1. ASSUME NEW r \in Req, TenancyStep(r) PROVE UNCHANGED users
      BY <3>1 DEF TenancyStep, Authenticate, MayPatch, Merge, Test, Reread, StoreCredential,
                  Deactivate, NeedCredential, Fetch, ReadCache, CacheSources, MayLink, ReadLink,
                  StoreLink, Looks, Reading, Writes, Unwritten, rows
    <3> QED
      BY <3>1 DEF TNext, Expire, tvars, vars
  <2>2. UpdateUser(r)
    BY <2>1, UsersKept
  <2>3. At(r, "write", Edits) /\ Answered(r)
    BY <2>2 DEF UpdateUser, Commit, Edits
  <2>4. req'[r].pc = "done"
    BY <2>3, AnsweredIsDone
  <2>5. u = Target(r) /\ users'[u] = Edited(r, users[u])
    BY <2>2, ThereIs DEF UpdateUser, Commit, UserRows
  <2>6. users[u] # None
    BY DEF There
  <2>7. f \in DOMAIN Set(r) /\ (f # "email" => ByAdmin(r))
    BY <2>3, <2>5, <2>6, EditedUser
  <2> QED
    BY <2>3, <2>4, <2>7 DEF Edits
<1> QED
  BY <1>1, Invariance, PTL DEF TSpec, OnlyNamedFields

\* A link leads to a code that Moabits gave to the credential of the administrator
\* who links, though the code was validated, or the cache was read, before.
THEOREM LinksWereOffered == TSpec => LinkedWasOffered
<1> DEFINE OfferedAll ==
      \A c \in Companies :
        Linked(c)' /\ (mappings[c] = None \/ mappings'[c].code # mappings[c].code) =>
          \E r \in Req : /\ At(r, "write", {"link"}) /\ req'[r].pc = "done"
                         /\ <<Caller(r).company, mappings'[c].code>> \in offered
<1>1. IInv /\ [TNext]_tvars => [OfferedAll]_tvars
  <2> SUFFICES ASSUME IInv, [TNext]_tvars, NEW c \in Companies,
                      mappings'[c] # None, mappings[c] = None \/ mappings'[c].code # mappings[c].code
               PROVE  \E r \in Req : /\ At(r, "write", {"link"}) /\ req'[r].pc = "done"
                                     /\ <<Caller(r).company, mappings'[c].code>> \in offered
    BY DEF Linked
  <2>1. mappings'[c] # mappings[c]
    OBVIOUS
  <2>2. PICK r \in Req : StoreLink(r)
    <3>1. ~CascadeTenancy
      BY <2>1 DEF CascadeTenancy
    <3>2. ASSUME NEW r \in Req, TenancyStep(r) PROVE StoreLink(r)
      BY <2>1, <3>2 DEF TenancyStep, MayPatch, Merge, Test, Reread, StoreCredential,
                  Deactivate, NeedCredential, Fetch, ReadCache, CacheSources, MayLink, ReadLink,
                  Looks, Writes, Unwritten, tenancy
    <3> QED
      BY <2>1, <3>1, <3>2 DEF TNext, tvars, tenancy
  <2>3. Ask(r).op = "link" /\ mappings'[c].code = Set(r).code
    BY <2>1, <2>2, StoreLinkMoves
  <2>4. At(r, "write", {"link"}) /\ Acting(r)
    BY <2>2, <2>3 DEF StoreLink, At, Ask, Acting
  <2>5. <<Caller(r).company, Set(r).code>> \in offered
    BY <2>4, Actor DEF Knows, KnowsCodes, OfferedTo
  <2>6. req'[r].pc = "done"
    BY <2>2, AnsweredIsDone DEF StoreLink, Writes, Unwritten
  <2> QED
    BY <2>3, <2>4, <2>5, <2>6
<1> QED
  BY <1>1, Invariance, PTL DEF TSpec, LinkedWasOffered

====
