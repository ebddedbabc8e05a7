--------------------------------- MODULE Tenancy ---------------------------------
(***************************************************************************)
(* What a company has at the providers: its credentials                    *)
(* (tenancy/routers/credentials.py), and the Moabits company it is linked  *)
(* to, among those discovered with an administrator's credential           *)
(* (tenancy/routers/companies.py).  Together with Accounts, whose requests *)
(* create, move and delete the users and companies meanwhile.              *)
(*                                                                         *)
(* As in Accounts an action is one SELECT or COMMIT; besides, a provider   *)
(* is asked in between: to test credentials, or for its companies.         *)
(***************************************************************************)
EXTENDS Accounts, Sequences

CONSTANTS
  Providers,
  Moabits,
  Fields,   \* of a credential
  Values,
  Codes,    \* of companies at Moabits
  SeedCreds, SeedMappings, SeedSources

\* A row of company_provider_credentials, named by its place; what it holds has
\* the fields that were ever given.
Credential == UNION {[F -> Values] : F \in SUBSET Fields}
CredRow == [company : Companies, provider : Providers, active : BOOLEAN, value : Credential]
Link == [code : Codes, active : BOOLEAN]

\* What the bodies and paths hold (tenancy/schemas).
TAskable(a) ==
  /\ a.op \in {"patch", "adminPatch"} => a.set \in Credential
  /\ a.op \in {"patch", "adminPatch", "deactivate"} => a.provider \in Providers
  /\ a.op \in {"adminPatch", "deactivate", "link", "unlink"} => a.on \in Companies
  /\ a.op = "link" => a.set.code \in Codes

ASSUME TenancyAssumption ==
  /\ Moabits \in Providers
  /\ SeedCreds \in Seq(CredRow)
  /\ SeedMappings \in [Companies -> Link \cup {None}]
  /\ SeedSources \in [Companies -> [Codes -> BOOLEAN \cup {None}]]
  /\ None \notin Link \cup BOOLEAN \cup CredRow
  /\ \A r \in Req : \A a \in Asks[r] : TAskable(a)

VARIABLES
  creds,    \* company_provider_credentials
  mappings, \* company_provider_mappings: the Moabits company
  sources,  \* moabits_source_companies: whether active, or not there
  passed,   \* history: credentials that passed a live test
  offered   \* history: which code Moabits gave to the credential of which company

tenancy == <<creds, mappings, sources, passed, offered>>
tvars == <<vars, tenancy>>

TTypeOK ==
  /\ TypeOK
  /\ creds \in Seq(CredRow \cup {None})
  /\ mappings \in [Companies -> Link \cup {None}]
  /\ sources \in [Companies -> [Codes -> BOOLEAN \cup {None}]]
  /\ passed \subseteq Credential
  /\ offered \subseteq Companies \X Codes

TInit ==
  /\ Init
  /\ creds = SeedCreds /\ mappings = SeedMappings /\ sources = SeedSources
  /\ passed = {SeedCreds[i].value : i \in DOMAIN SeedCreds}
  /\ offered = {o \in Companies \X Codes : SeedSources[o[1]][o[2]] # None}

TCallers ==
  [patch |-> {"admin", "manager"}, adminPatch |-> {"admin"}, deactivate |-> {"admin"},
   discover |-> {"admin"}, link |-> {"admin"}, unlink |-> {"admin"}]

\* r only reads; or it writes rows of companies that are still there, or nothing.
Looks(r, pc, x) == Reading(r, pc, x) /\ UNCHANGED tenancy
Writes(r) == Answered(r) /\ UNCHANGED rows /\ UNCHANGED <<passed, offered>>
Unwritten(r) == Answered(r) /\ UNCHANGED rows /\ UNCHANGED tenancy
Exists(c) == companies[c] # None

-----------------------------------------------------------------------------
(* Credentials. *)

Provider(r) == Ask(r).provider

\* Whose credential it is about: the caller's company's, or any (admin routes).
Owner(r) == IF Ask(r).op = "adminPatch" THEN Ask(r).on ELSE Caller(r).company

\* _active_credential: its place, or 0.
Active(c, p) ==
  LET rowsOf == {i \in DOMAIN creds : creds[i] # None /\ creds[i].active
                                      /\ creds[i].company = c /\ creds[i].provider = p}
  IN IF rowsOf = {} THEN 0 ELSE CHOOSE i \in rowsOf : TRUE

Linked(c) == mappings[c] # None /\ mappings[c].active

\* A manager gives Moabits a new key and nothing else, for a linked company; the
\* admin routes look whether the company exists.
MayPatch(r) ==
  /\ At(r, "look", {"patch", "adminPatch"})
  /\ LET may == IF Ask(r).op = "adminPatch" THEN Exists(Owner(r))
                ELSE ByAdmin(r) \/ Provider(r) # Moabits
                     \/ (DOMAIN Set(r) = {"x_api_key"} /\ Linked(Owner(r)))
     IN Looks(r, IF may THEN "merge" ELSE "done", None)

\* The fields of patch over those of value.
Merged(value, patch) ==
  [f \in DOMAIN value \cup DOMAIN patch |-> IF f \in DOMAIN patch THEN patch[f] ELSE value[f]]

\* _persist_credential_patch: managers only change what is there.
Merge(r) ==
  /\ At(r, "merge", {"patch", "adminPatch"})
  /\ LET i == Active(Owner(r), Provider(r))
     IN IF i = 0 /\ ~ByAdmin(r) THEN Looks(r, "done", None)
        ELSE Looks(r, "test", Merged(IF i = 0 THEN [f \in {} |-> None] ELSE creds[i].value, Set(r)))

\* _live_test_credentials: the provider takes them, or not.
Test(r) ==
  /\ At(r, "test", {"patch", "adminPatch"})
  /\ \/ /\ passed' = passed \cup {Seen(r)}
        /\ Goes(r, "reread", Seen(r))
     \/ /\ UNCHANGED passed
        /\ Answered(r)
  /\ UNCHANGED rows /\ UNCHANGED <<creds, mappings, sources, offered>>

Reread(r) ==
  /\ At(r, "reread", {"patch", "adminPatch"})
  /\ Looks(r, "write", [value |-> Seen(r), row |-> Active(Owner(r), Provider(r))])

\* Mutant of Stored: the patch is merged once more, into the row as it is now.
StoredMerged(r) ==
  IF Seen(r).row = 0 THEN Seen(r).value ELSE Merged(creds[Seen(r).row].value, Set(r))

\* What is written is what was tested.
Stored(r) == Seen(r).value

\* The row is updated as long as it is there; or one is inserted, unless there is
\* an active one by now, or the company is no longer there.
StoreCredential(r) ==
  /\ At(r, "write", {"patch", "adminPatch"})
  /\ LET i == Seen(r).row
         c == Owner(r)
     IN IF i # 0
        THEN IF creds[i] = None THEN Unwritten(r)
             ELSE /\ creds' = [creds EXCEPT ![i].value = Stored(r)]
                  /\ Writes(r) /\ UNCHANGED <<mappings, sources>>
        ELSE IF ~Exists(c) \/ Active(c, Provider(r)) # 0 THEN Unwritten(r)
             ELSE /\ creds' = Append(creds, [company |-> c, provider |-> Provider(r),
                                             active |-> TRUE, value |-> Stored(r)])
                  /\ Writes(r) /\ UNCHANGED <<mappings, sources>>

\* deactivate_credential, of the caller's company or, by the admin route, of any.
Deactivate(r) ==
  \/ /\ At(r, "look", {"deactivate"})
     /\ LET i == IF Exists(Ask(r).on) THEN Active(Ask(r).on, Provider(r)) ELSE 0
        IN Looks(r, IF i = 0 THEN "done" ELSE "write", i)
  \/ /\ At(r, "write", {"deactivate"})
     /\ IF creds[Seen(r)] = None THEN Unwritten(r)
        ELSE /\ creds' = [creds EXCEPT ![Seen(r)].active = FALSE]
             /\ Writes(r) /\ UNCHANGED <<mappings, sources>>

-----------------------------------------------------------------------------
(* Companies at Moabits. *)

\* discover_moabits_provider_mappings, and _validate_moabits_mapping_code where the
\* cache does not know the code, need a credential of the administrator's company.
NeedCredential(r) ==
  /\ \/ At(r, "look", {"discover"}) \/ At(r, "validate", {"link"})
  /\ Looks(r, IF Active(Caller(r).company, Moabits) = 0 THEN "done" ELSE "fetch", None)

\* fetch_child_companies; a link needs its code among them.
Fetch(r) ==
  /\ At(r, "fetch", {"discover", "link"})
  /\ \/ \E found \in SUBSET Codes :
          /\ offered' = offered \cup {<<Caller(r).company, x>> : x \in found}
          /\ Goes(r, IF Ask(r).op = "discover" \/ Set(r).code \in found THEN "cached" ELSE "done", found)
     \/ Answered(r) /\ UNCHANGED offered
  /\ UNCHANGED rows /\ UNCHANGED <<creds, mappings, sources, passed>>

ReadCache(r) ==
  /\ At(r, "cached", {"discover"})
  /\ Looks(r, "write", [found |-> Seen(r), cached |-> sources[Caller(r).company]])

\* A code's row: inserted if it was not there, else activated or deactivated if
\* that is not what was read.
Recorded(l, x, now) ==
  IF l.cached[x] = None THEN (IF x \in l.found THEN TRUE ELSE now)
  ELSE IF l.cached[x] = (x \in l.found) THEN now ELSE x \in l.found

\* _cache_moabits_source_companies: an insert of what is there by now, or an update
\* of what is gone, undoes it all.
CacheSources(r) ==
  /\ At(r, "write", {"discover"})
  /\ LET c == Caller(r).company
         l == Seen(r)
         writes == {x \in Codes : x \in l.found \/ l.cached[x] = TRUE}
     IN IF ~Exists(c) \/ \E x \in writes : (l.cached[x] = None) # (sources[c][x] = None)
        THEN Unwritten(r)
        ELSE /\ sources' = [sources EXCEPT ![c] = [x \in Codes |-> Recorded(l, x, @[x])]]
             /\ Writes(r) /\ UNCHANGED <<creds, mappings>>

\* Mutant of Known: found by whoever's credential.
KnownToAny(r) == \E c \in Companies : sources[c][Set(r).code] = TRUE

\* _cached_moabits_source_company: found by the administrator's credential, and still
\* there when last looked for.
Known(r) == sources[Caller(r).company][Set(r).code] = TRUE

\* The company to link must exist.
MayLink(r) ==
  \/ /\ At(r, "look", {"link"})
     /\ Looks(r, IF Exists(Ask(r).on) THEN "known" ELSE "done", None)
  \/ /\ At(r, "known", {"link"})
     /\ Looks(r, IF Known(r) THEN "cached" ELSE "validate", None)

ReadLink(r) ==
  \/ /\ At(r, "cached", {"link"})
     /\ Looks(r, "write", mappings[Ask(r).on])
  \/ /\ At(r, "look", {"unlink"})
     /\ Looks(r, IF Exists(Ask(r).on) THEN "read" ELSE "done", None)
  \/ /\ At(r, "read", {"unlink"})
     /\ Looks(r, IF Linked(Ask(r).on) THEN "write" ELSE "done", mappings[Ask(r).on])

\* upsert_company_provider_mapping, or its deletion, of the row as it was read.
Want(r) ==
  IF Ask(r).op = "link" THEN [code |-> Set(r).code, active |-> TRUE]
  ELSE [code |-> Seen(r).code, active |-> FALSE]

StoreLink(r) ==
  /\ At(r, "write", {"link", "unlink"})
  /\ LET c == Ask(r).on
         now == mappings[c]
         old == Seen(r)
     IN IF ~Exists(c) \/ (old = None) # (now = None) THEN Unwritten(r)
        ELSE /\ mappings' = [mappings EXCEPT ![c] =
                  IF old = None THEN Want(r)
                  ELSE [f \in DOMAIN now |-> IF Want(r)[f] # old[f] THEN Want(r)[f] ELSE now[f]]]
             /\ Writes(r) /\ UNCHANGED <<creds, sources>>

-----------------------------------------------------------------------------
(* Composition. *)

TenancyStep(r) ==
  \/ \E a \in Asks[r] : a.op \in DOMAIN TCallers /\ Authenticate(r, a, TCallers[a.op]) /\ UNCHANGED tenancy
  \/ MayPatch(r) \/ Merge(r) \/ Test(r) \/ Reread(r) \/ StoreCredential(r) \/ Deactivate(r)
  \/ NeedCredential(r) \/ Fetch(r) \/ ReadCache(r) \/ CacheSources(r)
  \/ MayLink(r) \/ ReadLink(r) \/ StoreLink(r)

\* What a company had goes with it (ON DELETE CASCADE).
CascadeTenancy ==
  /\ creds' = [i \in DOMAIN creds |-> IF creds[i] # None /\ companies'[creds[i].company] = None
                                      THEN None ELSE creds[i]]
  /\ mappings' = [c \in Companies |-> IF companies'[c] = None THEN None ELSE mappings[c]]
  /\ sources' = [c \in Companies |-> IF companies'[c] = None THEN [x \in Codes |-> None] ELSE sources[c]]
  /\ UNCHANGED <<passed, offered>>

TNext ==
  \/ \E r \in Req : TenancyStep(r) \/ (AccountStep(r) /\ CascadeTenancy)
  \/ \E t \in Tokens : Expire(t) /\ UNCHANGED tenancy

TSpec == TInit /\ [][TNext]_tvars

-----------------------------------------------------------------------------
(* Properties. *)

\* The credentials a company uses passed a live test as they are, whatever was
\* changed between the reading, the merge, the test and the write.
StoredWasTested == \A i \in DOMAIN creds : creds[i] # None => creds[i].value \in passed

\* A company is linked to codes that Moabits gave to the credential of the
\* administrator who links it, whether just now or for the cache.
LinkedWasOffered ==
  [][\A c \in Companies :
       Linked(c)' /\ (mappings[c] = None \/ mappings'[c].code # mappings[c].code) =>
         \E r \in Req : /\ At(r, "write", {"link"}) /\ req'[r].pc = "done"
                        /\ <<Caller(r).company, mappings'[c].code>> \in offered]_tvars

=============================================================================
