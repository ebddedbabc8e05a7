-------------------------------- MODULE MCTenancy --------------------------------
(* Two companies; an administrator in each, a manager and a member in c2. *)
EXTENDS Tenancy

U(e, c, role) == [email |-> e, company |-> c, role |-> role]
A(op, by, on, set) == [op |-> op, by |-> by, on |-> on, set |-> set, provider |-> None]
P(op, by, on, p, set) == [op |-> op, by |-> by, on |-> on, set |-> set, provider |-> p]
Nothing == [f \in {} |-> None]

MCNormal == [e \in Emails |-> IF e = "NEW@x" THEN "new@x" ELSE e]
MCFolded == [n \in Names |-> IF n = "NOVA" THEN "nova" ELSE IF n = "Nova" THEN "nova" ELSE n]
MCSeed ==
  [users |-> [adm |-> U("adm@x", "c1", "admin"), adm2 |-> U("adm2@x", "c2", "admin"),
              boss |-> U("boss@x", "c2", "manager"), mem |-> U("mem@x", "c2", "member"),
              u |-> None],
   companies |-> [c1 |-> "acme", c2 |-> "zeta", c3 |-> None],
   tokens |-> [t \in Tokens |-> IF t = "t" THEN [user |-> "mem", session |-> "t", live |-> TRUE]
                                ELSE None]]

MCSeedCreds ==
  << [company |-> "c1", provider |-> "MOABITS", active |-> TRUE, value |-> [x_api_key |-> 1]],
     [company |-> "c2", provider |-> "KITE", active |-> TRUE, value |-> [x_api_key |-> 1, base_url |-> 1]] >>
MCSeedMappings == [c \in Companies |-> IF c = "c2" THEN [code |-> "x", active |-> TRUE] ELSE None]
MCSeedSources == [c \in Companies |-> [x \in Codes |-> IF c = "c1" /\ x = "x" THEN TRUE ELSE None]]

Accounting ==
  { A("login", None, None, [email |-> "mem@x"]), A("refresh", None, "t", Nothing), A("logout", None, "t", Nothing),
    A("signup", None, None, [email |-> "NEW@x", name |-> "Nova"]),
    A("invite", "boss", None, [email |-> "new@x", role |-> "public"]),
    A("create", "adm", None, [email |-> "new@x", role |-> "member", company |-> "c2"]),
    A("update", "boss", "mem", [email |-> "NEW@x", role |-> "member"]),
    A("update", "adm", "mem", [role |-> "manager", company |-> "c1"]),
    A("updateMe", "mem", "mem", [email |-> "new@x"]),
    A("deleteUser", "adm", "mem", Nothing),
    A("newCompany", "adm", None, [name |-> "NOVA"]), A("rename", "adm", "c2", [name |-> "Nova"]),
    A("deleteCompany", "adm", "c2", Nothing) }

Providing ==
  { P("patch", "boss", "c2", "KITE", [base_url |-> 2]), P("adminPatch", "adm", "c2", "KITE", [x_api_key |-> 2]),
    P("patch", "boss", "c2", "MOABITS", [x_api_key |-> 2]), P("adminPatch", "adm", "c2", "MOABITS", [x_api_key |-> 2]),
    P("deactivate", "adm", "c2", "KITE", Nothing), A("discover", "adm", "c1", Nothing),
    A("discover", "adm2", "c2", Nothing),
    A("link", "adm2", "c2", [code |-> "y"]), A("link", "adm2", "c1", [code |-> "x"]),
    A("link", "adm", "c1", [code |-> "x"]), A("unlink", "adm", "c2", Nothing) }

\* The third request makes what the other two may find changed.
Third ==
  { A("refresh", None, "n", Nothing), A("deleteCompany", "adm", "c2", Nothing),
    P("adminPatch", "adm", "c2", "KITE", [x_api_key |-> 2]) }

MCAsks == [r \in Req |-> IF r = 3 THEN Third ELSE Accounting \cup Providing]
=============================================================================
