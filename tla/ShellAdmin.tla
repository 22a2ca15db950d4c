----------------------------- MODULE ShellAdmin -----------------------------
(* The web shell's admin plane: accounts, roles, the menu matrix, the adapter *)
(* vault, connectors, config overrides and the audit chain (internal/shell),  *)
(* and the handlers that change them (server/shell_users.go, shell_admin.go). *)
(* Every store is a map in memory that is written whole to a file of its own: *)
(* snapshot, temporary file, rename.                                          *)
EXTENDS Integers, Sequences, FiniteSets

CONSTANTS
  ShUsers,          \* account names
  ShRoles,          \* custom role names
  ShCalls,          \* requests in progress
  Seed,             \* [ShUsers -> account or NoAccount]: the accounts in the config
  NoAccount,
  ShNoFile,
  Cleared,          \* a file opened for writing and not yet written
  Torn,             \* two writers' bytes in one file
  AuditCap,         \* maxAuditEntries
  MaxShOps,         \* requests in a behaviour
  MaxShCrashes      \* crashes, each followed by a restart

VARIABLES
  mem, disk, tmp,   \* each store in memory, its file, its temporary file
  sh,               \* [ShCalls -> request]
  shOps, shCrashes,
  raced,            \* an admin check was overtaken by another request
  overlaps          \* stores whose saves have overlapped

storeFileVars == <<mem, disk, tmp, sh, shOps, shCrashes, raced, overlaps>>

Builtins == {"admin", "user", "auditor"}
Account == [roles : SUBSET (Builtins \cup ShRoles), disabled : BOOLEAN, must : BOOLEAN]
NewAccount == [roles |-> {"user"}, disabled |-> FALSE, must |-> FALSE]
StoreNames == {"users", "roles", "menus", "vault", "connectors", "overrides", "audit"}

\* What the stores hold: accounts, names of roles and of what the other
\* surfaces keep, rows of the audit chain.
Accounts == [ShUsers -> Account \cup {NoAccount}]
Names == Builtins \cup ShRoles \cup {"secret", "doc"}
AuditRows == Seq([seq : Int, prev : Int])

\* The config names an enabled administrator.
ASSUME ShellAssumption ==
  /\ IsFiniteSet(ShUsers) /\ NoAccount \notin ShUsers /\ NoAccount \notin Account /\ AuditCap \in Nat \ {0}
  /\ Seed \in Accounts /\ \E u \in ShUsers : Seed[u] # NoAccount /\ ~Seed[u].disabled /\ "admin" \in Seed[u].roles
  /\ \A x \in {ShNoFile, Cleared, Torn} : x \notin Accounts /\ x \notin AuditRows /\ \A n \in SUBSET Names : x # n

\* What a store holds when there is no file, or none that parses.
Blank(s) ==
  CASE s = "users" -> Seed
    [] s = "audit" -> <<>>
    [] OTHER -> {}

NoReq == [at |-> "idle", op |-> "none", u |-> NoAccount, arg |-> {}, seen |-> {}, store |-> "none", snap |-> ShNoFile, fd |-> "none"]

-----------------------------------------------------------------------------
(* The stores' operations, each under its own lock.                         *)

EnabledAdmins == {u \in ShUsers : mem["users"][u] # NoAccount /\ ~mem["users"][u].disabled /\ "admin" \in mem["users"][u].roles}

\* The role store resolves a name, built in or custom.
RoleExists(r) == r \in Builtins \cup mem["roles"]

\* Enabled accounts that hold a role.
shellRoleUserCount(r) ==
  Cardinality({u \in ShUsers : mem["users"][u] # NoAccount /\ ~mem["users"][u].disabled /\ r \in mem["users"][u].roles})

AuditRecord(rows) ==
  LET n == Len(rows)
      row == IF n = 0 THEN [seq |-> 0, prev |-> -1] ELSE [seq |-> rows[n].seq + 1, prev |-> rows[n].seq]
      next == Append(rows, row)
  IN  IF Len(next) > AuditCap THEN SubSeq(next, Len(next) - AuditCap + 1, Len(next)) ELSE next

\* The rows that the audit page shows as intact: each follows the one before
\* it, from the first row of an empty chain on.
IntegrityOK(rows, i) ==
  \A j \in 1 .. i : /\ rows[j].prev = (IF j = 1 THEN -1 ELSE rows[j - 1].seq)
                    /\ rows[j].seq = (IF j = 1 THEN 0 ELSE rows[j - 1].seq + 1)

\* An empty credentials map keeps the stored credential.
VaultPut(credential) == IF credential = {} THEN mem["vault"] ELSE credential

\* A name that exists is refused; a name that is gone is deleted once more.
CreateRole(r) == IF r \in mem["roles"] THEN {} ELSE {mem["roles"] \cup {r}}
DeleteRole(r) == {mem["roles"] \ {r}}

\* The menu matrix, a connector and a config section are replaced whole; what
\* they name is checked against the roles, and the connector's findings are
\* only reported.
PutMenus(items) == items
PutConnector(doc) == mem["connectors"] \cup doc
PutOverride(doc) == mem["overrides"] \cup doc

-----------------------------------------------------------------------------
(* The handlers: what they check before they call the store.                *)

ShBegin(c, op, u, arg) ==
  /\ sh[c] = NoReq
  /\ shOps < MaxShOps
  /\ shOps' = shOps + 1
  /\ sh' = [sh EXCEPT ![c] = [NoReq EXCEPT !.at = "apply", !.op = op, !.u = u, !.arg = arg, !.seen = EnabledAdmins]]
  /\ UNCHANGED <<mem, disk, tmp, shCrashes, raced, overlaps>>

\* u is the only account that could still administer the shell.
LastAdmin(u) == u \in EnabledAdmins /\ Cardinality(EnabledAdmins) <= 1

handleShellUserCreate(c, u) == mem["users"][u] = NoAccount /\ ShBegin(c, "create", u, {})

\* PATCH: a body that disables, or one that sets the roles.
handleShellUserDisable(c, u, off) ==
  /\ mem["users"][u] # NoAccount
  /\ ~(off /\ LastAdmin(u))
  /\ ShBegin(c, IF off THEN "disable" ELSE "enable", u, {})

handleShellUserRoles(c, u, roles) ==
  /\ mem["users"][u] # NoAccount
  /\ \A r \in roles : RoleExists(r)
  /\ ~("admin" \notin roles /\ LastAdmin(u))
  /\ ShBegin(c, "roles", u, roles)

handleShellUserDelete(c, u) ==
  /\ mem["users"][u] # NoAccount
  /\ ~LastAdmin(u)
  /\ ShBegin(c, "delete", u, {})

\* A temporary password must be changed; a changed one need not.
handleShellUserPasswordReset(c, u) == mem["users"][u] # NoAccount /\ ShBegin(c, "reset", u, {})
handleShellPasswordChange(c, u) == mem["users"][u] # NoAccount /\ ShBegin(c, "password", u, {})

handleShellRoleCreate(c, r) == r \notin mem["roles"] /\ ShBegin(c, "roleCreate", NoAccount, {r})

\* The role is looked up and its holders counted before it is deleted.
handleShellRoleDelete(c, r) ==
  /\ r \in mem["roles"]
  /\ shellRoleUserCount(r) = 0
  /\ ShBegin(c, "roleDelete", NoAccount, {r})

handleShellMenuPermissionsPut(c, roles) ==
  /\ roles # {} /\ \A r \in roles : RoleExists(r)
  /\ ShBegin(c, "menus", NoAccount, roles)

handleShellAdapterPut(c, credential) == ShBegin(c, "vault", NoAccount, credential)
handleShellConnectorPut(c, doc) == ShBegin(c, "connectors", NoAccount, doc)
handleShellConfigPut(c, doc) == ShBegin(c, "overrides", NoAccount, doc)

\* A login, allowed or denied, only leaves a row in the audit chain.
handleShellSessionIssue(c) == ShBegin(c, "audit", NoAccount, {})

\* Accounts under the store's lock: Create refuses a name that has appeared,
\* Update and Delete one that has gone.
UpdateAccounts(op, u, arg) ==
  LET a == mem["users"][u]
  IN  CASE op = "create" -> IF a = NoAccount THEN NewAccount ELSE a
        [] op # "create" /\ a = NoAccount -> a
        [] op = "delete" -> NoAccount
        [] op = "disable" -> [a EXCEPT !.disabled = TRUE]
        [] op = "enable" -> [a EXCEPT !.disabled = FALSE]
        [] op = "roles" -> [a EXCEPT !.roles = arg]
        [] op = "reset" -> [a EXCEPT !.must = TRUE]
        [] op = "password" -> [a EXCEPT !.must = FALSE]

Conflict(op, u) == (mem["users"][u] = NoAccount) # (op = "create")

SaveNext(c, s, value) ==
  /\ mem' = [mem EXCEPT ![s] = value]
  /\ sh' = [sh EXCEPT ![c].at = "snapshot", ![c].store = s]

\* A store that refuses the change answers an error and saves nothing.
SaveNew(c, s, values) ==
  IF values = {} THEN sh' = [sh EXCEPT ![c] = NoReq] /\ UNCHANGED mem
  ELSE \E v \in values : SaveNext(c, s, v)

\* The store's own operation.
Apply(c) ==
  LET q == sh[c]
  IN  /\ q.at = "apply"
      /\ IF q.u # NoAccount
         THEN /\ raced' = (raced \/ q.seen # EnabledAdmins)
              /\ IF Conflict(q.op, q.u) THEN sh' = [sh EXCEPT ![c] = NoReq] /\ UNCHANGED mem
                 ELSE SaveNext(c, "users", [mem["users"] EXCEPT ![q.u] = UpdateAccounts(q.op, q.u, q.arg)])
         ELSE /\ UNCHANGED raced
              /\ CASE q.op = "roleCreate" -> \E r \in q.arg : SaveNew(c, "roles", CreateRole(r))
                   [] q.op = "roleDelete" -> \E r \in q.arg : SaveNew(c, "roles", DeleteRole(r))
                   [] q.op = "menus" -> SaveNext(c, "menus", PutMenus(q.arg))
                   [] q.op = "vault" -> SaveNext(c, "vault", VaultPut(q.arg))
                   [] q.op = "connectors" -> SaveNext(c, "connectors", PutConnector(q.arg))
                   [] q.op = "overrides" -> SaveNext(c, "overrides", PutOverride(q.arg))
                   [] q.op = "audit" -> SaveNext(c, "audit", AuditRecord(mem["audit"]))
      /\ UNCHANGED <<disk, tmp, shOps, shCrashes, overlaps>>

-----------------------------------------------------------------------------
(* Save of every store: nothing orders two saves of one store, and they use *)
(* the same temporary path.                                                 *)

Saving(c, s) == sh[c].store = s /\ sh[c].at \in {"snapshot", "open", "fill", "rename"}

Snap(c) ==
  LET s == sh[c].store
  IN  /\ sh[c].at = "snapshot"
      /\ sh' = [sh EXCEPT ![c].at = "open", ![c].snap = mem[s]]
      /\ overlaps' = IF \E d \in ShCalls \ {c} : Saving(d, s) THEN overlaps \cup {s} ELSE overlaps
      /\ UNCHANGED <<mem, disk, tmp, shOps, shCrashes, raced>>

OpenTemp(c) ==
  /\ sh[c].at = "open"
  /\ tmp' = [tmp EXCEPT ![sh[c].store] = Cleared]
  /\ sh' = [sh EXCEPT ![c].at = "fill", ![c].fd = "tmp"]
  /\ UNCHANGED <<mem, disk, shOps, shCrashes, raced, overlaps>>

\* Bytes written over another writer's may leave a mixture.
Filled(old, snap) == IF old = Cleared THEN {snap} ELSE {snap, Torn}

FillTemp(c) ==
  LET q == sh[c]
  IN  /\ q.at = "fill"
      /\ \/ q.fd = "tmp" /\ UNCHANGED disk
            /\ \E v \in Filled(tmp[q.store], q.snap) : tmp' = [tmp EXCEPT ![q.store] = v]
         \/ q.fd = "disk" /\ UNCHANGED tmp
            /\ \E v \in Filled(disk[q.store], q.snap) : disk' = [disk EXCEPT ![q.store] = v]
         \/ q.fd = "gone" /\ UNCHANGED <<tmp, disk>>
      /\ sh' = [sh EXCEPT ![c].at = "rename", ![c].fd = "none"]
      /\ UNCHANGED <<mem, shOps, shCrashes, raced, overlaps>>

\* A descriptor follows its file through the rename.
Follow(fd) == CASE fd = "tmp" -> "disk" [] fd = "disk" -> "gone" [] OTHER -> fd

\* After the save: the admin surfaces record the change, the others answer.
\* A rename that finds no file fails, and the request with it.
Audited == {"roles", "menus", "vault", "connectors", "overrides"}
Answered(c) ==
  IF sh[c].store \in Audited /\ tmp[sh[c].store] # ShNoFile
  THEN [NoReq EXCEPT !.at = "apply", !.op = "audit"] ELSE NoReq

Rename(c) ==
  LET s == sh[c].store
  IN  /\ sh[c].at = "rename"
      /\ disk' = IF tmp[s] = ShNoFile THEN disk ELSE [disk EXCEPT ![s] = tmp[s]]
      /\ tmp' = [tmp EXCEPT ![s] = ShNoFile]
      /\ sh' = [d \in ShCalls |->
                  IF d = c THEN Answered(c)
                  ELSE IF sh[d].store = s /\ tmp[s] # ShNoFile THEN [sh[d] EXCEPT !.fd = Follow(sh[d].fd)] ELSE sh[d]]
      /\ UNCHANGED <<mem, shOps, shCrashes, raced, overlaps>>

\* A crash and a restart: a file that does not parse is as good as none, and
\* an empty account store is seeded from the config and saved.
Parses(s) == disk[s] \notin {ShNoFile, Cleared, Torn}
SeedFromConfig(accounts) == IF \A u \in ShUsers : accounts[u] = NoAccount THEN Seed ELSE accounts
LoadStores ==
  /\ shCrashes < MaxShCrashes
  /\ shCrashes' = shCrashes + 1
  /\ mem' = [s \in StoreNames |-> IF ~Parses(s) THEN Blank(s)
                                  ELSE IF s = "users" THEN SeedFromConfig(disk[s]) ELSE disk[s]]
  /\ sh' = [c \in ShCalls |-> NoReq]
  /\ disk' = [disk EXCEPT !["users"] = mem'["users"]]
  /\ UNCHANGED <<tmp, shOps, raced, overlaps>>

\* The first start, or one with a full audit file.
FullChain == [n \in 1 .. AuditCap |-> [seq |-> n - 1, prev |-> n - 2]]
StoreFileInit ==
  /\ \E rows \in {<<>>, FullChain} : mem = [s \in StoreNames |-> IF s = "audit" THEN rows ELSE Blank(s)]
  /\ disk = mem
  /\ tmp = [s \in StoreNames |-> ShNoFile]
  /\ sh = [c \in ShCalls |-> NoReq]
  /\ shOps \in 0 .. MaxShOps /\ shCrashes = 0
  /\ raced = FALSE /\ overlaps = {}

SaveStep == (\E c \in ShCalls : Apply(c) \/ Snap(c) \/ OpenTemp(c) \/ FillTemp(c) \/ Rename(c)) \/ LoadStores

AccountsNext ==
  \/ \E c \in ShCalls, u \in ShUsers :
       \/ handleShellUserCreate(c, u)
       \/ \E off \in BOOLEAN : handleShellUserDisable(c, u, off)
       \/ \E r \in {{"admin"}, {"user"}} : handleShellUserRoles(c, u, r)
       \/ handleShellUserDelete(c, u)
       \/ handleShellUserPasswordReset(c, u)
       \/ handleShellPasswordChange(c, u)
  \/ SaveStep

SurfacesNext ==
  \/ \E c \in ShCalls :
       \/ \E r \in ShRoles : handleShellRoleCreate(c, r) \/ handleShellRoleDelete(c, r)
       \/ \E r \in ShRoles : handleShellMenuPermissionsPut(c, {r})
       \/ \E v \in {{}, {"secret"}} : handleShellAdapterPut(c, v)
       \/ handleShellConnectorPut(c, {"doc"})
       \/ handleShellConfigPut(c, {"doc"})
       \/ handleShellSessionIssue(c)
  \/ SaveStep

-----------------------------------------------------------------------------
ShTypeOK ==
  /\ mem["users"] \in Accounts
  /\ mem["roles"] \subseteq ShRoles
  /\ overlaps \subseteq StoreNames

\* A store whose saves never overlapped has at every moment a file that
\* parses, and between saves the file that a restart reads is what memory
\* holds (users.go:95 "Save persists the store atomically").
SavesAtomic ==
  \A s \in StoreNames \ overlaps :
    Parses(s) /\ ((\A c \in ShCalls : ~Saving(c, s)) => disk[s] = mem[s])

\* Somebody can still administer the shell, after any number of disablings,
\* demotions, deletions and restarts, unless two of them ran at once: the
\* check and the change are separate steps (shell_users.go:180, :192, :230).
AnAdminRemains == ~raced => EnabledAdmins # {}

\* Each row follows the one before it, also after a restart from an older file,
\* and as long as none was trimmed the audit page shows all of them as intact.
ChainIntact ==
  LET rows == mem["audit"]
  IN  /\ \A i \in 2 .. Len(rows) : rows[i].prev = rows[i - 1].seq /\ rows[i].seq = rows[i - 1].seq + 1
      /\ rows # <<>> /\ Head(rows).seq = 0 => \A i \in 1 .. Len(rows) : IntegrityOK(rows, i)

\* Refuted: once a row is trimmed the chain no longer starts at row 0 with an
\* empty hash, and every row is shown as tampered (audit.go:158, :182-187).
AuditVerified == \A i \in 1 .. Len(mem["audit"]) : IntegrityOK(mem["audit"], i)
=============================================================================
