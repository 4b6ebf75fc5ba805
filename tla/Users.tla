------------------------------- MODULE Users -------------------------------
(***************************************************************************)
(* The user accounts of PD-OS: the table in memory (kernel/core/users.c),  *)
(* its credential files /usr/<uid>.pduc, the login loop (core/login.c) and *)
(* the shell commands that change accounts (core/shell.c), in the text     *)
(* build.                                                                  *)
(*                                                                         *)
(* The table is a sequence: the code keeps its entries packed from slot 0  *)
(* and a zeroed entry behind the last one.  A session is a pointer into    *)
(* it.  Passwords are named by their hash, the only thing the code ever    *)
(* compares or stores.                                                     *)
(*                                                                         *)
(* One thread runs the shell, so a command is interrupted only by the loss *)
(* of power; `adduser' and the password commands are cut into the disk     *)
(* operations between which that leaves different files behind.            *)
(***************************************************************************)
EXTENDS Integers, Sequences, FiniteSets, SequencesExt, FiniteSetsExt

CONSTANTS
  MAX_USERS,   \* slots of user_table, the last of which stays empty
  UIDS,        \* number of uids (they are stored in eight bits)
  Names,       \* names accounts are given
  Hashes,      \* password hashes
  RootHash, PdHash,   \* those of the built-in accounts
  MAX_ATTEMPTS,       \* logins before the system halts
  MaxCalls, MaxFaults, MaxBoots   \* bounds of a behaviour

ASSUME UsersAssumption ==
  /\ MAX_USERS \in Nat /\ MAX_USERS > 2
  /\ UIDS \in Nat /\ UIDS > 2
  /\ {"root", "pd"} \subseteq Names /\ "" \notin Names
  /\ {RootHash, PdHash} \subseteq Hashes
  /\ MAX_ATTEMPTS \in Nat \ {0}

Account(name, hash, uid, root) == [name |-> name, hash |-> hash, uid |-> uid, root |-> root]
Accounts == [name : Names, hash : Hashes, uid : 0..(UIDS - 1), root : BOOLEAN]

\* The zeroed entry behind the last account.
Blank == [name |-> "", hash |-> "", uid |-> 0, root |-> FALSE]

\* A credential file that was created and not yet written.
Empty   == [name |-> "", hash |-> "", uid |-> 0, root |-> FALSE]
NoOwner == -1

VARIABLES
  user_table,       \* the accounts, in slot order
  g_session_user,   \* the slot the session points at (0: NULL)
  pc,               \* login, shell, halted; home, create, write: a command at its
                    \* first mkdir, at the creation and at the writing of a file
  op, saving,       \* that command, and the name it was given
  attempt,          \* failed logins in a row
  usr,              \* the files of /usr, in directory order: [uid, rec]
  home,             \* owner of /home/<name>
  who, opened,      \* history: the account that logged in, its password then
  removed,          \* history: names that were ever removed
  left,             \* history: names that lost their account, by removal or because
                    \* a boot found no file for it
  unsaved,          \* history: names whose last save failed
  calls, faults, boots   \* counters for the bounds

files   == <<usr, home>>
command == <<op, saving>>
session == <<g_session_user, who, opened>>
counts  == <<calls, faults, boots>>
vars    == <<user_table, session, pc, command, attempt, files, removed, left, unsaved, counts>>

-----------------------------------------------------------------------------
(* The table *)

\* users_get: the slot of a name, 0 if there is none.
users_get(t, name) == SelectInSeq(t, LAMBDA u : u.name = name)

\* What a pointer to slot i reads.
Entry(i) == IF i \in DOMAIN user_table THEN user_table[i] ELSE Blank

users_verify(name, hash) ==
  LET i == users_get(user_table, name) IN i # 0 /\ user_table[i].hash = hash

HasRoom(t) == Len(t) < MAX_USERS - 1

\* Mutant: the next uid is the number of accounts.
Mutant_NextUid(t) == Len(t) % UIDS

NextUid(t) == (Max({0} \cup { t[i].uid : i \in DOMAIN t }) + 1) % UIDS

users_remove(t, name) == RemoveAt(t, users_get(t, name))

users_change_password(t, name, hash) == [t EXCEPT ![users_get(t, name)].hash = hash]

\* The two accounts users_init hashes into the table.
BuiltIn == << Account("root", RootHash, 0, TRUE), Account("pd", PdHash, 1, FALSE) >>

\* Mutant: a loaded account gets a new uid.
Mutant_add_raw(t, u) ==
  IF HasRoom(t) /\ \A i \in DOMAIN t : t[i].name # u.name /\ t[i].uid # u.uid
  THEN Append(t, [u EXCEPT !.uid = NextUid(t)]) ELSE t

add_raw(t, u) ==
  IF HasRoom(t) /\ \A i \in DOMAIN t : t[i].name # u.name /\ t[i].uid # u.uid
  THEN Append(t, u) ELSE t

update_hash_by_name(t, name, hash) ==
  IF users_get(t, name) # 0 THEN users_change_password(t, name, hash) ELSE t

\* One file of /usr: a short one is skipped, uids 0 and 1 only set a password.
LoadFile(t, f) ==
  CASE f.rec = Empty   -> t
    [] f.rec # Empty /\ f.rec.uid = 0 -> update_hash_by_name(t, "root", f.rec.hash)
    [] f.rec # Empty /\ f.rec.uid = 1 -> update_hash_by_name(t, "pd", f.rec.hash)
    [] OTHER           -> add_raw(t, f.rec)

\* users_init and users_load_from_disk: the table a boot builds from /usr.
Booted(u) ==
  LET loaded[k \in 0..Len(u)] == IF k = 0 THEN BuiltIn ELSE LoadFile(loaded[k - 1], u[k])
  IN  loaded[Len(u)]

-----------------------------------------------------------------------------
Init ==
  /\ user_table = BuiltIn
  /\ g_session_user = 0 /\ who = "" /\ opened = ""
  /\ pc = "login" /\ op = "none" /\ saving = ""
  /\ attempt = 0
  /\ usr = <<>>
  /\ home = [n \in Names |-> IF n = "pd" THEN 1 ELSE NoOwner]
  /\ removed = {} /\ left = {} /\ unsaved = {}
  /\ calls = 0 /\ faults = 0 /\ boots = 0

-----------------------------------------------------------------------------
(* Login *)

LoginOk(name, hash) ==
  /\ pc = "login" /\ users_verify(name, hash)
  /\ g_session_user' = users_get(user_table, name)
  /\ who' = name /\ opened' = hash
  /\ pc' = "shell" /\ attempt' = 0
  /\ UNCHANGED <<user_table, command, files, removed, left, unsaved, counts>>

LoginFails ==
  /\ pc = "login"
  /\ attempt' = attempt + 1
  /\ pc' = IF attempt' = MAX_ATTEMPTS THEN "halted" ELSE "login"
  /\ UNCHANGED <<user_table, session, command, files, removed, left, unsaved, counts>>

\* shell_run returns.  The pointer is dead until the next login sets it: the
\* model forgets it here.
EndSession == pc' = "login" /\ g_session_user' = 0 /\ who' = "" /\ opened' = ""

Logout ==
  /\ pc = "shell"
  /\ EndSession
  /\ UNCHANGED <<user_table, command, attempt, files, removed, left, unsaved, counts>>

-----------------------------------------------------------------------------
(* Commands.  `e' says whether it runs under `admin', which sets g_elevated
   after root's password was given or for a session with USER_FLAG_ROOT. *)

Command == pc = "shell" /\ calls < MaxCalls /\ calls' = calls + 1

Privileged(e) == e \/ Entry(g_session_user).root

\* A command that saves an account goes on with its first disk operation.
Start(o, name, first) == op' = o /\ saving' = name /\ pc' = first

adduser(e, name, admin, hash) ==
  /\ Command
  /\ admin => Privileged(e)
  /\ users_get(user_table, name) = 0 /\ HasRoom(user_table)
  /\ user_table' = Append(user_table, Account(name, hash, NextUid(user_table), admin))
  /\ Start("adduser", name, "home")
  /\ UNCHANGED <<session, attempt, files, removed, left, unsaved, faults, boots>>

deluser(e, name) ==
  /\ Command
  /\ Privileged(e)
  /\ name # "root" /\ name # Entry(g_session_user).name
  /\ LET i == users_get(user_table, name) IN i # 0 /\ user_table[i].uid # 0
  /\ user_table' = users_remove(user_table, name)
  /\ removed' = removed \cup {name} /\ left' = left \cup {name}
  /\ UNCHANGED <<session, pc, command, attempt, files, unsaved, faults, boots>>

\* changerpass: root's password, given the old one.
changerpass(e, hash) ==
  /\ Command
  /\ e
  /\ user_table' = users_change_password(user_table, "root", hash)
  /\ Start("changerpass", "root", "create")
  /\ UNCHANGED <<session, attempt, files, removed, left, unsaved, faults, boots>>

\* changempass: the password of whoever the session points at.
changempass(hash) ==
  /\ Command
  /\ LET name == Entry(g_session_user).name
     IN  /\ users_get(user_table, name) # 0
         /\ user_table' = users_change_password(user_table, name, hash)
         /\ Start("changempass", name, "create")
  /\ UNCHANGED <<session, attempt, files, removed, left, unsaved, faults, boots>>

-----------------------------------------------------------------------------
(* The disk operations of a command *)

Fault == faults < MaxFaults /\ faults' = faults + 1

Uid(name) == user_table[users_get(user_table, name)].uid

\* pdfs_create_home: an existing directory stays as it is.
CreateHome ==
  /\ pc = "home"
  /\ home' = IF home[saving] = NoOwner THEN [home EXCEPT ![saving] = Uid(saving)] ELSE home
  /\ pc' = "create"
  /\ UNCHANGED <<user_table, session, command, attempt, usr, removed, left, unsaved, counts>>

\* Its result is not looked at.
CreateHomeFails ==
  /\ pc = "home" /\ home[saving] = NoOwner
  /\ Fault
  /\ pc' = "create"
  /\ UNCHANGED <<user_table, session, command, attempt, files, removed, left, unsaved, calls, boots>>

\* users_save_to_disk creates the file of the uid unless it is there,
Created ==
  IF \E i \in DOMAIN usr : usr[i].uid = Uid(saving) THEN usr
  ELSE Append(usr, [uid |-> Uid(saving), rec |-> Empty])

\* and writes the account to it.
Written ==
  [i \in DOMAIN usr |->
     IF usr[i].uid = Uid(saving)
     THEN [usr[i] EXCEPT !.rec = user_table[users_get(user_table, saving)]]
     ELSE usr[i]]

CreateFile ==
  /\ pc = "create"
  /\ usr' = Created
  /\ pc' = "write"
  /\ UNCHANGED <<user_table, session, command, attempt, home, removed, left, unsaved, counts>>

\* Mutant: only root is logged out.
Mutant_Finish ==
  /\ IF op = "changerpass" /\ Entry(g_session_user).root
     THEN EndSession
     ELSE pc' = "shell" /\ UNCHANGED session
  /\ op' = "none" /\ saving' = ""

\* The command is over; a password that was changed ends the session.
Finish ==
  /\ IF op = "changempass" \/ (op = "changerpass" /\ Entry(g_session_user).root)
     THEN EndSession
     ELSE pc' = "shell" /\ UNCHANGED session
  /\ op' = "none" /\ saving' = ""

WriteFile ==
  /\ pc = "write"
  /\ usr' = Written
  /\ unsaved' = unsaved \ {saving}
  /\ Finish
  /\ UNCHANGED <<user_table, attempt, home, removed, left, counts>>

\* An error of vfs_create or vfs_open prints a warning, one of vfs_write is not
\* looked at; the command goes on to its end either way, with the file changed
\* or not.
SaveFails ==
  /\ pc \in {"create", "write"}
  /\ Fault
  /\ usr' \in {usr, IF pc = "create" THEN Created ELSE Written}
  /\ unsaved' = unsaved \cup {saving}
  /\ Finish
  /\ UNCHANGED <<user_table, attempt, home, removed, left, calls, boots>>

\* The reboot command, or the power fails, and the machine boots.
Boot ==
  /\ boots < MaxBoots /\ boots' = boots + 1
  /\ user_table' = Booted(usr)
  /\ g_session_user' = 0 /\ who' = "" /\ opened' = ""
  /\ pc' = "login" /\ op' = "none" /\ saving' = ""
  /\ attempt' = 0 /\ unsaved' = {}
  /\ left' = left \cup { n \in Names : users_get(user_table, n) # 0 /\ users_get(user_table', n) = 0 }
  /\ UNCHANGED <<files, removed, calls, faults>>

Next ==
  \/ \E n \in Names, h \in Hashes : LoginOk(n, h)
  \/ LoginFails \/ Logout
  \/ \E e \in BOOLEAN, n \in Names, a \in BOOLEAN, h \in Hashes : adduser(e, n, a, h)
  \/ \E e \in BOOLEAN, n \in Names : deluser(e, n)
  \/ \E e \in BOOLEAN, h \in Hashes : changerpass(e, h)
  \/ \E h \in Hashes : changempass(h)
  \/ CreateHome \/ CreateHomeFails \/ CreateFile \/ WriteFile \/ SaveFails
  \/ Boot

Spec == Init /\ [][Next]_vars

-----------------------------------------------------------------------------
(* Correctness *)

TypeOK ==
  /\ user_table \in Seq(Accounts) /\ Len(user_table) < MAX_USERS
  /\ g_session_user \in 0..(MAX_USERS - 1)
  /\ pc \in {"login", "shell", "home", "create", "write", "halted"}
  /\ op \in {"none", "adduser", "changerpass", "changempass"}
  /\ saving \in Names \cup {""}
  /\ attempt \in 0..MAX_ATTEMPTS
  /\ \A i \in DOMAIN usr : usr[i].uid \in 0..(UIDS - 1) /\ usr[i].rec \in Accounts \cup {Empty}
  /\ home \in [Names -> 0..(UIDS - 1) \cup {NoOwner}]
  /\ removed \subseteq left /\ left \subseteq Names /\ unsaved \subseteq Names

\* No two accounts share a name or a uid and root keeps the first slot,
\* whatever is added, removed, and loaded from files old accounts left behind.
AccountsDistinct ==
  /\ \A i, j \in DOMAIN user_table : i # j =>
       user_table[i].name # user_table[j].name /\ user_table[i].uid # user_table[j].uid
  /\ user_table[1].name = "root" /\ user_table[1].uid = 0 /\ user_table[1].root

\* Accounts whose history a boot can be expected to reproduce: never removed,
\* saved, and not given the uid of a built-in account that was removed.
Kept(t) == { u \in { t[i] : i \in DOMAIN t } :
               u.name \notin removed \cup unsaved /\ (u.uid = 1 => u.name = "pd") }

\* The table has room for all the accounts that have a file.
RoomForFiles == Cardinality({ i \in DOMAIN usr : usr[i].uid > 1 }) + 2 < MAX_USERS

\* "survives reboot" (users.h:47): between commands, a boot would build the same
\* accounts, with the same passwords, uids and rights, as are in memory, and
\* no others, although commands were cut short by a reboot at any step.
RebootRestores ==
  pc \in {"login", "shell", "halted"} /\ RoomForFiles => Kept(Booted(usr)) = Kept(user_table)

\* A session does not outlive the password it was opened with.
SessionFresh ==
  pc = "shell" /\ who \notin removed =>
    \A i \in DOMAIN user_table : user_table[i].name = who => user_table[i].hash = opened

\* The account that is logged in cannot be deleted.
LoggedInUserStays == pc = "shell" => users_get(user_table, who) # 0

\* A home directory belongs to the account it is named after, across boots,
\* unless an account of that name was lost before: the directory stays.
OwnsHome ==
  pc \in {"login", "shell"} =>
    \A i \in DOMAIN user_table :
      LET u == user_table[i]
      IN  home[u.name] # NoOwner /\ u.name \notin left => home[u.name] = u.uid
=============================================================================
