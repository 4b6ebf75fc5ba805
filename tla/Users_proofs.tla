---------------------------- MODULE Users_proofs ----------------------------
(***************************************************************************)
(* Proofs about the user accounts, for every table size, set of names and  *)
(* passwords, any number of faults and of boots, a boot after every step   *)
(* of every command among them, as long as the uids are not used up.       *)
(*                                                                         *)
(* What a boot makes of /usr is a fold over its files.  Loads says what    *)
(* the table is after the first k of them, and is proved by induction.     *)
(***************************************************************************)
EXTENDS Users, DataLemmas

\* A command uses up one uid at most, and they are stored in eight bits: the
\* one after the last is 0, root's.
FewCalls == MaxCalls \in Nat /\ MaxCalls + 1 < UIDS

Uids == 0..(UIDS - 1)
Recs == Accounts \cup {Empty}

\* Names and uids are distinct and the first slot is root's.
Distinct(t) ==
  /\ t \in Seq(Accounts) /\ 1 \in DOMAIN t
  /\ \A i \in DOMAIN t : \A j \in DOMAIN t :
       t[i].name = t[j].name \/ t[i].uid = t[j].uid => i = j
  /\ t[1].name = "root" /\ t[1].uid = 0 /\ t[1].root

\* One file for each uid, and the account in it has that uid.
FilesOK(u) ==
  /\ u \in Seq([uid : Uids, rec : Recs])
  /\ \A k \in DOMAIN u : u[k].rec # Empty => u[k].rec.uid = u[k].uid
  /\ \A k \in DOMAIN u : \A l \in DOMAIN u : u[k].uid = u[l].uid => k = l

\* A file that a boot may make an account of.
Loadable(f) == f.rec # Empty /\ f.uid > 1

\* h is the password the built-in account x has when the files K have been read.
HashIs(u, K, x, h) ==
  IF \A k \in K : u[k].uid = x.uid => u[k].rec = Empty
  THEN h = x.hash
  ELSE \A k \in K : u[k].uid = x.uid /\ u[k].rec # Empty => h = u[k].rec.hash

\* The table has room for an account from every file.
Room(u) == Cardinality({ i \in DOMAIN u : u[i].uid > 1 }) + 2 < MAX_USERS

-----------------------------------------------------------------------------
(* The invariant *)

Saving == pc \in {"home", "create", "write"}

TableInv ==
  /\ TypeOK /\ Distinct(user_table) /\ FilesOK(usr) /\ calls \in 0..MaxCalls
  /\ \A i \in DOMAIN user_table : user_table[i].uid <= 1 + calls
  /\ \A k \in DOMAIN usr : usr[k].uid <= 1 + calls

\* A command that saves knows its account, and the account its file once that
\* is to be written.
CommandInv ==
  /\ Saving <=> op # "none"
  /\ Saving => \E i \in DOMAIN user_table : user_table[i].name = saving
  /\ pc = "write" => \E k \in DOMAIN usr : usr[k].uid = Uid(saving)

\* The session ends with the command that is under way.
Ends == op = "changempass" \/ (op = "changerpass" /\ Entry(g_session_user).root)

\* The account that is logged in is there with the password it was opened with;
\* root's session points at root's slot; the last login that fails halts the system.
SessionInv ==
  /\ pc # "halted" => attempt < MAX_ATTEMPTS
  /\ pc \notin {"login", "halted"} =>
       /\ who = "root" => g_session_user = 1
       /\ who \notin removed /\ ~Ends =>
            \E i \in DOMAIN user_table : user_table[i].name = who /\ user_table[i].hash = opened

\* The built-in account pd, until it is removed.
Pd(t, R) == "pd" \notin R =>
  \E i \in DOMAIN t : t[i].name = "pd" /\ t[i].uid = 1 /\ ~t[i].root

\* Homes and files of accounts that were never lost are those of the accounts.
Homes(t, h, L) ==
  \A n \in Names \ L : h[n] # NoOwner => \E i \in DOMAIN t : t[i].name = n /\ t[i].uid = h[n]

Named(t, u, L) ==
  \A k \in DOMAIN u : Loadable(u[k]) /\ u[k].rec.name \notin L =>
    \E i \in DOMAIN t : t[i].name = u[k].rec.name /\ t[i].uid = u[k].uid

\* Every settled account has its file,
OnDisk(t, u, C) ==
  \A i \in DOMAIN t : t[i].uid > 1 /\ t[i].name \in C => \E k \in DOMAIN u : u[k].rec = t[i]

\* every file of an account that was not removed has its account, and they agree
\* when it is settled,
Known(t, u, R, C) ==
  Room(u) =>
    \A k \in DOMAIN u : Loadable(u[k]) /\ u[k].rec.name \notin R =>
      \E i \in DOMAIN t :
        /\ t[i].name = u[k].rec.name /\ t[i].uid = u[k].uid /\ t[i].root = u[k].rec.root
        /\ t[i].name \in C => t[i] = u[k].rec

\* and the built-in accounts have the passwords that a boot would give them.
Passwords(t, u, C) ==
  \A b \in {1, 2} : BuiltIn[b].name \in C =>
    \A i \in DOMAIN t : t[i].name = BuiltIn[b].name => HashIs(u, DOMAIN u, BuiltIn[b], t[i].hash)

Saved(t, u, R, C) == OnDisk(t, u, C) /\ Known(t, u, R, C) /\ Passwords(t, u, C)

\* How the table, /usr and the homes agree.
Accounted(t, u, h, R, L, C) == Pd(t, R) /\ Homes(t, h, L) /\ Named(t, u, L) /\ Saved(t, u, R, C)

\* The accounts whose file should say what the table says.
Settled == { n \in Names : n \notin removed \cup unsaved /\ ~(Saving /\ saving = n) }

Inv ==
  /\ TableInv /\ CommandInv /\ SessionInv
  /\ Accounted(user_table, usr, home, removed, left, Settled)

-----------------------------------------------------------------------------
(* The table *)

(* The numbers among the constants.                                        *)
LEMMA Sizes ==
  MAX_USERS \in Nat /\ MAX_USERS > 2 /\ UIDS \in Nat /\ UIDS > 2 /\ MAX_ATTEMPTS \in Nat /\ MAX_ATTEMPTS > 0
<1>1. MAX_ATTEMPTS \in Nat \ {0}
  BY UsersAssumption
<1>2. MAX_USERS \in Nat /\ MAX_USERS > 2 /\ UIDS \in Nat /\ UIDS > 2
  BY UsersAssumption
<1>. QED  BY <1>1, <1>2

(* The two accounts that every boot starts from.                           *)
LEMMA BuiltInIs ==
  /\ BuiltIn \in Seq(Accounts) /\ Len(BuiltIn) = 2
  /\ BuiltIn[1] = Account("root", RootHash, 0, TRUE)
  /\ BuiltIn[2] = Account("pd", PdHash, 1, FALSE)
<1>. DEFINE r == Account("root", RootHash, 0, TRUE)
            p == Account("pd", PdHash, 1, FALSE)
<1>1. r \in Accounts /\ p \in Accounts
  <2>1. UIDS \in Nat /\ UIDS > 2
    BY UsersAssumption
  <2>2. 0 \in 0..(UIDS - 1) /\ 1 \in 0..(UIDS - 1)
    BY <2>1
  <2>3. "root" \in Names /\ "pd" \in Names /\ RootHash \in Hashes /\ PdHash \in Hashes
    BY UsersAssumption, Zenon
  <2>. QED  BY <2>2, <2>3 DEF Account, Accounts
<1>2. BuiltIn = <<r, p>>
  BY DEF BuiltIn
<1>. HIDE DEF r, p
<1>3. BuiltIn \in Seq(Accounts)
  BY <1>1, <1>2
<1>4. Len(BuiltIn) = 2 /\ BuiltIn[1] = r /\ BuiltIn[2] = p
  BY <1>2
<1>. QED  BY <1>3, <1>4 DEF r, p

(* Accounts, field by field.                                               *)
LEMMA AccountIs ==
  ASSUME NEW n \in Names, NEW h \in Hashes, NEW u \in Uids, NEW r \in BOOLEAN
  PROVE  /\ Account(n, h, u, r) \in Accounts
         /\ Account(n, h, u, r).name = n /\ Account(n, h, u, r).hash = h
         /\ Account(n, h, u, r).uid = u /\ Account(n, h, u, r).root = r
BY DEF Account, Accounts, Uids

(* An account is its fields.                                               *)
LEMMA SameAccount ==
  ASSUME NEW a \in Accounts, NEW b \in Accounts,
         a.name = b.name, a.hash = b.hash, a.uid = b.uid, a.root = b.root
  PROVE  a = b
BY DEF Accounts

(* The zeroed record of a file not yet written is no account.              *)
LEMMA EmptyIs == Empty \notin Accounts
BY UsersAssumption DEF Empty, Accounts

(* users_get finds the slot of a name.                                     *)
LEMMA GetIs ==
  ASSUME NEW t \in Seq(Accounts), NEW n
  PROVE  /\ users_get(t, n) \in Nat
         /\ users_get(t, n) = 0 => \A i \in DOMAIN t : t[i].name # n
         /\ users_get(t, n) # 0 => users_get(t, n) \in DOMAIN t /\ t[users_get(t, n)].name = n
<1>. DEFINE I == { i \in 1..Len(t) : t[i].name = n }
            g == users_get(t, n)
<1>1. Len(t) \in Nat /\ DOMAIN t = 1..Len(t)
  BY LenProperties
<1>2. g = IF I # {} THEN Min(I) ELSE 0
  BY DEF users_get, SelectInSeq
<1>3. I # {} => Min(I) \in I
  <2>1. I \in SUBSET Nat
    BY <1>1
  <2>. HIDE DEF I
  <2>. QED  BY <2>1, MinIs
<1>. HIDE DEF g
<1>4. CASE I # {}
  BY <1>1, <1>2, <1>3, <1>4 DEF g
<1>5. CASE I = {}
  BY <1>1, <1>2, <1>5 DEF g
<1>. QED  BY <1>4, <1>5

(* In a table of distinct accounts there is no other.                      *)
LEMMA GetFinds ==
  ASSUME NEW t, Distinct(t), NEW i \in DOMAIN t
  PROVE  users_get(t, t[i].name) = i
<1>1. t \in Seq(Accounts)
  BY DEF Distinct
<1>2. users_get(t, t[i].name) # 0
  BY <1>1, GetIs
<1>. QED  BY <1>1, <1>2, GetIs DEF Distinct

(* A table with one more account.                                          *)
LEMMA Appended ==
  ASSUME NEW t, Distinct(t), NEW a \in Accounts,
         \A i \in DOMAIN t : t[i].name # a.name /\ t[i].uid # a.uid
  PROVE  /\ Distinct(Append(t, a))
         /\ DOMAIN Append(t, a) = DOMAIN t \cup {Len(t) + 1} /\ Len(Append(t, a)) = Len(t) + 1
         /\ \A i \in DOMAIN t : Append(t, a)[i] = t[i]
         /\ Append(t, a)[Len(t) + 1] = a /\ Len(t) + 1 \notin DOMAIN t
<1>. DEFINE s == Append(t, a)
            n == Len(t)
<1>1. t \in Seq(Accounts)
  BY DEF Distinct
<1>2. n \in Nat /\ DOMAIN t = 1..n
  BY <1>1, LenProperties
<1>3. s \in Seq(Accounts) /\ Len(s) = n + 1 /\ DOMAIN s = 1..(n + 1)
      /\ (\A i \in 1..n : s[i] = t[i]) /\ s[n + 1] = a
  BY <1>1, AppendProperties, LenProperties
<1>. HIDE DEF s, n
<1>4. DOMAIN s = DOMAIN t \cup {n + 1} /\ n + 1 \notin DOMAIN t
  BY <1>2, <1>3
<1>5. ASSUME NEW i \in DOMAIN s, NEW j \in DOMAIN s, s[i].name = s[j].name \/ s[i].uid = s[j].uid
      PROVE  i = j
  <2>1. CASE i \in DOMAIN t /\ j \in DOMAIN t
    BY <1>2, <1>3, <1>5, <2>1 DEF Distinct
  <2>2. CASE i = n + 1 /\ j \in DOMAIN t
    BY <1>2, <1>3, <1>5, <2>2
  <2>3. CASE i \in DOMAIN t /\ j = n + 1
    BY <1>2, <1>3, <1>5, <2>3
  <2>. QED  BY <1>4, <2>1, <2>2, <2>3
<1>6. Distinct(s)
  BY <1>2, <1>3, <1>4, <1>5 DEF Distinct
<1>. QED  BY <1>2, <1>3, <1>4, <1>6 DEF s, n

(* A table without one account.                                            *)
LEMMA Removed ==
  ASSUME NEW t, Distinct(t), NEW i \in DOMAIN t, i # 1
  PROVE  /\ Distinct(RemoveAt(t, i)) /\ Len(RemoveAt(t, i)) = Len(t) - 1
         /\ \A j \in DOMAIN RemoveAt(t, i) : \E k \in DOMAIN t \ {i} : RemoveAt(t, i)[j] = t[k]
         /\ \A k \in DOMAIN t \ {i} : \E j \in DOMAIN RemoveAt(t, i) : RemoveAt(t, i)[j] = t[k]
<1>. DEFINE s == RemoveAt(t, i)
            n == Len(t)
            f(j) == IF j < i THEN j ELSE j + 1
<1>1. t \in Seq(Accounts)
  BY DEF Distinct
<1>2. n \in Nat /\ DOMAIN t = 1..n
  BY <1>1, LenProperties
<1>3. s \in Seq(Accounts) /\ Len(s) = n - 1 /\ \A j \in 1..(n - 1) : s[j] = t[f(j)]
  BY <1>1, RemoveAtIs
<1>4. DOMAIN s = 1..(n - 1)
  <2>1. s \in Seq(Accounts) /\ Len(s) = n - 1
    BY <1>3
  <2>. HIDE DEF s
  <2>. QED  BY <2>1, LenProperties
<1>. HIDE DEF s, n
<1>5. \A j \in DOMAIN s : f(j) \in DOMAIN t \ {i} /\ s[j] = t[f(j)]
  BY <1>2, <1>3, <1>4
<1>6. ASSUME NEW k \in DOMAIN t \ {i} PROVE \E j \in DOMAIN s : s[j] = t[k]
  <2>. DEFINE j == IF k < i THEN k ELSE k - 1
  <2>1. j \in DOMAIN s /\ f(j) = k
    BY <1>2, <1>4
  <2>. QED  BY <1>5, <2>1
<1>7. ASSUME NEW j \in DOMAIN s, NEW k \in DOMAIN s, s[j].name = s[k].name \/ s[j].uid = s[k].uid
      PROVE  j = k
  <2>1. f(j) = f(k)
    <3>. HIDE DEF f
    <3>. QED  BY <1>5, <1>7 DEF Distinct
  <2>. QED  BY <1>2, <1>4, <2>1
<1>8. 1 \in DOMAIN s /\ s[1] = t[1]
  <2>1. i > 1
    BY <1>2
  <2>. QED  BY <1>2, <1>4, <1>5, <2>1
<1>9. Distinct(s)
  BY <1>3, <1>7, <1>8 DEF Distinct
<1>10. \A j \in DOMAIN s : \E k \in DOMAIN t \ {i} : s[j] = t[k]
  BY <1>5
<1>. QED  BY <1>3, <1>6, <1>9, <1>10 DEF s, n

(* A table with one password changed.                                      *)
LEMMA Changed ==
  ASSUME NEW t, Distinct(t), NEW i \in DOMAIN t, NEW h \in Hashes
  PROVE  LET s == [t EXCEPT ![i].hash = h]
         IN  /\ Distinct(s) /\ DOMAIN s = DOMAIN t /\ Len(s) = Len(t)
             /\ \A j \in DOMAIN t : /\ s[j].name = t[j].name /\ s[j].uid = t[j].uid
                                    /\ s[j].root = t[j].root
                                    /\ s[j].hash = IF j = i THEN h ELSE t[j].hash
                                    /\ j # i => s[j] = t[j]
<1>. DEFINE s == [t EXCEPT ![i].hash = h]
            v == [t[i] EXCEPT !.hash = h]
<1>1. t \in Seq(Accounts) /\ t[i] \in Accounts
  BY LenProperties DEF Distinct
<1>2. /\ v \in Accounts /\ v.name = t[i].name /\ v.uid = t[i].uid /\ v.root = t[i].root /\ v.hash = h
  BY <1>1 DEF Accounts
<1>3. s = [t EXCEPT ![i] = v]
  OBVIOUS
<1>. HIDE DEF v
<1>4. /\ s \in Seq(Accounts) /\ Len(s) = Len(t) /\ DOMAIN s = DOMAIN t
      /\ \A j \in DOMAIN t : s[j] = IF j = i THEN v ELSE t[j]
  BY <1>1, <1>2, <1>3, ExceptSeq, LenProperties
<1>. HIDE DEF s
<1>5. \A j \in DOMAIN t : /\ s[j].name = t[j].name /\ s[j].uid = t[j].uid /\ s[j].root = t[j].root
                          /\ s[j].hash = IF j = i THEN h ELSE t[j].hash
                          /\ j # i => s[j] = t[j]
  BY <1>2, <1>4
<1>6. Distinct(s)
  BY <1>4, <1>5 DEF Distinct
<1>. QED  BY <1>4, <1>5, <1>6 DEF s

(* The next uid is behind all that are in use, if there is one.            *)
LEMMA NextUidIs ==
  ASSUME NEW t, Distinct(t), NEW n \in Nat, n + 1 < UIDS, \A i \in DOMAIN t : t[i].uid <= n
  PROVE  /\ NextUid(t) \in 1..(n + 1) /\ NextUid(t) \in Uids
         /\ \A i \in DOMAIN t : t[i].uid # NextUid(t)
<1>. DEFINE T == {0} \cup { t[i].uid : i \in DOMAIN t }
<1>1. UIDS \in Nat
  BY UsersAssumption
<1>2. \A i \in DOMAIN t : t[i].uid \in 0..n
  <2>1. t \in Seq(Accounts)
    BY DEF Distinct
  <2>2. \A i \in DOMAIN t : t[i] \in Accounts
    BY <2>1, LenProperties
  <2>. QED  BY <1>1, <2>2 DEF Accounts
<1>3. T \in SUBSET (0..n) /\ T # {}
  BY <1>2
<1>. DEFINE m == Max(T)
<1>4. m \in T /\ \A x \in T : m >= x
  <2>. HIDE DEF T
  <2>. QED  BY <1>3, MaxIs
<1>5. m \in 0..n
  BY <1>3, <1>4
<1>6. NextUid(t) = (m + 1) % UIDS
  BY DEF NextUid
<1>7. \A i \in DOMAIN t : t[i].uid <= m
  BY <1>2, <1>4, <1>5
<1>. HIDE DEF m, T
<1>8. NextUid(t) = m + 1
  BY <1>1, <1>5, <1>6
<1>9. \A i \in DOMAIN t : t[i].uid # m + 1
  BY <1>2, <1>5, <1>7
<1>. QED  BY <1>1, <1>5, <1>8, <1>9 DEF Uids

-----------------------------------------------------------------------------
(* A boot *)

\* The files among the first k that accounts may come from.
Count(u, k) == Cardinality({ l \in 1..k : u[l].uid > 1 })

\* A file whose account no other file and no built-in account keeps out.
Clear(u, k) ==
  /\ Loadable(u[k]) /\ u[k].rec.name \notin {"root", "pd"}
  /\ \A l \in DOMAIN u : Loadable(u[l]) /\ u[l].rec.name = u[k].rec.name => l = k

\* What a boot makes of the first k files of u.
Loads(t, u, k) ==
  /\ Distinct(t) /\ Len(t) >= 2 /\ Len(t) < MAX_USERS
  /\ t[2].name = "pd" /\ t[2].uid = 1 /\ ~t[2].root
  /\ \A b \in {1, 2} : HashIs(u, 1..k, BuiltIn[b], t[b].hash)
  /\ \A i \in DOMAIN t : i > 2 => \E l \in 1..k : Loadable(u[l]) /\ t[i] = u[l].rec
  /\ Len(t) <= 2 + Count(u, k)
  /\ Room(u) => \A l \in 1..k : Clear(u, l) => \E i \in DOMAIN t : t[i] = u[l].rec

(* Files of a sound directory.                                             *)
LEMMA FileIs ==
  ASSUME NEW u, FilesOK(u), NEW k \in DOMAIN u
  PROVE  /\ u[k] \in [uid : Uids, rec : Recs] /\ u[k].uid \in Uids /\ u[k].rec \in Recs
         /\ u[k].rec # Empty => u[k].rec \in Accounts /\ u[k].rec.uid = u[k].uid
<1>1. u \in Seq([uid : Uids, rec : Recs])
  BY DEF FilesOK
<1>2. u[k] \in [uid : Uids, rec : Recs]
  BY ZenonT(40), <1>1, LenProperties
<1>. QED  BY <1>2 DEF FilesOK, Recs

(* An account from a file is neither of the built-in ones.                 *)
LEMMA BehindBuiltIn ==
  ASSUME NEW t, NEW u, NEW k, Loads(t, u, k), NEW i \in DOMAIN t, t[i].uid > 1
  PROVE  i > 2
<1>1. t \in Seq(Accounts)
  BY DEF Loads, Distinct
<1>2. i \in Nat \ {0}
  BY <1>1, LenProperties
<1>3. t[1].uid = 0 /\ t[2].uid = 1
  BY DEF Loads, Distinct
<1>. QED  BY <1>2, <1>3

(* How many accounts there may be after the next file.                     *)
LEMMA FilesCount ==
  ASSUME NEW u, FilesOK(u), NEW k \in Nat, k + 1 \in DOMAIN u
  PROVE  /\ Count(u, k) \in Nat
         /\ Count(u, k + 1) = Count(u, k) + (IF u[k + 1].uid > 1 THEN 1 ELSE 0)
         /\ u[k + 1].uid > 1 /\ Room(u) => Count(u, k) + 3 < MAX_USERS
<1>. DEFINE F(j) == { l \in 1..j : u[l].uid > 1 }
            A == { l \in DOMAIN u : u[l].uid > 1 }
            c == Cardinality(F(k))
            d == Cardinality(F(k + 1))
            n == Cardinality(A)
<1>1. u \in Seq([uid : Uids, rec : Recs])
  BY DEF FilesOK
<1>2. DOMAIN u = 1..Len(u) /\ Len(u) \in Nat
  BY <1>1, LenProperties
<1>3. IsFiniteSet(F(k)) /\ IsFiniteSet(A)
  <2>1. IsFiniteSet(1..k) /\ IsFiniteSet(1..Len(u))
    BY <1>2, FS_Interval
  <2>2. F(k) \subseteq 1..k /\ A \subseteq 1..Len(u)
    BY <1>2
  <2>. QED  BY <2>1, <2>2, FS_Subset
<1>4. c \in Nat /\ n \in Nat
  BY <1>3, FS_CardinalityType
<1>5. ~(u[k + 1].uid > 1) => d = c
  <2>1. ~(u[k + 1].uid > 1) => F(k + 1) = F(k)
    OBVIOUS
  <2>. QED  BY <2>1
<1>6. u[k + 1].uid > 1 => d = c + 1 /\ d <= n
  <2>. SUFFICES ASSUME u[k + 1].uid > 1
                PROVE  d = c + 1 /\ d <= n
    OBVIOUS
  <2>1. F(k + 1) = F(k) \cup {k + 1} /\ k + 1 \notin F(k)
    OBVIOUS
  <2>2. Cardinality(F(k) \cup {k + 1}) = Cardinality(F(k)) + 1
    BY <1>3, <2>1, FS_AddElement
  <2>3. F(k) \cup {k + 1} \subseteq A
    BY <1>2
  <2>4. Cardinality(F(k) \cup {k + 1}) <= Cardinality(A)
    BY <1>3, <2>3, FS_Subset
  <2>. HIDE DEF F, A
  <2>. QED  BY <2>1, <2>2, <2>4
<1>7. Count(u, k) = c /\ Count(u, k + 1) = d /\ (Room(u) => n + 2 < MAX_USERS)
  BY DEF Count, Room
<1>8. MAX_USERS \in Nat
  BY UsersAssumption
<1>. HIDE DEF c, d, n
<1>9. CASE u[k + 1].uid > 1
  BY <1>4, <1>6, <1>7, <1>8, <1>9
<1>10. CASE ~(u[k + 1].uid > 1)
  BY <1>4, <1>5, <1>7, <1>10
<1>. QED  BY <1>9, <1>10

(* The next file sets the password of a built-in account, or leaves it.    *)
LEMMA HashNext ==
  ASSUME NEW u, FilesOK(u), NEW k \in Nat, k + 1 \in DOMAIN u, NEW x, NEW h, HashIs(u, 1..k, x, h),
         NEW g, g = IF u[k + 1].uid = x.uid /\ u[k + 1].rec # Empty THEN u[k + 1].rec.hash ELSE h
  PROVE  HashIs(u, 1..(k + 1), x, g)
<1>1. u \in Seq([uid : Uids, rec : Recs])
  BY DEF FilesOK
<1>2. DOMAIN u = 1..Len(u) /\ Len(u) \in Nat
  BY <1>1, LenProperties
<1>3. \A l \in 1..(k + 1) : l \in DOMAIN u /\ (l # k + 1 => l \in 1..k)
  BY <1>2
<1>4. \A l \in 1..k : l \in 1..(k + 1)
  OBVIOUS
<1>5. CASE u[k + 1].uid = x.uid /\ u[k + 1].rec # Empty
  <2>1. g = u[k + 1].rec.hash
    BY <1>5
  <2>2. ASSUME NEW l \in 1..(k + 1), u[l].uid = x.uid PROVE l = k + 1
    BY <1>3, <1>5, <2>2 DEF FilesOK
  <2>3. k + 1 \in 1..(k + 1)
    OBVIOUS
  <2>. QED  BY <1>5, <2>1, <2>2, <2>3 DEF HashIs
<1>6. CASE ~(u[k + 1].uid = x.uid /\ u[k + 1].rec # Empty)
  <2>1. g = h
    BY <1>6
  <2>2. ASSUME NEW l \in 1..(k + 1), u[l].uid = x.uid, u[l].rec # Empty PROVE l \in 1..k
    BY <1>3, <1>6, <2>2
  <2>. QED  BY <1>4, <2>1, <2>2 DEF HashIs
<1>. QED  BY <1>5, <1>6

(* The password of a built-in account comes from its file.                 *)
LEMMA LoadPassword ==
  ASSUME NEW u, FilesOK(u), NEW k \in Nat, k + 1 \in DOMAIN u, NEW t, Loads(t, u, k),
         NEW b \in {1, 2}, u[k + 1].rec # Empty, u[k + 1].uid = b - 1
  PROVE  Loads([t EXCEPT ![b].hash = u[k + 1].rec.hash], u, k + 1)
<1>. DEFINE h == u[k + 1].rec.hash
            s == [t EXCEPT ![b].hash = h]
<1>1. Distinct(t) /\ t \in Seq(Accounts) /\ Len(t) >= 2 /\ Len(t) < MAX_USERS
  BY DEF Loads, Distinct
<1>2. DOMAIN t = 1..Len(t) /\ Len(t) \in Nat
  BY <1>1, LenProperties
<1>3. 1 \in DOMAIN t /\ 2 \in DOMAIN t /\ b \in DOMAIN t
  BY <1>1, <1>2
<1>4. h \in Hashes /\ u[k + 1].uid \in 0..1 /\ ~Loadable(u[k + 1])
  <2>1. u[k + 1].rec \in Accounts
    BY FileIs
  <2>. QED  BY <2>1 DEF Accounts, Loadable
<1>. HIDE DEF h
<1>5. /\ Distinct(s) /\ DOMAIN s = DOMAIN t /\ Len(s) = Len(t)
      /\ \A j \in DOMAIN t : /\ s[j].name = t[j].name /\ s[j].uid = t[j].uid
                             /\ s[j].root = t[j].root
                             /\ s[j].hash = IF j = b THEN h ELSE t[j].hash
                             /\ j # b => s[j] = t[j]
  BY <1>1, <1>3, <1>4, Changed
<1>. HIDE DEF s
<1>6. s[2].name = "pd" /\ s[2].uid = 1 /\ ~s[2].root
  BY <1>3, <1>5 DEF Loads
<1>7. ASSUME NEW a \in {1, 2} PROVE HashIs(u, 1..(k + 1), BuiltIn[a], s[a].hash)
  <2>1. BuiltIn[a].uid = a - 1
    BY BuiltInIs DEF Account
  <2>2. HashIs(u, 1..k, BuiltIn[a], t[a].hash)
    BY DEF Loads
  <2>3. s[a].hash = IF u[k + 1].uid = BuiltIn[a].uid /\ u[k + 1].rec # Empty
                    THEN u[k + 1].rec.hash ELSE t[a].hash
    BY <1>3, <1>5, <2>1 DEF h
  <2>. DEFINE x == BuiltIn[a]
              g == s[a].hash
              o == t[a].hash
  <2>. HIDE DEF x, g, o
  <2>4. HashIs(u, 1..(k + 1), x, g)
    <3>1. HashIs(u, 1..k, x, o) /\ g = IF u[k + 1].uid = x.uid /\ u[k + 1].rec # Empty THEN u[k + 1].rec.hash ELSE o
      BY <2>2, <2>3 DEF x, g, o
    <3>. QED  BY <3>1, HashNext
  <2>. QED  BY <2>4 DEF x, g
<1>8. ASSUME NEW i \in DOMAIN s, i > 2 PROVE \E l \in 1..(k + 1) : Loadable(u[l]) /\ s[i] = u[l].rec
  <2>1. i # b /\ i \in DOMAIN t
    BY <1>5, <1>8
  <2>2. PICK l \in 1..k : Loadable(u[l]) /\ t[i] = u[l].rec
    BY <1>8, <2>1 DEF Loads
  <2>. QED  BY <1>5, <2>1, <2>2
<1>9. Len(s) <= 2 + Count(u, k + 1)
  <2>1. Count(u, k + 1) = Count(u, k)
    BY <1>4, FilesCount
  <2>. QED  BY <1>5, <2>1 DEF Loads
<1>10. ASSUME Room(u), NEW l \in 1..(k + 1), Clear(u, l) PROVE \E i \in DOMAIN s : s[i] = u[l].rec
  <2>1. l \in 1..k /\ Loadable(u[l])
    BY <1>4, <1>10 DEF Clear
  <2>2. PICK i \in DOMAIN t : t[i] = u[l].rec
    BY <1>10, <2>1 DEF Loads
  <2>3. t[i].uid > 1
    <3>1. l \in DOMAIN u
      <4>1. u \in Seq([uid : Uids, rec : Recs])
        BY DEF FilesOK
      <4>. QED  BY <2>1, <4>1, LenProperties
    <3>2. u[l].rec.uid = u[l].uid
      BY <2>1, <3>1, FileIs DEF Loadable
    <3>. QED  BY <2>1, <2>2, <3>2 DEF Loadable
  <2>4. i > 2
    BY <2>3, BehindBuiltIn
  <2>. QED  BY <1>5, <2>2, <2>4
<1>11. Loads(s, u, k + 1)
  BY <1>1, <1>5, <1>6, <1>7, <1>8, <1>9, <1>10 DEF Loads
<1>. QED  BY <1>11 DEF s, h

(* An account comes from its file if it is not in the table yet.           *)
LEMMA LoadAccount ==
  ASSUME NEW u, FilesOK(u), NEW k \in Nat, k + 1 \in DOMAIN u, NEW t, Loads(t, u, k), Loadable(u[k + 1])
  PROVE  Loads(add_raw(t, u[k + 1].rec), u, k + 1)
<1>. DEFINE a == u[k + 1].rec
            s == add_raw(t, a)
            n == Len(t)
            c == Count(u, k)
            New == HasRoom(t) /\ \A i \in DOMAIN t : t[i].name # a.name /\ t[i].uid # a.uid
<1>1. Distinct(t) /\ t \in Seq(Accounts) /\ n >= 2 /\ n < MAX_USERS
  BY DEF Loads, Distinct
<1>2. DOMAIN t = 1..n /\ n \in Nat
  BY <1>1, LenProperties
<1>3. a \in Accounts /\ a.uid = u[k + 1].uid /\ u[k + 1].uid > 1
  BY FileIs DEF Loadable
<1>4. u \in Seq([uid : Uids, rec : Recs])
  BY DEF FilesOK
<1>5. \A l \in 1..(k + 1) : l \in DOMAIN u
  BY <1>4, LenProperties
<1>6. c \in Nat /\ Count(u, k + 1) = c + 1 /\ n <= 2 + c /\ (Room(u) => c + 3 < MAX_USERS)
  BY <1>3, FilesCount DEF Loads
<1>7. MAX_USERS \in Nat
  BY UsersAssumption
<1>8. \A i \in DOMAIN t : i > 2 => \E l \in 1..k : Loadable(u[l]) /\ t[i] = u[l].rec
  BY DEF Loads
<1>9. t[1].name = "root" /\ t[1].uid = 0 /\ t[2].name = "pd" /\ t[2].uid = 1 /\ ~t[2].root
  BY DEF Loads, Distinct
<1>10. ASSUME Room(u), Clear(u, k + 1) PROVE New
  <2>1. HasRoom(t)
    <3>. HIDE DEF c, n
    <3>1. n < MAX_USERS - 1
      BY <1>2, <1>6, <1>7, <1>10
    <3>. QED  BY <3>1 DEF HasRoom, n
  <2>2. ASSUME NEW i \in DOMAIN t PROVE t[i].name # a.name /\ t[i].uid # a.uid
    <3>1. CASE i = 1 \/ i = 2
      BY <1>3, <1>9, <1>10, <3>1 DEF Clear
    <3>2. CASE i > 2
      <4>1. PICK l \in 1..k : Loadable(u[l]) /\ t[i] = u[l].rec
        BY <1>8, <3>2
      <4>2. l \in DOMAIN u /\ l # k + 1
        BY <1>5, <4>1
      <4>3. u[l].rec.uid = u[l].uid
        BY <4>1, <4>2, FileIs DEF Loadable
      <4>4. u[l].uid # u[k + 1].uid
        BY <4>2 DEF FilesOK
      <4>. QED  BY <1>3, <1>10, <4>1, <4>2, <4>3, <4>4 DEF Clear
    <3>. QED  BY <1>2, <3>1, <3>2
  <2>. QED  BY <2>1, <2>2
<1>11. s = IF New THEN Append(t, a) ELSE t
  BY DEF add_raw
<1>12. New => /\ Distinct(s) /\ DOMAIN s = DOMAIN t \cup {n + 1} /\ Len(s) = n + 1
              /\ (\A i \in DOMAIN t : s[i] = t[i]) /\ s[n + 1] = a
  <2>. SUFFICES ASSUME New
                PROVE  /\ Distinct(s) /\ DOMAIN s = DOMAIN t \cup {n + 1} /\ Len(s) = n + 1
                       /\ (\A i \in DOMAIN t : s[i] = t[i]) /\ s[n + 1] = a
    OBVIOUS
  <2>1. s = Append(t, a) /\ \A i \in DOMAIN t : t[i].name # a.name /\ t[i].uid # a.uid
    BY <1>11
  <2>. HIDE DEF s, a, New
  <2>. QED  BY <1>1, <1>3, <2>1, Appended
<1>13. New => n + 1 < MAX_USERS
  BY <1>2, <1>7 DEF HasRoom
<1>14. ~New => s = t
  BY <1>11
<1>. HIDE DEF s, a, New, n, c
<1>15. Distinct(s) /\ Len(s) >= 2 /\ Len(s) < MAX_USERS
  BY <1>1, <1>2, <1>12, <1>13, <1>14 DEF n
<1>16. \A i \in DOMAIN t : i \in DOMAIN s /\ s[i] = t[i]
  BY <1>12, <1>14
<1>17. 1 \in DOMAIN t /\ 2 \in DOMAIN t
  BY <1>1, <1>2
<1>18. s[2].name = "pd" /\ s[2].uid = 1 /\ ~s[2].root
  BY <1>9, <1>16, <1>17
<1>19. ASSUME NEW b \in {1, 2} PROVE HashIs(u, 1..(k + 1), BuiltIn[b], s[b].hash)
  <2>. DEFINE x == BuiltIn[b]
              g == s[b].hash
  <2>1. x.uid = b - 1 /\ g = t[b].hash /\ HashIs(u, 1..k, x, g)
    BY BuiltInIs, <1>16, <1>17 DEF Account, Loads
  <2>. HIDE DEF x, g
  <2>2. g = IF u[k + 1].uid = x.uid /\ u[k + 1].rec # Empty THEN u[k + 1].rec.hash ELSE g
    BY <1>3, <2>1
  <2>3. HashIs(u, 1..(k + 1), x, g)
    BY <2>1, <2>2, HashNext
  <2>. QED  BY <2>3 DEF x, g
<1>20. ASSUME NEW i \in DOMAIN s, i > 2 PROVE \E l \in 1..(k + 1) : Loadable(u[l]) /\ s[i] = u[l].rec
  <2>1. CASE i \in DOMAIN t
    <3>1. PICK l \in 1..k : Loadable(u[l]) /\ t[i] = u[l].rec
      BY <1>8, <1>20, <2>1
    <3>2. l \in 1..(k + 1)
      OBVIOUS
    <3>. QED  BY <1>16, <2>1, <3>1, <3>2
  <2>2. CASE i \notin DOMAIN t
    <3>1. s[i] = a /\ k + 1 \in 1..(k + 1)
      BY <1>12, <1>14, <1>20, <2>2
    <3>. QED  BY <3>1 DEF a
  <2>. QED  BY <2>1, <2>2
<1>21. Len(s) <= 2 + Count(u, k + 1)
  BY <1>2, <1>6, <1>12, <1>14 DEF n
<1>22. ASSUME Room(u), NEW l \in 1..(k + 1), Clear(u, l) PROVE \E i \in DOMAIN s : s[i] = u[l].rec
  <2>1. CASE l \in 1..k
    <3>1. PICK i \in DOMAIN t : t[i] = u[l].rec
      BY <1>22, <2>1 DEF Loads
    <3>. QED  BY <1>16, <3>1
  <2>2. CASE l = k + 1
    <3>1. New
      BY <1>10, <1>22, <2>2
    <3>. QED  BY <1>12, <2>2, <3>1 DEF a
  <2>. QED  BY <2>1, <2>2
<1>23. Loads(s, u, k + 1)
  BY <1>15, <1>18, <1>19, <1>20, <1>21, <1>22 DEF Loads
<1>. QED  BY <1>23 DEF s, a

(* update_hash_by_name finds the account by its name.                      *)
LEMMA UpdateIs ==
  ASSUME NEW t, NEW n, NEW h, NEW i \in Nat \ {0}, users_get(t, n) = i
  PROVE  update_hash_by_name(t, n, h) = [t EXCEPT ![i].hash = h]
<1>1. users_change_password(t, n, h) = [t EXCEPT ![users_get(t, n)].hash = h]
  BY DEF users_change_password
<1>2. users_change_password(t, n, h) = [t EXCEPT ![i].hash = h]
  BY <1>1
<1>. QED  BY <1>2 DEF update_hash_by_name

(* The next file.                                                          *)
LEMMA LoadStep ==
  ASSUME NEW u, FilesOK(u), NEW k \in Nat, k + 1 \in DOMAIN u, NEW t, Loads(t, u, k)
  PROVE  Loads(LoadFile(t, u[k + 1]), u, k + 1)
<1>. DEFINE f == u[k + 1]
            s == LoadFile(t, f)
<1>1. /\ f.uid \in Uids /\ (f.rec # Empty => f.rec \in Accounts /\ f.rec.uid = f.uid)
  BY FileIs
<1>2. f.uid \in Nat
  <2>1. UIDS \in Nat
    BY UsersAssumption
  <2>. QED  BY <1>1, <2>1 DEF Uids
<1>3. Distinct(t) /\ t \in Seq(Accounts) /\ Len(t) >= 2
  BY DEF Loads, Distinct
<1>4. 1 \in DOMAIN t /\ 2 \in DOMAIN t
  <2>1. DOMAIN t = 1..Len(t) /\ Len(t) \in Nat
    BY <1>3, LenProperties
  <2>. QED  BY <1>3, <2>1
<1>5. users_get(t, "root") = 1 /\ users_get(t, "pd") = 2
  <2>1. t[1].name = "root" /\ t[2].name = "pd"
    BY DEF Loads, Distinct
  <2>2. users_get(t, t[1].name) = 1 /\ users_get(t, t[2].name) = 2
    BY <1>3, <1>4, GetFinds
  <2>. QED  BY <2>1, <2>2
<1>6. CASE f.rec = Empty
  <2>1. s = t
    BY <1>6 DEF LoadFile
  <2>2. \A b \in {1, 2} : HashIs(u, 1..(k + 1), BuiltIn[b], t[b].hash)
    <3>1. ASSUME NEW b \in {1, 2} PROVE HashIs(u, 1..(k + 1), BuiltIn[b], t[b].hash)
      <4>. DEFINE x == BuiltIn[b]
                  g == t[b].hash
      <4>1. HashIs(u, 1..k, x, g)
        BY DEF Loads
      <4>2. g = IF u[k + 1].uid = x.uid /\ u[k + 1].rec # Empty THEN u[k + 1].rec.hash ELSE g
        BY <1>6
      <4>. HIDE DEF x, g
      <4>3. HashIs(u, 1..(k + 1), x, g)
        BY <4>1, <4>2, HashNext
      <4>. QED  BY <4>3 DEF x, g
    <3>. QED  BY <3>1
  <2>3. Count(u, k) \in Nat /\ Count(u, k) <= Count(u, k + 1)
    <3>. DEFINE c == Count(u, k)
                d == Count(u, k + 1)
    <3>1. c \in Nat /\ (d = c + 1 \/ d = c)
      BY FilesCount
    <3>. HIDE DEF c, d
    <3>2. c \in Nat /\ c <= d
      BY <3>1
    <3>. QED  BY <3>2 DEF c, d
  <2>4. Len(t) <= 2 + Count(u, k + 1)
    <3>1. Len(t) \in Nat /\ Count(u, k + 1) \in Nat
      BY <1>3, LenProperties, FilesCount
    <3>. QED  BY <2>3, <3>1 DEF Loads
  <2>5. \A l \in 1..(k + 1) : l # k + 1 => l \in 1..k
    OBVIOUS
  <2>6. \A l \in 1..k : l \in 1..(k + 1)
    OBVIOUS
  <2>7. ~Loadable(u[k + 1])
    BY <1>6 DEF Loadable
  <2>8. \A i \in DOMAIN t : i > 2 => \E l \in 1..(k + 1) : Loadable(u[l]) /\ t[i] = u[l].rec
    BY <2>6 DEF Loads
  <2>9. Room(u) => \A l \in 1..(k + 1) : Clear(u, l) => \E i \in DOMAIN t : t[i] = u[l].rec
    BY <2>5, <2>7 DEF Loads, Clear
  <2>10. Loads(t, u, k + 1)
    BY <2>2, <2>4, <2>8, <2>9 DEF Loads
  <2>. QED  BY <2>1, <2>10
<1>7. CASE f.rec # Empty /\ f.uid = 0
  <2>1. s = update_hash_by_name(t, "root", f.rec.hash)
    BY <1>1, <1>7 DEF LoadFile
  <2>2. s = [t EXCEPT ![1].hash = f.rec.hash]
    BY <1>5, <2>1, UpdateIs
  <2>3. 1 \in {1, 2} /\ f.uid = 1 - 1
    BY <1>7
  <2>4. Loads([t EXCEPT ![1].hash = f.rec.hash], u, k + 1)
    BY <1>7, <2>3, LoadPassword
  <2>. QED  BY <2>2, <2>4
<1>8. CASE f.rec # Empty /\ f.uid = 1
  <2>1. s = update_hash_by_name(t, "pd", f.rec.hash)
    BY <1>1, <1>8 DEF LoadFile
  <2>2. s = [t EXCEPT ![2].hash = f.rec.hash]
    BY <1>5, <2>1, UpdateIs
  <2>3. 2 \in {1, 2} /\ f.uid = 2 - 1
    BY <1>8
  <2>4. Loads([t EXCEPT ![2].hash = f.rec.hash], u, k + 1)
    BY <1>8, <2>3, LoadPassword
  <2>. QED  BY <2>2, <2>4
<1>9. CASE f.rec # Empty /\ f.uid # 0 /\ f.uid # 1
  <2>1. s = add_raw(t, f.rec)
    BY <1>1, <1>9 DEF LoadFile
  <2>2. Loadable(f)
    BY <1>2, <1>9 DEF Loadable
  <2>. QED  BY <2>1, <2>2, LoadAccount
<1>. QED  BY <1>6, <1>7, <1>8, <1>9

(* The function that Booted recurses over exists, for every /usr.          *)
LEMMA Recursion ==
  ASSUME NEW u, NEW N \in Nat
  PROVE  \E g : g = [k \in 0..N |-> IF k = 0 THEN BuiltIn ELSE LoadFile(g[k - 1], u[k])]
<1>. DEFINE Ok(g, n) == g = [k \in 0..n |-> IF k = 0 THEN BuiltIn ELSE LoadFile(g[k - 1], u[k])]
            S == { n \in Nat : \E g : Ok(g, n) }
<1>1. 0 \in S
  <2>. DEFINE g == [k \in 0..0 |-> BuiltIn]
  <2>1. Ok(g, 0)
    OBVIOUS
  <2>. HIDE DEF g, Ok
  <2>. QED  BY <2>1
<1>2. ASSUME NEW n \in Nat, n \in S PROVE n + 1 \in S
  <2>1. PICK g : Ok(g, n)
    BY <1>2
  <2>. DEFINE h == [k \in 0..(n + 1) |-> IF k = n + 1 THEN LoadFile(g[n], u[n + 1]) ELSE g[k]]
  <2>2. ASSUME NEW k \in 0..(n + 1)
        PROVE  h[k] = IF k = 0 THEN BuiltIn ELSE LoadFile(h[k - 1], u[k])
    <3>1. CASE k = n + 1
      <4>1. n + 1 # 0 /\ (n + 1) - 1 = n /\ n \in 0..(n + 1) /\ n # n + 1
        OBVIOUS
      <4>. QED  BY <3>1, <4>1
    <3>2. CASE k # n + 1
      <4>1. k \in 0..n /\ (k # 0 => k - 1 \in 0..(n + 1) /\ k - 1 # n + 1)
        BY <3>2
      <4>. QED  BY <2>1, <3>2, <4>1
    <3>. QED  BY <3>1, <3>2
  <2>3. Ok(h, n + 1)
    BY <2>2
  <2>. HIDE DEF h, Ok
  <2>. QED  BY <2>3
<1>3. N \in S
  <2>. HIDE DEF S
  <2>. QED  BY <1>1, <1>2, Induction
<1>. QED  BY <1>3

(* A boot reads all files, one after another.                              *)
LEMMA BootedIs ==
  ASSUME NEW u, FilesOK(u)
  PROVE  Loads(Booted(u), u, Len(u))
<1>. DEFINE N == Len(u)
            f == CHOOSE g : g = [k \in 0..N |-> IF k = 0 THEN BuiltIn ELSE LoadFile(g[k - 1], u[k])]
            S == { n \in Nat : n <= N => Loads(f[n], u, n) }
<1>1. N \in Nat /\ DOMAIN u = 1..N
  <2>1. u \in Seq([uid : Uids, rec : Recs])
    BY DEF FilesOK
  <2>. QED  BY <2>1, LenProperties
<1>2. f = [k \in 0..N |-> IF k = 0 THEN BuiltIn ELSE LoadFile(f[k - 1], u[k])]
  BY <1>1, Recursion
<1>3. Booted(u) = f[N]
  BY DEF Booted
<1>. HIDE DEF f
<1>4. 0 \in S
  <2>1. f[0] = BuiltIn
    BY <1>1, <1>2
  <2>2. BuiltIn \in Seq(Accounts) /\ Len(BuiltIn) = 2
    BY BuiltInIs
  <2>3. DOMAIN BuiltIn = 1..2
    BY <2>2, LenProperties
  <2>4. /\ BuiltIn[1].name = "root" /\ BuiltIn[1].uid = 0 /\ BuiltIn[1].root
        /\ BuiltIn[2].name = "pd" /\ BuiltIn[2].uid = 1 /\ ~BuiltIn[2].root
    BY BuiltInIs DEF Account
  <2>5. Distinct(BuiltIn)
    <3>1. BuiltIn \in Seq(Accounts)
      BY <2>2
    <3>. QED  BY <2>3, <2>4, <3>1 DEF Distinct
  <2>6. {l \in 1..0 : u[l].uid > 1} = {} /\ 1..0 = {}
    OBVIOUS
  <2>7. Count(u, 0) = 0
    BY <2>6, FS_EmptySet DEF Count
  <2>8. 2 < MAX_USERS
    BY UsersAssumption
  <2>9. \A b \in {1, 2} : HashIs(u, 1..0, BuiltIn[b], BuiltIn[b].hash)
    BY <2>6 DEF HashIs
  <2>10. Loads(BuiltIn, u, 0)
    BY <2>2, <2>3, <2>4, <2>5, <2>6, <2>7, <2>8, <2>9 DEF Loads
  <2>. QED  BY <2>1, <2>10
<1>5. ASSUME NEW n \in Nat, n \in S PROVE n + 1 \in S
  <2>. SUFFICES ASSUME n + 1 <= N
                PROVE  Loads(f[n + 1], u, n + 1)
    OBVIOUS
  <2>1. Loads(f[n], u, n)
    BY <1>1, <1>5
  <2>2. f[n + 1] = LoadFile(f[n], u[n + 1])
    <3>1. n + 1 \in 0..N /\ n + 1 # 0 /\ (n + 1) - 1 = n
      BY <1>1
    <3>. QED  BY <1>2, <3>1
  <2>3. n + 1 \in DOMAIN u
    BY <1>1
  <2>4. Loads(LoadFile(f[n], u[n + 1]), u, n + 1)
    BY <2>1, <2>3, LoadStep
  <2>. QED  BY <2>2, <2>4
<1>6. N \in S
  <2>. HIDE DEF S
  <2>. QED  BY <1>1, <1>4, <1>5, Induction
<1>. QED  BY <1>1, <1>3, <1>6

-----------------------------------------------------------------------------
(* What a step makes of the table and of /usr *)

\* The table s, made from t: settled accounts are those of t, and an account of
\* t stays unless it is in R, with its password if it is settled.
Follows(s, t, R, C) ==
  /\ \A j \in DOMAIN s : s[j].name \in C => \E i \in DOMAIN t : t[i] = s[j]
  /\ \A i \in DOMAIN t : t[i].name \notin R =>
       \E j \in DOMAIN s : /\ s[j].name = t[i].name /\ s[j].uid = t[i].uid
                           /\ s[j].root = t[i].root
                           /\ t[i].name \in C => s[j] = t[i]

(* A table that keeps what is settled, and whatever is not removed but for *)
(* its password, is as well saved as it was.                               *)
LEMMA TableChanges ==
  ASSUME NEW t, NEW u, NEW h, NEW R, NEW L, NEW C, NEW s, NEW R2, NEW L2, NEW C2,
         R \subseteq R2, L \subseteq L2, R2 \subseteq L2, C2 \subseteq C, Follows(s, t, R2, C2)
  PROVE  Accounted(t, u, h, R, L, C) => Accounted(s, u, h, R2, L2, C2)
<1>. SUFFICES ASSUME Accounted(t, u, h, R, L, C) PROVE Accounted(s, u, h, R2, L2, C2)
  OBVIOUS
<1>1. /\ \A j \in DOMAIN s : s[j].name \in C2 => \E i \in DOMAIN t : t[i] = s[j]
      /\ \A i \in DOMAIN t : t[i].name \notin R2 =>
           \E j \in DOMAIN s : /\ s[j].name = t[i].name /\ s[j].uid = t[i].uid
                               /\ s[j].root = t[i].root
                               /\ t[i].name \in C2 => s[j] = t[i]
  BY DEF Follows
<1>2. OnDisk(t, u, C) => OnDisk(s, u, C2)
  BY <1>1 DEF OnDisk
<1>3. Known(t, u, R, C) => Known(s, u, R2, C2)
  <2>. SUFFICES ASSUME Known(t, u, R, C), Room(u),
                       NEW k \in DOMAIN u, Loadable(u[k]), u[k].rec.name \notin R2
                PROVE  \E i \in DOMAIN s :
                         /\ s[i].name = u[k].rec.name /\ s[i].uid = u[k].uid
                         /\ s[i].root = u[k].rec.root
                         /\ s[i].name \in C2 => s[i] = u[k].rec
    BY DEF Known
  <2>1. PICK i \in DOMAIN t :
          /\ t[i].name = u[k].rec.name /\ t[i].uid = u[k].uid /\ t[i].root = u[k].rec.root
          /\ t[i].name \in C => t[i] = u[k].rec
    BY DEF Known
  <2>2. PICK j \in DOMAIN s : /\ s[j].name = t[i].name /\ s[j].uid = t[i].uid
                              /\ s[j].root = t[i].root
                              /\ t[i].name \in C2 => s[j] = t[i]
    BY <1>1, <2>1
  <2>. QED  BY <2>1, <2>2
<1>4. Passwords(t, u, C) => Passwords(s, u, C2)
  BY <1>1 DEF Passwords
<1>5. Pd(t, R) => Pd(s, R2)
  BY <1>1 DEF Pd
<1>6. Homes(t, h, L) => Homes(s, h, L2)
  BY <1>1 DEF Homes
<1>7. Named(t, u, L) => Named(s, u, L2)
  BY <1>1 DEF Named
<1>. QED  BY <1>2, <1>3, <1>4, <1>5, <1>6, <1>7 DEF Accounted, Saved

(* A file that was created and not yet written changes nothing.            *)
LEMMA FileCreated ==
  ASSUME NEW u, FilesOK(u), NEW f \in [uid : Uids, rec : Recs], f.rec = Empty,
         \A k \in DOMAIN u : u[k].uid # f.uid,
         NEW t, NEW h, NEW R, NEW L, NEW C, Accounted(t, u, h, R, L, C)
  PROVE  /\ FilesOK(Append(u, f)) /\ Accounted(t, Append(u, f), h, R, L, C)
         /\ \A k \in DOMAIN Append(u, f) : Append(u, f)[k] = f \/ \E l \in DOMAIN u : Append(u, f)[k] = u[l]
         /\ \E k \in DOMAIN Append(u, f) : Append(u, f)[k] = f
<1>. DEFINE n == Len(u)
            x == f.uid
            v == Append(u, f)
<1>1. u \in Seq([uid : Uids, rec : Recs])
  BY DEF FilesOK
<1>2. /\ f \in [uid : Uids, rec : Recs] /\ f.uid = x /\ f.rec = Empty
      /\ \A k \in DOMAIN u : u[k].uid # x
  OBVIOUS
<1>3. n \in Nat /\ DOMAIN u = 1..n
  BY <1>1, LenProperties
<1>4. v \in Seq([uid : Uids, rec : Recs]) /\ DOMAIN v = 1..(n + 1)
      /\ (\A k \in 1..n : v[k] = u[k]) /\ v[n + 1] = f
  <2>1. v \in Seq([uid : Uids, rec : Recs]) /\ Len(v) = n + 1
        /\ (\A k \in 1..n : v[k] = u[k]) /\ v[n + 1] = f
    BY <1>1, <1>2, AppendProperties
  <2>2. DOMAIN v = 1..Len(v)
    BY <2>1, LenProperties
  <2>. QED  BY <2>1, <2>2
<1>. HIDE DEF n, v, x
<1>5. DOMAIN v = DOMAIN u \cup {n + 1} /\ n + 1 \notin DOMAIN u /\ \A k \in DOMAIN u : v[k] = u[k]
  BY <1>3, <1>4
<1>6. v[n + 1].uid = x /\ v[n + 1].rec = Empty
  BY <1>2, <1>4
<1>7. FilesOK(v)
  <2>1. \A k \in DOMAIN v : v[k].rec # Empty => v[k].rec.uid = v[k].uid
    BY <1>5, <1>6 DEF FilesOK
  <2>2. \A k \in DOMAIN v : \A l \in DOMAIN v : v[k].uid = v[l].uid => k = l
    BY <1>2, <1>5, <1>6 DEF FilesOK
  <2>. QED  BY <1>4, <2>1, <2>2 DEF FilesOK
<1>8. Room(v) => Room(u)
  <2>. DEFINE A == { i \in DOMAIN u : u[i].uid > 1 }
              B == { i \in DOMAIN v : v[i].uid > 1 }
  <2>1. A \subseteq B
    BY <1>5
  <2>2. IsFiniteSet(B)
    <3>1. IsFiniteSet(1..(n + 1))
      BY <1>3, FS_Interval
    <3>2. B \subseteq 1..(n + 1)
      BY <1>4
    <3>. QED  BY <3>1, <3>2, FS_Subset
  <2>. DEFINE a == Cardinality(A)
              b == Cardinality(B)
  <2>3. a \in Nat /\ b \in Nat /\ a <= b
    <3>. HIDE DEF A, B
    <3>. QED  BY <2>1, <2>2, FS_Subset, FS_CardinalityType
  <2>4. MAX_USERS \in Nat
    BY UsersAssumption
  <2>5. (Room(u) <=> a + 2 < MAX_USERS) /\ (Room(v) <=> b + 2 < MAX_USERS)
    BY DEF Room
  <2>. HIDE DEF a, b
  <2>. QED  BY <2>3, <2>4, <2>5
<1>9. ~Loadable(v[n + 1])
  BY <1>6 DEF Loadable
<1>10. Saved(t, u, R, C) /\ Named(t, u, L) /\ Pd(t, R) /\ Homes(t, h, L)
  BY DEF Accounted
<1>11. OnDisk(t, v, C)
  BY <1>5, <1>10 DEF Saved, OnDisk
<1>12. Known(t, v, R, C)
  BY <1>5, <1>8, <1>9, <1>10 DEF Saved, Known
<1>13. Passwords(t, v, C)
  <2>1. ASSUME NEW a, NEW g, HashIs(u, DOMAIN u, a, g) PROVE HashIs(v, DOMAIN v, a, g)
    BY <1>5, <1>6, <2>1 DEF HashIs
  <2>. QED  BY <1>10, <2>1 DEF Saved, Passwords
<1>14. Named(t, v, L)
  BY <1>5, <1>9, <1>10 DEF Named
<1>15. (\A k \in DOMAIN v : v[k] = f \/ \E l \in DOMAIN u : v[k] = u[l]) /\ \E k \in DOMAIN v : v[k] = f
  BY <1>4, <1>5
<1>16. FilesOK(v) /\ Accounted(t, v, h, R, L, C)
  BY <1>7, <1>10, <1>11, <1>12, <1>13, <1>14 DEF Accounted, Saved
<1>. QED  BY <1>15, <1>16 DEF v

(* Writing an account to its file settles it.                              *)
LEMMA FileWritten ==
  ASSUME NEW u, FilesOK(u), NEW t, Distinct(t), NEW a \in Accounts,
         NEW i \in DOMAIN t, t[i] = a, \E k \in DOMAIN u : u[k].uid = a.uid,
         NEW v, v = [k \in DOMAIN u |->
                       IF u[k].uid = a.uid THEN [u[k] EXCEPT !.rec = a] ELSE u[k]],
         NEW R, NEW C, Pd(t, R), Saved(t, u, R, C)
  PROVE  Saved(t, v, R, (C \cup {a.name}) \ R)
<1>1. t \in Seq(Accounts) /\ u \in Seq([uid : Uids, rec : Recs])
  BY DEF Distinct, FilesOK
<1>2. DOMAIN v = DOMAIN u
  OBVIOUS
<1>3. \A k \in DOMAIN u : u[k] \in [uid : Uids, rec : Recs]
  BY FileIs
<1>4. \A k \in DOMAIN u : /\ v[k].uid = u[k].uid
                          /\ v[k].rec = IF u[k].uid = a.uid THEN a ELSE u[k].rec
  BY <1>3
<1>5. a # Empty
  BY EmptyIs
<1>6. \A j \in DOMAIN t : t[j].name = a.name \/ t[j].uid = a.uid => j = i
  BY DEF Distinct
<1>7. OnDisk(t, v, (C \cup {a.name}) \ R)
  <2>. SUFFICES ASSUME NEW j \in DOMAIN t, t[j].uid > 1, t[j].name \in (C \cup {a.name}) \ R
                PROVE  \E k \in DOMAIN v : v[k].rec = t[j]
    BY DEF OnDisk
  <2>1. CASE j = i
    BY <1>2, <1>4, <2>1
  <2>2. CASE j # i
    <3>1. t[j].name \in C
      BY <1>6, <2>2
    <3>2. PICK k \in DOMAIN u : u[k].rec = t[j]
      BY <3>1 DEF Saved, OnDisk
    <3>3. t[j] \in Accounts
      BY <1>1, LenProperties
    <3>4. u[k].uid = t[j].uid
      BY <3>2, <3>3, EmptyIs DEF FilesOK
    <3>. QED  BY <1>2, <1>4, <1>6, <2>2, <3>2, <3>4
  <2>. QED  BY <2>1, <2>2
<1>8. Known(t, v, R, (C \cup {a.name}) \ R)
  <2>. SUFFICES ASSUME Room(v), NEW k \in DOMAIN v, Loadable(v[k]), v[k].rec.name \notin R
                PROVE  \E j \in DOMAIN t :
                         /\ t[j].name = v[k].rec.name /\ t[j].uid = v[k].uid
                         /\ t[j].root = v[k].rec.root
                         /\ t[j].name \in (C \cup {a.name}) \ R => t[j] = v[k].rec
    BY DEF Known
  <2>1. Room(u)
    <3>1. { l \in DOMAIN v : v[l].uid > 1 } = { l \in DOMAIN u : u[l].uid > 1 }
      BY <1>2, <1>4
    <3>. QED  BY <3>1 DEF Room
  <2>2. CASE u[k].uid = a.uid
    BY ZenonT(40), <1>2, <1>4, <2>2
  <2>3. CASE u[k].uid # a.uid
    <3>1. v[k].rec = u[k].rec /\ v[k].uid = u[k].uid
      BY <1>2, <1>4, <2>3
    <3>2. PICK j \in DOMAIN t :
            /\ t[j].name = u[k].rec.name /\ t[j].uid = u[k].uid /\ t[j].root = u[k].rec.root
            /\ t[j].name \in C => t[j] = u[k].rec
      BY <1>2, <2>1, <3>1 DEF Saved, Known, Loadable
    <3>3. t[j].name # a.name
      BY <1>6, <2>3, <3>2
    <3>. QED  BY <3>1, <3>2, <3>3
  <2>. QED  BY <2>2, <2>3
<1>9. Passwords(t, v, (C \cup {a.name}) \ R)
  <2>. SUFFICES ASSUME NEW b \in {1, 2}, BuiltIn[b].name \in (C \cup {a.name}) \ R,
                       NEW j \in DOMAIN t, t[j].name = BuiltIn[b].name
                PROVE  HashIs(v, DOMAIN v, BuiltIn[b], t[j].hash)
    BY DEF Passwords
  <2>. DEFINE x == BuiltIn[b]
              h == t[j].hash
  <2>1. t[j].uid = x.uid
    <3>1. CASE b = 1
      <4>1. x.name = "root" /\ x.uid = 0
        BY <3>1, BuiltInIs DEF Account
      <4>2. j = 1
        BY <4>1 DEF Distinct
      <4>. QED  BY <4>1, <4>2 DEF Distinct
    <3>2. CASE b = 2
      <4>1. x.name = "pd" /\ x.uid = 1
        BY <3>2, BuiltInIs DEF Account
      <4>2. PICK l \in DOMAIN t : t[l].name = "pd" /\ t[l].uid = 1
        BY <4>1 DEF Pd
      <4>3. j = l
        BY <4>1, <4>2 DEF Distinct
      <4>. QED  BY <4>1, <4>2, <4>3
    <3>. QED  BY <3>1, <3>2
  <2>2. CASE a.uid = x.uid
    <3>1. t[j] = a
      BY <1>6, <2>1, <2>2
    <3>2. h = a.hash
      BY <3>1
    <3>. HIDE DEF x, h
    <3>3. \A k \in DOMAIN v : v[k].uid = x.uid => v[k].rec = a
      BY ZenonT(40), <1>2, <1>4, <2>2
    <3>4. \E k \in DOMAIN v : v[k].uid = x.uid
      BY <1>2, <1>4, <2>2
    <3>5. HashIs(v, DOMAIN v, x, h)
      BY <1>5, <3>2, <3>3, <3>4 DEF HashIs
    <3>. QED  BY <3>5 DEF x, h
  <2>3. CASE a.uid # x.uid
    <3>1. t[j].name # a.name
      BY <1>6, <2>1, <2>3
    <3>2. HashIs(u, DOMAIN u, x, h)
      BY <3>1 DEF Saved, Passwords
    <3>. HIDE DEF x, h
    <3>3. \A k \in DOMAIN u : v[k].uid = u[k].uid /\ (u[k].uid = x.uid => v[k].rec = u[k].rec)
      BY <1>4, <2>3
    <3>4. HashIs(v, DOMAIN v, x, h)
      BY <1>2, <3>2, <3>3 DEF HashIs
    <3>. QED  BY <3>4 DEF x, h
  <2>. QED  BY <2>2, <2>3
<1>. QED  BY <1>7, <1>8, <1>9 DEF Saved

(* The directory stays sound.                                              *)
LEMMA FilesStay ==
  ASSUME NEW u, FilesOK(u), NEW a \in Accounts,
         NEW v, v = [k \in DOMAIN u |->
                       IF u[k].uid = a.uid THEN [u[k] EXCEPT !.rec = a] ELSE u[k]]
  PROVE  /\ FilesOK(v) /\ DOMAIN v = DOMAIN u /\ \A k \in DOMAIN u : v[k].uid = u[k].uid
         /\ \A t, L : Named(t, u, L) /\ (\E i \in DOMAIN t : t[i] = a) => Named(t, v, L)
<1>1. u \in Seq([uid : Uids, rec : Recs])
  BY DEF FilesOK
<1>2. \A k \in DOMAIN u : u[k] \in [uid : Uids, rec : Recs]
  BY FileIs
<1>3. DOMAIN v = DOMAIN u /\ Len(u) \in Nat /\ DOMAIN u = 1..Len(u)
  BY <1>1, LenProperties
<1>4. \A k \in DOMAIN u : /\ v[k].uid = u[k].uid
                          /\ v[k].rec = IF u[k].uid = a.uid THEN a ELSE u[k].rec
                          /\ v[k] \in [uid : Uids, rec : Recs]
  BY <1>2 DEF Recs
<1>5. v \in Seq([uid : Uids, rec : Recs])
  <2>1. v \in [1..Len(u) -> [uid : Uids, rec : Recs]]
    BY <1>3, <1>4
  <2>. QED  BY <1>3, <2>1, FunctionIsSeq
<1>6. FilesOK(v)
  BY <1>3, <1>4, <1>5 DEF FilesOK
<1>7. ASSUME NEW t, NEW L, Named(t, u, L), \E i \in DOMAIN t : t[i] = a PROVE Named(t, v, L)
  <2>. SUFFICES ASSUME NEW k \in DOMAIN v, Loadable(v[k]), v[k].rec.name \notin L
                PROVE  \E i \in DOMAIN t : t[i].name = v[k].rec.name /\ t[i].uid = v[k].uid
    BY DEF Named
  <2>1. CASE u[k].uid = a.uid
    BY <1>3, <1>4, <1>7, <2>1
  <2>2. CASE u[k].uid # a.uid
    <3>1. v[k].rec = u[k].rec /\ v[k].uid = u[k].uid /\ k \in DOMAIN u
      BY <1>3, <1>4, <2>2
    <3>2. Loadable(u[k])
      BY <3>1 DEF Loadable
    <3>. QED  BY <1>7, <3>1, <3>2 DEF Named
  <2>. QED  BY <2>1, <2>2
<1>. QED  BY <1>3, <1>4, <1>6, <1>7

(* A boot keeps the uids of the accounts that were there and are there.    *)
LEMMA BootKeepsUids ==
  ASSUME NEW t, Distinct(t), NEW u, FilesOK(u), NEW R, NEW L, R \subseteq L, Pd(t, R), Named(t, u, L),
         NEW i \in DOMAIN t, t[i].name \notin L,
         NEW s, Loads(s, u, Len(u)), NEW j \in DOMAIN s, s[j].name = t[i].name
  PROVE  s[j].uid = t[i].uid
<1>1. Distinct(s) /\ s \in Seq(Accounts) /\ s[2].name = "pd" /\ s[2].uid = 1
  BY DEF Loads, Distinct
<1>2. j \in Nat \ {0}
  BY <1>1, LenProperties
<1>3. CASE j = 1
  BY <1>1, <1>3 DEF Distinct
<1>4. CASE j = 2
  <2>1. t[i].name = "pd" /\ "pd" \notin R
    BY <1>1, <1>4
  <2>2. PICK k \in DOMAIN t : t[k].name = "pd" /\ t[k].uid = 1
    BY <2>1 DEF Pd
  <2>3. k = i
    BY <2>1, <2>2 DEF Distinct
  <2>. QED  BY <1>1, <1>4, <2>2, <2>3
<1>5. CASE j > 2
  <2>1. PICK l \in 1..Len(u) : Loadable(u[l]) /\ s[j] = u[l].rec
    BY <1>5 DEF Loads
  <2>2. l \in DOMAIN u
    <3>1. u \in Seq([uid : Uids, rec : Recs])
      BY DEF FilesOK
    <3>. QED  BY <2>1, <3>1, LenProperties
  <2>3. u[l].rec.uid = u[l].uid
    BY <2>1, <2>2, FileIs DEF Loadable
  <2>4. PICK k \in DOMAIN t : t[k].name = u[l].rec.name /\ t[k].uid = u[l].uid
    BY <2>1, <2>2 DEF Named
  <2>5. k = i
    BY <2>1, <2>4 DEF Distinct
  <2>. QED  BY <2>1, <2>3, <2>4, <2>5
<1>. QED  BY <1>2, <1>3, <1>4, <1>5

(* A boot restores every account that was not removed: whatever its        *)
(* passwords were, the table is now what the files say.                    *)
LEMMA BootSaves ==
  ASSUME NEW t, Distinct(t), NEW u, FilesOK(u), NEW R, NEW C, Pd(t, R), Known(t, u, R, C),
         NEW s, Loads(s, u, Len(u)), NEW C2
  PROVE  Saved(s, u, R, C2) /\ Pd(s, R)
<1>1. Distinct(s) /\ s \in Seq(Accounts) /\ Len(s) >= 2 /\ s[2].name = "pd" /\ s[2].uid = 1 /\ ~s[2].root
  BY DEF Loads, Distinct
<1>2. DOMAIN s = 1..Len(s) /\ Len(s) \in Nat
  BY <1>1, LenProperties
<1>3. 1 \in DOMAIN s /\ 2 \in DOMAIN s
  BY <1>1, <1>2
<1>4. DOMAIN u = 1..Len(u)
  <2>1. u \in Seq([uid : Uids, rec : Recs])
    BY DEF FilesOK
  <2>. QED  BY <2>1, LenProperties
<1>5. OnDisk(s, u, C2)
  <2>. SUFFICES ASSUME NEW i \in DOMAIN s, s[i].uid > 1
                PROVE  \E k \in DOMAIN u : u[k].rec = s[i]
    BY DEF OnDisk
  <2>1. i > 2
    BY BehindBuiltIn
  <2>. QED  BY <1>4, <2>1 DEF Loads
<1>6. Known(s, u, R, C2)
  <2>. SUFFICES ASSUME Room(u), NEW k \in DOMAIN u, Loadable(u[k]), u[k].rec.name \notin R
                PROVE  \E i \in DOMAIN s : s[i] = u[k].rec /\ s[i].uid = u[k].uid
    BY DEF Known
  <2>1. PICK i \in DOMAIN t : t[i].name = u[k].rec.name /\ t[i].uid = u[k].uid
    BY DEF Known
  <2>2. u[k].uid \in Nat /\ u[k].uid > 1 /\ u[k].rec.uid = u[k].uid
    <3>1. UIDS \in Nat
      BY UsersAssumption
    <3>. QED  BY <3>1, FileIs DEF Loadable, Uids
  <2>3. u[k].rec.name # "root"
    <3>1. u[k].rec.name = "root" => i = 1
      BY <2>1 DEF Distinct
    <3>. QED  BY <2>1, <2>2, <3>1 DEF Distinct
  <2>4. u[k].rec.name # "pd"
    <3>1. SUFFICES ASSUME u[k].rec.name = "pd" PROVE FALSE
      OBVIOUS
    <3>2. PICK j \in DOMAIN t : t[j].name = "pd" /\ t[j].uid = 1
      BY <3>1 DEF Pd
    <3>3. i = j
      BY <2>1, <3>1, <3>2 DEF Distinct
    <3>. QED  BY <2>1, <2>2, <3>2, <3>3
  <2>5. ASSUME NEW l \in DOMAIN u, Loadable(u[l]), u[l].rec.name = u[k].rec.name PROVE l = k
    <3>1. PICK j \in DOMAIN t : t[j].name = u[l].rec.name /\ t[j].uid = u[l].uid
      BY <2>5 DEF Known
    <3>2. j = i
      BY <2>1, <2>5, <3>1 DEF Distinct
    <3>. QED  BY <2>1, <3>1, <3>2 DEF FilesOK
  <2>6. Clear(u, k)
    BY <2>3, <2>4, <2>5 DEF Clear
  <2>7. PICK j \in DOMAIN s : s[j] = u[k].rec
    BY <1>4, <2>6 DEF Loads
  <2>. QED  BY <2>2, <2>7
<1>7. Passwords(s, u, C2)
  <2>. SUFFICES ASSUME NEW b \in {1, 2}, NEW i \in DOMAIN s, s[i].name = BuiltIn[b].name
                PROVE  HashIs(u, DOMAIN u, BuiltIn[b], s[i].hash)
    BY DEF Passwords
  <2>1. b \in DOMAIN s /\ s[b].name = BuiltIn[b].name
    BY <1>1, <1>3, BuiltInIs DEF Account, Distinct
  <2>2. i = b
    BY <1>1, <2>1 DEF Distinct
  <2>. QED  BY <1>4, <2>2 DEF Loads
<1>8. Pd(s, R)
  BY <1>1, <1>3 DEF Pd
<1>. QED  BY <1>5, <1>6, <1>7, <1>8 DEF Saved

-----------------------------------------------------------------------------
(* The steps *)

(* The account that a command saves, and its uid.                          *)
LEMMA SavingIs ==
  ASSUME Inv, Saving
  PROVE  \E i \in DOMAIN user_table :
           /\ users_get(user_table, saving) = i /\ user_table[i].name = saving
           /\ user_table[i] \in Accounts /\ saving \in Names
           /\ Uid(saving) = user_table[i].uid /\ Uid(saving) \in Uids
<1>1. PICK i \in DOMAIN user_table : user_table[i].name = saving
  BY DEF Inv, CommandInv
<1>2. Distinct(user_table) /\ user_table \in Seq(Accounts)
  BY DEF Inv, TableInv, Distinct
<1>3. users_get(user_table, saving) = i
  BY <1>1, <1>2, GetFinds
<1>4. user_table[i] \in Accounts
  BY <1>2, LenProperties
<1>. QED  BY <1>1, <1>3, <1>4 DEF Uid, Accounts, Uids

(* A step that leaves the accounts and the files alone, and no command     *)
(* more or less under way.                                                 *)
LEMMA Quiet ==
  ASSUME Inv, UNCHANGED <<user_table, command, files, removed, left, unsaved, calls>>,
         Saving' <=> Saving
  PROVE  /\ Distinct(user_table)' /\ FilesOK(usr)' /\ (calls \in 0..MaxCalls)'
         /\ (\A i \in DOMAIN user_table : user_table[i].uid <= 1 + calls)'
         /\ (\A k \in DOMAIN usr : usr[k].uid <= 1 + calls)'
         /\ Accounted(user_table, usr, home, removed, left, Settled)'
<1>1. Settled' = Settled
  BY DEF Settled, command
<1>. QED  BY <1>1 DEF Inv, TableInv, files

LEMMA LoginOkInv ==
  ASSUME Inv, NEW n \in Names, NEW h \in Hashes, LoginOk(n, h)
  PROVE  Inv'
<1>1. UNCHANGED <<user_table, command, files, removed, left, unsaved, calls>>
  BY DEF LoginOk, counts
<1>2. pc = "login" /\ pc' = "shell" /\ ~Saving /\ ~Saving'
  BY DEF LoginOk, Saving
<1>. DEFINE g == users_get(user_table, n)
<1>3. Distinct(user_table) /\ user_table \in Seq(Accounts)
  BY DEF Inv, TableInv, Distinct
<1>4. g \in DOMAIN user_table /\ user_table[g].name = n /\ user_table[g].hash = h
  BY <1>3, GetIs DEF LoginOk, users_verify
<1>5. n = "root" => g = 1
  BY <1>3, <1>4 DEF Distinct
<1>6. SessionInv'
  BY <1>1, <1>4, <1>5, Sizes DEF LoginOk, SessionInv
<1>7. CommandInv'
  BY <1>1, <1>2 DEF Inv, CommandInv, command
<1>8. TypeOK'
  <2>1. g \in 0..(MAX_USERS - 1)
    <3>1. DOMAIN user_table = 1..Len(user_table) /\ Len(user_table) \in Nat
      BY <1>3, LenProperties
    <3>2. MAX_USERS \in Nat /\ Len(user_table) < MAX_USERS
      BY UsersAssumption DEF Inv, TableInv, TypeOK
    <3>. QED  BY <1>4, <3>1, <3>2
  <2>2. 0 \in 0..MAX_ATTEMPTS
    BY Sizes
  <2>. QED  BY <1>1, <2>1, <2>2 DEF LoginOk, Inv, TableInv, TypeOK, command, files
<1>. QED  BY <1>1, <1>2, <1>6, <1>7, <1>8, Quiet DEF Inv, TableInv

LEMMA LoginFailsInv ==
  ASSUME Inv, LoginFails
  PROVE  Inv'
<1>1. UNCHANGED <<user_table, command, files, removed, left, unsaved, calls>>
  BY DEF LoginFails, counts
<1>2. pc' \in {"login", "halted"} /\ ~Saving /\ ~Saving'
  BY DEF LoginFails, Saving
<1>3. attempt' \in 0..MAX_ATTEMPTS /\ SessionInv'
  <2>1. attempt \in 0..MAX_ATTEMPTS /\ attempt < MAX_ATTEMPTS
    BY DEF LoginFails, Inv, TableInv, TypeOK, SessionInv
  <2>2. attempt' \in 0..MAX_ATTEMPTS /\ (pc' = "halted" <=> attempt' = MAX_ATTEMPTS)
    BY <2>1, Sizes DEF LoginFails
  <2>3. pc' # "halted" => attempt' < MAX_ATTEMPTS
    BY <2>2, Sizes
  <2>. QED  BY <1>2, <2>2, <2>3 DEF SessionInv
<1>4. CommandInv'
  BY <1>1, <1>2 DEF Inv, CommandInv, command
<1>5. TypeOK'
  <2>1. attempt' \in 0..MAX_ATTEMPTS
    BY <1>3
  <2>. QED  BY <1>1, <1>2, <2>1 DEF LoginFails, Inv, TableInv, TypeOK, command, files, session
<1>. QED  BY <1>1, <1>2, <1>3, <1>4, <1>5, Quiet DEF Inv, TableInv

LEMMA LogoutInv ==
  ASSUME Inv, Logout
  PROVE  Inv'
<1>1. UNCHANGED <<user_table, command, files, removed, left, unsaved, calls>>
  BY DEF Logout, counts
<1>2. pc = "shell" /\ pc' = "login" /\ attempt' = attempt /\ ~Saving /\ ~Saving'
  BY DEF Logout, EndSession, Saving
<1>3. SessionInv'
  BY <1>2 DEF Inv, SessionInv
<1>4. CommandInv'
  BY <1>1, <1>2 DEF Inv, CommandInv, command
<1>5. TypeOK'
  <2>1. 0 \in 0..(MAX_USERS - 1)
    BY Sizes
  <2>. QED  BY <1>1, <1>2, <2>1 DEF Logout, EndSession, Inv, TableInv, TypeOK, command, files
<1>. QED  BY <1>1, <1>2, <1>3, <1>4, <1>5, Quiet DEF Inv, TableInv

(* A command more keeps the bound on the uids.                             *)
LEMMA MoreCalls ==
  ASSUME FewCalls, Inv, Command
  PROVE  /\ calls' \in 0..MaxCalls
         /\ \A i \in DOMAIN user_table : user_table[i].uid <= 1 + calls'
         /\ \A k \in DOMAIN usr : usr[k].uid <= 1 + calls'
<1>1. calls \in Nat /\ calls' = calls + 1 /\ calls' \in 0..MaxCalls /\ UIDS \in Nat
  BY Sizes DEF FewCalls, Command, Inv, TableInv
<1>2. ASSUME NEW i \in DOMAIN user_table PROVE user_table[i].uid <= 1 + calls'
  <2>1. user_table[i] \in Accounts
    <3>1. user_table \in Seq(Accounts)
      BY DEF Inv, TableInv, Distinct
    <3>. QED  BY <3>1, LenProperties
  <2>2. user_table[i].uid \in Nat
    BY <1>1, <2>1 DEF Accounts
  <2>. QED  BY <1>1, <2>2 DEF Inv, TableInv
<1>3. ASSUME NEW k \in DOMAIN usr PROVE usr[k].uid <= 1 + calls'
  <2>1. usr[k].uid \in Nat
    BY <1>1, FileIs DEF Inv, TableInv, Uids
  <2>. QED  BY <1>1, <2>1 DEF Inv, TableInv
<1>. QED  BY <1>1, <1>2, <1>3

(* A new account has a free name and a uid of its own.                     *)
LEMMA adduserInv ==
  ASSUME FewCalls, Inv, NEW e \in BOOLEAN, NEW n \in Names, NEW r \in BOOLEAN, NEW h \in Hashes,
         adduser(e, n, r, h)
  PROVE  Inv'
<1>. DEFINE x == NextUid(user_table)
            a == Account(n, h, x, r)
<1>1. Distinct(user_table) /\ user_table \in Seq(Accounts) /\ calls \in 0..MaxCalls
  BY DEF Inv, TableInv, Distinct
<1>2. MaxCalls \in Nat /\ calls < MaxCalls /\ calls' = calls + 1 /\ UIDS \in Nat /\ MaxCalls + 1 < UIDS
  BY UsersAssumption DEF FewCalls, adduser, Command
<1>3. /\ x \in 1..(1 + calls + 1) /\ x \in Uids
      /\ \A i \in DOMAIN user_table : user_table[i].uid # x
  <2>1. \A i \in DOMAIN user_table : user_table[i].uid <= 1 + calls
    BY DEF Inv, TableInv
  <2>2. 1 + calls \in Nat /\ (1 + calls) + 1 < UIDS
    BY <1>1, <1>2
  <2>. QED  BY <1>1, <2>1, <2>2, NextUidIs
<1>4. /\ a \in Accounts /\ a.name = n /\ a.uid = x /\ a.hash = h /\ a.root = r
  BY <1>3, AccountIs
<1>5. user_table' = Append(user_table, a)
  BY DEF adduser
<1>6. \A i \in DOMAIN user_table : user_table[i].name # n
  BY <1>1, GetIs DEF adduser
<1>7. /\ Distinct(user_table') /\ DOMAIN user_table' = DOMAIN user_table \cup {Len(user_table) + 1}
      /\ Len(user_table') = Len(user_table) + 1
      /\ \A i \in DOMAIN user_table : user_table'[i] = user_table[i]
      /\ user_table'[Len(user_table) + 1] = a
  <2>1. \A i \in DOMAIN user_table : user_table[i].name # a.name /\ user_table[i].uid # a.uid
    BY <1>3, <1>4, <1>6
  <2>. HIDE DEF a
  <2>. QED  BY <1>1, <1>4, <1>5, <2>1, Appended
<1>. HIDE DEF a, x
<1>8. UNCHANGED <<usr, home, removed, left, unsaved, session>>
  BY DEF adduser, files
<1>9. pc = "shell" /\ pc' = "home" /\ saving' = n /\ op' = "adduser" /\ op = "none"
  BY DEF adduser, Command, Start, Inv, CommandInv, Saving
<1>10. Settled' = Settled \ {n}
  BY <1>8, <1>9 DEF Settled, Saving
<1>11. TypeOK'
  <2>1. user_table' \in Seq(Accounts)
    BY <1>7 DEF Distinct
  <2>2. Len(user_table') < MAX_USERS
    <3>1. Len(user_table) \in Nat
      BY <1>1, LenProperties
    <3>2. Len(user_table) < MAX_USERS - 1 /\ MAX_USERS \in Nat
      BY UsersAssumption DEF adduser, HasRoom
    <3>. QED  BY <1>7, <3>1, <3>2
  <2>. QED  BY <1>8, <1>9, <2>1, <2>2 DEF adduser, Inv, TableInv, TypeOK, session
<1>12. TableInv'
  <2>1. /\ calls' \in 0..MaxCalls
        /\ \A i \in DOMAIN user_table : user_table[i].uid <= 1 + calls'
        /\ \A k \in DOMAIN usr : usr[k].uid <= 1 + calls'
    BY MoreCalls DEF adduser
  <2>2. a.uid <= 1 + calls'
    BY <1>1, <1>2, <1>3, <1>4
  <2>3. \A i \in DOMAIN user_table' : user_table'[i].uid <= 1 + calls'
    BY <1>7, <2>1, <2>2
  <2>. QED  BY <1>7, <1>8, <1>11, <2>1, <2>2, <2>3 DEF Inv, TableInv
<1>13. CommandInv'
  BY <1>4, <1>7, <1>9 DEF CommandInv, Saving
<1>14. SessionInv'
  <2>1. ~Ends
    BY <1>9 DEF Ends
  <2>2. (pc # "halted" => attempt < MAX_ATTEMPTS)'
    BY <1>9 DEF Inv, SessionInv, adduser
  <2>3. who = "root" => g_session_user = 1
    BY <1>9 DEF Inv, SessionInv
  <2>4. who \notin removed =>
          \E i \in DOMAIN user_table : user_table[i].name = who /\ user_table[i].hash = opened
    BY <1>9, <2>1 DEF Inv, SessionInv
  <2>5. who \notin removed =>
          \E i \in DOMAIN user_table' : user_table'[i].name = who /\ user_table'[i].hash = opened
    BY <1>7, <2>4
  <2>. QED  BY <1>8, <2>2, <2>3, <2>5 DEF SessionInv, session
<1>15. Accounted(user_table', usr, home, removed, left, Settled \ {n})
  <2>1. Follows(user_table', user_table, removed, Settled \ {n})
    BY <1>4, <1>7 DEF Follows
  <2>2. removed \subseteq left /\ removed \subseteq removed /\ left \subseteq left
        /\ Settled \ {n} \subseteq Settled
    BY DEF Inv, TableInv, TypeOK
  <2>3. Accounted(user_table, usr, home, removed, left, Settled)
    BY DEF Inv
  <2>. QED  BY <2>1, <2>2, <2>3, TableChanges
<1>. QED  BY <1>8, <1>10, <1>12, <1>13, <1>14, <1>15 DEF Inv

(* An account that is removed is not root's, and nobody's who is logged in *)
(* when that account was not removed before.                               *)
LEMMA deluserInv ==
  ASSUME FewCalls, Inv, NEW e \in BOOLEAN, NEW n \in Names, deluser(e, n)
  PROVE  Inv'
<1>. DEFINE i == users_get(user_table, n)
<1>1. Distinct(user_table) /\ user_table \in Seq(Accounts)
  BY DEF Inv, TableInv, Distinct
<1>2. i # 0 /\ user_table[i].uid # 0 /\ user_table' = RemoveAt(user_table, i)
  BY DEF deluser, users_remove
<1>3. i \in DOMAIN user_table /\ user_table[i].name = n /\ i # 1
  BY <1>1, <1>2, GetIs DEF Distinct
<1>. HIDE DEF i
<1>4. /\ Distinct(user_table') /\ Len(user_table') = Len(user_table) - 1
      /\ \A j \in DOMAIN user_table' : \E k \in DOMAIN user_table \ {i} : user_table'[j] = user_table[k]
      /\ \A k \in DOMAIN user_table \ {i} : \E j \in DOMAIN user_table' : user_table'[j] = user_table[k]
  BY <1>1, <1>2, <1>3, Removed
<1>5. \A k \in DOMAIN user_table : user_table[k].name = n => k = i
  BY <1>1, <1>3 DEF Distinct
<1>6. /\ UNCHANGED <<usr, home, unsaved, session, pc, op, saving, attempt>>
      /\ removed' = removed \cup {n} /\ left' = left \cup {n}
  BY DEF deluser, files, command
<1>7. pc = "shell" /\ op = "none" /\ ~Saving /\ ~Saving'
  BY <1>6 DEF deluser, Command, Inv, CommandInv, Saving
<1>8. Settled' = Settled \ {n}
  BY <1>6, <1>7 DEF Settled
<1>9. TypeOK'
  <2>1. user_table' \in Seq(Accounts)
    BY <1>4 DEF Distinct
  <2>2. Len(user_table') < MAX_USERS
    <3>1. Len(user_table) \in Nat
      BY <1>1, LenProperties
    <3>2. Len(user_table) < MAX_USERS
      BY DEF Inv, TableInv, TypeOK
    <3>. QED  BY <1>4, <3>1, <3>2, Sizes
  <2>. QED  BY <1>6, <2>1, <2>2 DEF Inv, TableInv, TypeOK, session
<1>10. TableInv'
  <2>1. /\ calls' \in 0..MaxCalls
        /\ \A k \in DOMAIN user_table : user_table[k].uid <= 1 + calls'
        /\ \A k \in DOMAIN usr : usr[k].uid <= 1 + calls'
    BY MoreCalls DEF deluser
  <2>2. \A j \in DOMAIN user_table' : user_table'[j].uid <= 1 + calls'
    BY <1>4, <2>1
  <2>. QED  BY <1>4, <1>6, <1>9, <2>1, <2>2 DEF Inv, TableInv
<1>11. CommandInv'
  BY <1>6, <1>7 DEF CommandInv, Saving
<1>12. SessionInv'
  <2>1. ~Ends /\ attempt < MAX_ATTEMPTS /\ (who = "root" => g_session_user = 1)
    BY <1>7 DEF Ends, Inv, SessionInv
  <2>2. ASSUME who \notin removed'
        PROVE  \E j \in DOMAIN user_table' : user_table'[j].name = who /\ user_table'[j].hash = opened
    <3>1. who \notin removed /\ who # n
      BY <1>6, <2>2
    <3>2. PICK k \in DOMAIN user_table : user_table[k].name = who /\ user_table[k].hash = opened
      BY <1>7, <2>1, <3>1 DEF Inv, SessionInv
    <3>3. k # i
      BY <1>3, <3>1, <3>2
    <3>. QED  BY <1>4, <3>2, <3>3
  <2>. QED  BY <1>6, <2>1, <2>2 DEF SessionInv, session
<1>13. Accounted(user_table', usr, home, removed \cup {n}, left \cup {n}, Settled \ {n})
  <2>1. Follows(user_table', user_table, removed \cup {n}, Settled \ {n})
    <3>1. \A j \in DOMAIN user_table' : \E k \in DOMAIN user_table : user_table[k] = user_table'[j]
      BY <1>4
    <3>2. \A k \in DOMAIN user_table : user_table[k].name # n =>
            \E j \in DOMAIN user_table' : user_table'[j] = user_table[k]
      BY <1>3, <1>4
    <3>. QED  BY <3>1, <3>2 DEF Follows
  <2>2. /\ removed \cup {n} \subseteq left \cup {n} /\ removed \subseteq removed \cup {n}
        /\ left \subseteq left \cup {n} /\ Settled \ {n} \subseteq Settled
    BY DEF Inv, TableInv, TypeOK
  <2>3. Accounted(user_table, usr, home, removed, left, Settled)
    BY DEF Inv
  <2>. QED  BY <2>1, <2>2, <2>3, TableChanges
<1>. QED  BY <1>6, <1>8, <1>10, <1>11, <1>12, <1>13 DEF Inv

(* A new password, of root or of whoever is logged in.                     *)
LEMMA NewPassword ==
  ASSUME FewCalls, Inv, NEW n, NEW i \in DOMAIN user_table, user_table[i].name = n, NEW h \in Hashes,
         Command, user_table' = users_change_password(user_table, n, h),
         NEW o \in {"changerpass", "changempass"}, Start(o, n, "create"),
         UNCHANGED <<session, attempt, files, removed, left, unsaved, faults, boots>>
  PROVE  /\ TableInv' /\ CommandInv'
         /\ Accounted(user_table, usr, home, removed, left, Settled)'
         /\ DOMAIN user_table' = DOMAIN user_table /\ user_table'[1].root
         /\ \A j \in DOMAIN user_table : j # i => user_table'[j] = user_table[j]
<1>1. Distinct(user_table) /\ user_table \in Seq(Accounts)
  BY DEF Inv, TableInv, Distinct
<1>2. user_table' = [user_table EXCEPT ![i].hash = h]
  <2>1. users_get(user_table, n) = i
    BY <1>1, GetFinds
  <2>. QED  BY <2>1 DEF users_change_password
<1>3. /\ Distinct(user_table') /\ DOMAIN user_table' = DOMAIN user_table
      /\ Len(user_table') = Len(user_table)
      /\ \A j \in DOMAIN user_table :
           /\ user_table'[j].name = user_table[j].name /\ user_table'[j].uid = user_table[j].uid
           /\ user_table'[j].root = user_table[j].root
           /\ j # i => user_table'[j] = user_table[j]
  <2>. DEFINE t == [user_table EXCEPT ![i].hash = h]
  <2>1. /\ Distinct(t) /\ DOMAIN t = DOMAIN user_table /\ Len(t) = Len(user_table)
        /\ \A j \in DOMAIN user_table :
             /\ t[j].name = user_table[j].name /\ t[j].uid = user_table[j].uid
             /\ t[j].root = user_table[j].root /\ (j # i => t[j] = user_table[j])
    BY <1>1, Changed
  <2>2. user_table' = t
    BY <1>2
  <2>. HIDE DEF t
  <2>. QED  BY <2>1, <2>2
<1>4. \A k \in DOMAIN user_table : user_table[k].name = n => k = i
  BY <1>1 DEF Distinct
<1>5. UNCHANGED <<usr, home, unsaved, session, removed, left, attempt>>
  BY DEF files
<1>6. pc = "shell" /\ pc' = "create" /\ ~Saving /\ Saving' /\ saving' = n /\ op' = o
  BY DEF Command, Start, Saving
<1>7. Settled' = Settled \ {n}
  BY <1>5, <1>6 DEF Settled
<1>8. n \in Names
  <2>1. user_table[i] \in Accounts
    BY <1>1, LenProperties
  <2>. QED  BY <2>1 DEF Accounts
<1>9. TypeOK'
  <2>1. user_table' \in Seq(Accounts)
    BY <1>3 DEF Distinct
  <2>. QED  BY <1>3, <1>5, <1>6, <1>8, <2>1 DEF Inv, TableInv, TypeOK, session
<1>10. TableInv'
  <2>1. /\ calls' \in 0..MaxCalls
        /\ \A k \in DOMAIN user_table : user_table[k].uid <= 1 + calls'
        /\ \A k \in DOMAIN usr : usr[k].uid <= 1 + calls'
    BY MoreCalls
  <2>2. \A j \in DOMAIN user_table' : user_table'[j].uid <= 1 + calls'
    BY <1>3, <2>1
  <2>. QED  BY <1>3, <1>5, <1>9, <2>1, <2>2 DEF Inv, TableInv
<1>11. CommandInv'
  <2>1. user_table'[i].name = saving'
    BY <1>3, <1>6
  <2>. QED  BY <1>3, <1>6, <2>1 DEF CommandInv, Saving
<1>12. Accounted(user_table', usr, home, removed, left, Settled \ {n})
  <2>1. Follows(user_table', user_table, removed, Settled \ {n})
    BY <1>3, <1>4 DEF Follows
  <2>2. removed \subseteq left /\ removed \subseteq removed /\ left \subseteq left
        /\ Settled \ {n} \subseteq Settled
    BY DEF Inv, TableInv, TypeOK
  <2>3. Accounted(user_table, usr, home, removed, left, Settled)
    BY DEF Inv
  <2>. QED  BY <2>1, <2>2, <2>3, TableChanges
<1>. QED  BY <1>3, <1>5, <1>7, <1>10, <1>11, <1>12 DEF Distinct

LEMMA changerpassInv ==
  ASSUME FewCalls, Inv, NEW e \in BOOLEAN, NEW h \in Hashes, changerpass(e, h)
  PROVE  Inv'
<1>1. 1 \in DOMAIN user_table /\ user_table[1].name = "root"
  BY DEF Inv, TableInv, Distinct
<1>2. /\ TableInv' /\ CommandInv'
      /\ Accounted(user_table, usr, home, removed, left, Settled)'
      /\ DOMAIN user_table' = DOMAIN user_table /\ user_table'[1].root
      /\ \A j \in DOMAIN user_table : j # 1 => user_table'[j] = user_table[j]
  BY <1>1, NewPassword DEF changerpass
<1>3. /\ UNCHANGED <<session, removed, attempt>> /\ pc = "shell" /\ op' = "changerpass" /\ op = "none"
  BY DEF changerpass, Command, Start, Inv, CommandInv, Saving
<1>4. SessionInv'
  <2>1. ~Ends /\ attempt < MAX_ATTEMPTS /\ (who = "root" => g_session_user = 1)
    BY <1>3 DEF Ends, Inv, SessionInv
  <2>2. ASSUME who \notin removed, ~Ends'
        PROVE  \E j \in DOMAIN user_table' : user_table'[j].name = who /\ user_table'[j].hash = opened
    <3>1. PICK k \in DOMAIN user_table : user_table[k].name = who /\ user_table[k].hash = opened
      BY <1>3, <2>1, <2>2 DEF Inv, SessionInv
    <3>2. k # 1
      <4>1. SUFFICES ASSUME k = 1 PROVE FALSE
        OBVIOUS
      <4>2. g_session_user' = 1
        BY <1>1, <1>3, <2>1, <3>1, <4>1 DEF session
      <4>3. Entry(g_session_user)' = user_table'[1]
        BY <1>1, <1>2, <4>2 DEF Entry
      <4>. QED  BY <1>2, <1>3, <2>2, <4>3 DEF Ends
    <3>. QED  BY <1>2, <3>1, <3>2
  <2>. QED  BY <1>3, <2>1, <2>2 DEF SessionInv, session
<1>. QED  BY <1>2, <1>4 DEF Inv

LEMMA changempassInv ==
  ASSUME FewCalls, Inv, NEW h \in Hashes, changempass(h)
  PROVE  Inv'
<1>. DEFINE n == Entry(g_session_user).name
            i == users_get(user_table, n)
<1>1. i \in DOMAIN user_table /\ user_table[i].name = n
  <2>1. user_table \in Seq(Accounts)
    BY DEF Inv, TableInv, Distinct
  <2>2. i # 0
    BY DEF changempass
  <2>. HIDE DEF n
  <2>. QED  BY <2>1, <2>2, GetIs
<1>2. /\ Command /\ user_table' = users_change_password(user_table, n, h)
      /\ Start("changempass", n, "create")
      /\ UNCHANGED <<session, attempt, files, removed, left, unsaved, faults, boots>>
  BY DEF changempass
<1>. HIDE DEF n, i
<1>3. TableInv' /\ CommandInv' /\ Accounted(user_table, usr, home, removed, left, Settled)'
  BY <1>1, <1>2, NewPassword
<1>4. SessionInv'
  <2>1. op' = "changempass" /\ pc = "shell"
    BY <1>2 DEF Start, Command
  <2>2. attempt < MAX_ATTEMPTS /\ (who = "root" => g_session_user = 1)
    BY <2>1 DEF Inv, SessionInv
  <2>3. Ends'
    BY <2>1 DEF Ends
  <2>. QED  BY <1>2, <2>2, <2>3 DEF SessionInv, session
<1>. QED  BY <1>3, <1>4 DEF Inv

(* Until its end a command leaves the session alone.                       *)
LEMMA GoesOn ==
  ASSUME Inv, Saving, Saving', UNCHANGED <<user_table, session, command, attempt, removed>>
  PROVE  SessionInv'
<1>1. pc \notin {"login", "halted"}
  BY DEF Saving
<1>2. pc' \notin {"login", "halted"}
  BY DEF Saving
<1>3. Ends' = Ends
  BY DEF Ends, Entry, command, session
<1>. QED  BY <1>1, <1>2, <1>3 DEF Inv, SessionInv, session

(* Its end: the session goes on only if it was opened with the password    *)
(* that its account still has.                                             *)
LEMMA FinishInv ==
  ASSUME Inv, pc \in {"create", "write"}, Finish, UNCHANGED <<user_table, attempt, removed>>
  PROVE  /\ SessionInv' /\ CommandInv' /\ ~Saving' /\ pc' \in {"login", "shell"}
         /\ op' = "none" /\ saving' = "" /\ g_session_user' \in 0..(MAX_USERS - 1)
<1>1. op' = "none" /\ saving' = ""
  BY DEF Finish
<1>2. \/ pc' = "login" /\ g_session_user' = 0
      \/ pc' = "shell" /\ ~Ends /\ UNCHANGED session
  BY DEF Finish, EndSession, Ends
<1>3. pc' \in {"login", "shell"} /\ ~Saving'
  BY <1>2 DEF Saving
<1>4. CommandInv'
  BY <1>1, <1>3 DEF CommandInv, Saving
<1>5. SessionInv'
  BY <1>2 DEF Inv, SessionInv, session
<1>6. g_session_user' \in 0..(MAX_USERS - 1)
  <2>1. g_session_user \in 0..(MAX_USERS - 1)
    BY DEF Inv, TableInv, TypeOK
  <2>2. 0 \in 0..(MAX_USERS - 1)
    BY Sizes
  <2>. QED  BY <1>2, <2>1, <2>2 DEF session
<1>. QED  BY <1>1, <1>3, <1>4, <1>5, <1>6

(* The home gets the uid of the account.                                   *)
LEMMA CreateHomeInv ==
  ASSUME Inv, CreateHome
  PROVE  Inv'
<1>1. UNCHANGED <<user_table, session, command, attempt, usr, removed, left, unsaved, calls>>
      /\ pc = "home" /\ pc' = "create" /\ Saving /\ Saving'
  BY DEF CreateHome, counts, Saving
<1>2. PICK i \in DOMAIN user_table :
        /\ user_table[i].name = saving /\ saving \in Names
        /\ Uid(saving) = user_table[i].uid /\ Uid(saving) \in Uids
  BY <1>1, SavingIs
<1>3. Settled' = Settled
  BY <1>1 DEF Settled, command
<1>4. home \in [Names -> 0..(UIDS - 1) \cup {NoOwner}]
  BY DEF Inv, TableInv, TypeOK
<1>5. home' \in [Names -> 0..(UIDS - 1) \cup {NoOwner}]
  BY <1>2, <1>4 DEF CreateHome, Uids
<1>6. Homes(user_table, home', left)
  <2>1. Homes(user_table, home, left)
    BY DEF Inv, Accounted
  <2>2. \A n \in Names : home'[n] = home[n] \/ (n = saving /\ home'[n] = user_table[i].uid)
    BY <1>2, <1>4 DEF CreateHome
  <2>. QED  BY <1>2, <2>1, <2>2 DEF Homes
<1>7. TypeOK'
  BY <1>1, <1>5 DEF Inv, TableInv, TypeOK, session, command
<1>8. TableInv'
  BY <1>1, <1>7 DEF Inv, TableInv
<1>9. CommandInv'
  BY <1>1 DEF Inv, CommandInv, command
<1>10. SessionInv'
  BY <1>1, GoesOn
<1>. QED  BY <1>1, <1>3, <1>6, <1>8, <1>9, <1>10 DEF Inv, Accounted

LEMMA CreateHomeFailsInv ==
  ASSUME Inv, CreateHomeFails
  PROVE  Inv'
<1>1. UNCHANGED <<user_table, session, command, attempt, files, removed, left, unsaved, calls>>
      /\ pc = "home" /\ pc' = "create" /\ Saving /\ Saving'
  BY DEF CreateHomeFails, Saving
<1>2. TypeOK'
  BY <1>1 DEF Inv, TableInv, TypeOK, session, command, files
<1>3. CommandInv'
  BY <1>1 DEF Inv, CommandInv, command
<1>4. SessionInv'
  BY <1>1, GoesOn
<1>. QED  BY <1>1, <1>2, <1>3, <1>4, Quiet DEF Inv, TableInv

(* The file of the uid, which is there in the end.                         *)
LEMMA CreatedIs ==
  ASSUME Inv, Saving
  PROVE  /\ FilesOK(Created) /\ (\A k \in DOMAIN Created : Created[k].uid <= 1 + calls)
         /\ \E k \in DOMAIN Created : Created[k].uid = Uid(saving)
         /\ Accounted(user_table, Created, home, removed, left, Settled)
<1>1. PICK i \in DOMAIN user_table : Uid(saving) = user_table[i].uid /\ Uid(saving) \in Uids
  BY SavingIs
<1>2. /\ FilesOK(usr) /\ Accounted(user_table, usr, home, removed, left, Settled)
      /\ \A k \in DOMAIN usr : usr[k].uid <= 1 + calls
  BY DEF Inv, TableInv
<1>3. CASE \E k \in DOMAIN usr : usr[k].uid = Uid(saving)
  BY <1>2, <1>3 DEF Created
<1>4. CASE ~ \E k \in DOMAIN usr : usr[k].uid = Uid(saving)
  <2>. DEFINE x == Uid(saving)
              f == [uid |-> x, rec |-> Empty]
  <2>1. Created = Append(usr, f)
    BY <1>4 DEF Created
  <2>2. /\ f \in [uid : Uids, rec : Recs] /\ f.rec = Empty /\ f.uid = x
        /\ \A k \in DOMAIN usr : usr[k].uid # f.uid
    BY <1>1, <1>4 DEF Recs
  <2>3. x <= 1 + calls
    BY <1>1 DEF Inv, TableInv
  <2>. HIDE DEF x, f
  <2>4. /\ FilesOK(Created) /\ Accounted(user_table, Created, home, removed, left, Settled)
        /\ (\A k \in DOMAIN Created : Created[k] = f \/ \E l \in DOMAIN usr : Created[k] = usr[l])
        /\ \E k \in DOMAIN Created : Created[k] = f
    <3>1. FilesOK(usr) /\ Accounted(user_table, usr, home, removed, left, Settled)
      BY <1>2
    <3>. QED  BY <2>1, <2>2, <3>1, FileCreated
  <2>5. \A k \in DOMAIN Created : Created[k].uid <= 1 + calls
    BY <1>2, <2>2, <2>3, <2>4
  <2>. QED  BY <2>2, <2>4, <2>5 DEF x
<1>. QED  BY <1>3, <1>4

LEMMA CreateFileInv ==
  ASSUME Inv, CreateFile
  PROVE  Inv'
<1>1. UNCHANGED <<user_table, session, command, attempt, home, removed, left, unsaved, calls>>
      /\ pc = "create" /\ pc' = "write" /\ Saving /\ Saving' /\ usr' = Created
  BY DEF CreateFile, counts, Saving
<1>2. Settled' = Settled
  BY <1>1 DEF Settled, command
<1>3. /\ FilesOK(usr') /\ (\A k \in DOMAIN usr' : usr'[k].uid <= 1 + calls)
      /\ (\E k \in DOMAIN usr' : usr'[k].uid = Uid(saving))
      /\ Accounted(user_table, usr', home, removed, left, Settled)
  BY <1>1, CreatedIs
<1>4. \A k \in DOMAIN usr' : usr'[k].uid \in 0..(UIDS - 1) /\ usr'[k].rec \in Accounts \cup {Empty}
  BY <1>3, FileIs DEF Uids, Recs
<1>5. TypeOK'
  BY <1>1, <1>4 DEF Inv, TableInv, TypeOK, session, command
<1>6. TableInv'
  BY <1>1, <1>3, <1>5 DEF Inv, TableInv
<1>7. CommandInv'
  BY <1>1, <1>3 DEF Inv, CommandInv, command, Uid
<1>8. SessionInv'
  BY <1>1, GoesOn
<1>. QED  BY <1>1, <1>2, <1>3, <1>6, <1>7, <1>8 DEF Inv

(* Writing the file settles the account unless a namesake was removed.     *)
LEMMA WrittenIs ==
  ASSUME Inv, pc = "write"
  PROVE  /\ FilesOK(Written) /\ (\A k \in DOMAIN Written : Written[k].uid <= 1 + calls)
         /\ Accounted(user_table, Written, home, removed, left, (Settled \cup {saving}) \ removed)
<1>1. Saving
  BY DEF Saving
<1>2. PICK i \in DOMAIN user_table :
        /\ users_get(user_table, saving) = i /\ user_table[i].name = saving
        /\ user_table[i] \in Accounts /\ Uid(saving) = user_table[i].uid
  BY <1>1, SavingIs
<1>. DEFINE a == user_table[i]
            v == Written
<1>3. v = [k \in DOMAIN usr |-> IF usr[k].uid = a.uid THEN [usr[k] EXCEPT !.rec = a] ELSE usr[k]]
  BY <1>2 DEF Written
<1>4. /\ FilesOK(usr) /\ Distinct(user_table)
      /\ Accounted(user_table, usr, home, removed, left, Settled)
      /\ \A k \in DOMAIN usr : usr[k].uid <= 1 + calls
  BY DEF Inv, TableInv
<1>5. \E k \in DOMAIN usr : usr[k].uid = a.uid
  BY <1>2 DEF Inv, CommandInv
<1>6. a \in Accounts /\ user_table[i] = a /\ a.name = saving
  BY <1>2
<1>. HIDE DEF a, v
<1>7. /\ FilesOK(v) /\ DOMAIN v = DOMAIN usr /\ (\A k \in DOMAIN usr : v[k].uid = usr[k].uid)
      /\ \A t, L : Named(t, usr, L) /\ (\E j \in DOMAIN t : t[j] = a) => Named(t, v, L)
  BY <1>3, <1>4, <1>6, FilesStay
<1>8. Saved(user_table, v, removed, (Settled \cup {a.name}) \ removed)
  <2>1. Pd(user_table, removed) /\ Saved(user_table, usr, removed, Settled)
    BY <1>4 DEF Accounted
  <2>. QED  BY <1>3, <1>4, <1>5, <1>6, <2>1, FileWritten
<1>9. Accounted(user_table, v, home, removed, left, (Settled \cup {saving}) \ removed)
  BY <1>4, <1>6, <1>7, <1>8 DEF Accounted
<1>. QED  BY <1>4, <1>7, <1>9 DEF v

(* Names less settled.                                                     *)
LEMMA LessSettled ==
  ASSUME NEW t, NEW u, NEW h, NEW R, NEW L, NEW C, NEW D, D \subseteq C, Accounted(t, u, h, R, L, C)
  PROVE  Accounted(t, u, h, R, L, D)
BY DEF Accounted, Saved, OnDisk, Known, Passwords

LEMMA WriteFileInv ==
  ASSUME Inv, WriteFile
  PROVE  Inv'
<1>1. UNCHANGED <<user_table, attempt, home, removed, left, calls>>
      /\ pc = "write" /\ usr' = Written /\ unsaved' = unsaved \ {saving} /\ Finish
  BY DEF WriteFile, counts
<1>2. /\ SessionInv' /\ CommandInv' /\ ~Saving' /\ pc' \in {"login", "shell"}
      /\ op' = "none" /\ saving' = "" /\ g_session_user' \in 0..(MAX_USERS - 1)
  BY <1>1, FinishInv
<1>3. /\ FilesOK(usr') /\ (\A k \in DOMAIN usr' : usr'[k].uid <= 1 + calls)
      /\ Accounted(user_table, usr', home, removed, left, (Settled \cup {saving}) \ removed)
  BY <1>1, WrittenIs
<1>4. Settled' \subseteq (Settled \cup {saving}) \ removed
  BY <1>1, <1>2 DEF Settled
<1>5. Accounted(user_table, usr', home, removed, left, Settled')
  BY <1>3, <1>4, LessSettled
<1>6. \A k \in DOMAIN usr' : usr'[k].uid \in 0..(UIDS - 1) /\ usr'[k].rec \in Accounts \cup {Empty}
  BY <1>3, FileIs DEF Uids, Recs
<1>7. TypeOK'
  BY <1>1, <1>2, <1>6 DEF Inv, TableInv, TypeOK
<1>8. TableInv'
  BY <1>1, <1>3, <1>7 DEF Inv, TableInv
<1>. QED  BY <1>1, <1>2, <1>5, <1>8 DEF Inv

(* A save that fails, before or after the file is changed.                 *)
LEMMA SaveFailsInv ==
  ASSUME Inv, SaveFails
  PROVE  Inv'
<1>1. UNCHANGED <<user_table, attempt, home, removed, left, calls>>
      /\ pc \in {"create", "write"} /\ Saving /\ unsaved' = unsaved \cup {saving} /\ Finish
  BY DEF SaveFails, Saving
<1>2. /\ SessionInv' /\ CommandInv' /\ ~Saving' /\ pc' \in {"login", "shell"}
      /\ op' = "none" /\ saving' = "" /\ g_session_user' \in 0..(MAX_USERS - 1)
  BY <1>1, FinishInv
<1>3. Settled' = Settled
  BY <1>1, <1>2 DEF Settled
<1>4. saving \in Names
  BY <1>1, SavingIs
<1>5. /\ FilesOK(usr') /\ (\A k \in DOMAIN usr' : usr'[k].uid <= 1 + calls)
      /\ Accounted(user_table, usr', home, removed, left, Settled)
  <2>1. CASE usr' = usr
    BY <2>1 DEF Inv, TableInv
  <2>2. CASE usr' = Created
    BY <1>1, <2>2, CreatedIs
  <2>3. CASE usr' = Written /\ pc = "write"
    <3>1. /\ FilesOK(Written) /\ (\A k \in DOMAIN Written : Written[k].uid <= 1 + calls)
          /\ Accounted(user_table, Written, home, removed, left, (Settled \cup {saving}) \ removed)
      BY <2>3, WrittenIs
    <3>2. Settled \subseteq (Settled \cup {saving}) \ removed
      BY DEF Settled
    <3>3. Accounted(user_table, Written, home, removed, left, Settled)
      BY <3>1, <3>2, LessSettled
    <3>. QED  BY <2>3, <3>1, <3>3
  <2>. QED  BY <1>1, <2>1, <2>2, <2>3 DEF SaveFails
<1>6. \A k \in DOMAIN usr' : usr'[k].uid \in 0..(UIDS - 1) /\ usr'[k].rec \in Accounts \cup {Empty}
  BY <1>5, FileIs DEF Uids, Recs
<1>7. TypeOK'
  BY <1>1, <1>2, <1>4, <1>6 DEF Inv, TableInv, TypeOK
<1>8. TableInv'
  BY <1>1, <1>5, <1>7 DEF Inv, TableInv
<1>. QED  BY <1>1, <1>2, <1>3, <1>5, <1>8 DEF Inv

(* A boot at any step, of the files as that step left them.                *)
LEMMA BootInv ==
  ASSUME Inv, Boot
  PROVE  Inv'
<1>. DEFINE s == user_table'
            new == { n \in Names : users_get(user_table, n) # 0 /\ users_get(s, n) = 0 }
<1>1. /\ s = Booted(usr) /\ left' = left \cup new
      /\ UNCHANGED <<usr, home, removed, calls>>
      /\ pc' = "login" /\ op' = "none" /\ saving' = "" /\ g_session_user' = 0
      /\ attempt' = 0 /\ unsaved' = {}
  BY DEF Boot, files
<1>2. /\ Distinct(user_table) /\ user_table \in Seq(Accounts) /\ FilesOK(usr)
      /\ Accounted(user_table, usr, home, removed, left, Settled) /\ removed \subseteq left
  BY DEF Inv, TableInv, TypeOK, Distinct
<1>3. Loads(s, usr, Len(usr))
  BY <1>1, <1>2, BootedIs
<1>4. Distinct(s) /\ s \in Seq(Accounts)
  BY <1>3 DEF Loads, Distinct
<1>. HIDE DEF s
<1>5. \A i \in DOMAIN s : s[i].uid <= 1 + calls
  <2>1. ASSUME NEW i \in DOMAIN s PROVE s[i].uid <= 1 + calls
    <3>1. i \in Nat \ {0}
      BY <1>4, LenProperties
    <3>2. calls \in Nat
      BY DEF Inv, TableInv
    <3>3. CASE i = 1 \/ i = 2
      <4>1. s[i].uid \in {0, 1}
        BY <1>3, <1>4, <3>3 DEF Loads, Distinct
      <4>. QED  BY <3>2, <4>1
    <3>4. CASE i > 2
      <4>1. PICK l \in 1..Len(usr) : Loadable(usr[l]) /\ s[i] = usr[l].rec
        BY <1>3, <3>4 DEF Loads
      <4>2. l \in DOMAIN usr
        <5>1. usr \in Seq([uid : Uids, rec : Recs])
          BY <1>2 DEF FilesOK
        <5>. QED  BY <4>1, <5>1, LenProperties
      <4>3. usr[l].rec.uid = usr[l].uid
        BY <1>2, <4>1, <4>2, FileIs DEF Loadable
      <4>. QED  BY <4>1, <4>2, <4>3 DEF Inv, TableInv
    <3>. QED  BY <3>1, <3>3, <3>4
  <2>. QED  BY <2>1
<1>6. Saved(s, usr, removed, Settled') /\ Pd(s, removed)
  BY <1>2, <1>3, BootSaves DEF Accounted, Saved
<1>7. ASSUME NEW n \in Names \ (left \cup new), NEW i \in DOMAIN user_table, user_table[i].name = n
      PROVE  \E j \in DOMAIN s : s[j].name = n /\ s[j].uid = user_table[i].uid
  <2>. DEFINE j == users_get(s, n)
  <2>1. users_get(user_table, n) # 0
    BY <1>2, <1>7, GetIs
  <2>2. j # 0
    BY <1>7, <2>1
  <2>3. j \in DOMAIN s /\ s[j].name = n
    BY <1>4, <2>2, GetIs
  <2>. HIDE DEF j
  <2>4. s[j].uid = user_table[i].uid
    BY <1>2, <1>3, <1>7, <2>3, BootKeepsUids DEF Accounted
  <2>. QED  BY <2>3, <2>4
<1>8. Homes(s, home, left \cup new)
  <2>. SUFFICES ASSUME NEW n \in Names \ (left \cup new), home[n] # NoOwner
                PROVE  \E j \in DOMAIN s : s[j].name = n /\ s[j].uid = home[n]
    BY DEF Homes
  <2>1. PICK i \in DOMAIN user_table : user_table[i].name = n /\ user_table[i].uid = home[n]
    BY <1>2 DEF Accounted, Homes
  <2>. QED  BY <1>7, <2>1
<1>9. Named(s, usr, left \cup new)
  <2>. SUFFICES ASSUME NEW k \in DOMAIN usr, Loadable(usr[k]), usr[k].rec.name \notin left \cup new
                PROVE  \E j \in DOMAIN s : s[j].name = usr[k].rec.name /\ s[j].uid = usr[k].uid
    BY DEF Named
  <2>1. PICK i \in DOMAIN user_table : user_table[i].name = usr[k].rec.name /\ user_table[i].uid = usr[k].uid
    BY <1>2 DEF Accounted, Named
  <2>2. usr[k].rec.name \in Names
    BY <1>2, FileIs DEF Loadable, Accounts
  <2>. QED  BY <1>7, <2>1, <2>2
<1>10. TypeOK'
  <2>1. Len(s) < MAX_USERS
    BY <1>3 DEF Loads
  <2>2. 0 \in 0..(MAX_USERS - 1)
    BY Sizes
  <2>3. 0 \in 0..MAX_ATTEMPTS
    BY Sizes
  <2>. QED  BY <1>1, <1>4, <2>1, <2>2, <2>3 DEF Inv, TableInv, TypeOK, s
<1>11. TableInv'
  BY <1>1, <1>2, <1>4, <1>5, <1>10 DEF Inv, TableInv, s
<1>12. CommandInv'
  BY <1>1 DEF CommandInv, Saving
<1>13. SessionInv'
  BY <1>1, Sizes DEF SessionInv
<1>. QED  BY <1>1, <1>6, <1>8, <1>9, <1>11, <1>12, <1>13 DEF Inv, Accounted, s

-----------------------------------------------------------------------------
(* The first state: no files, and the accounts that are built in.          *)
LEMMA InitInv ==
  ASSUME FewCalls, Init
  PROVE  Inv
<1>1. user_table = BuiltIn /\ usr = <<>> /\ removed = {} /\ left = {} /\ unsaved = {}
      /\ pc = "login" /\ op = "none" /\ saving = "" /\ attempt = 0 /\ calls = 0 /\ g_session_user = 0
      /\ home = [n \in Names |-> IF n = "pd" THEN 1 ELSE NoOwner]
  BY DEF Init
<1>2. BuiltIn \in Seq(Accounts) /\ Len(BuiltIn) = 2
  BY BuiltInIs
<1>3. DOMAIN BuiltIn = 1..2
  BY <1>2, LenProperties
<1>4. /\ BuiltIn[1].name = "root" /\ BuiltIn[1].uid = 0 /\ BuiltIn[1].root
      /\ BuiltIn[2].name = "pd" /\ BuiltIn[2].uid = 1 /\ ~BuiltIn[2].root
  BY BuiltInIs DEF Account
<1>5. Distinct(BuiltIn)
  <2>1. BuiltIn \in Seq(Accounts)
    BY <1>2
  <2>. QED  BY <1>3, <1>4, <2>1 DEF Distinct
<1>6. FilesOK(<<>>) /\ DOMAIN <<>> = {}
  BY DEF FilesOK
<1>7. TypeOK
  <2>1. 0 \in 0..(MAX_USERS - 1) /\ 2 < MAX_USERS
    BY Sizes
  <2>2. 0 \in 0..MAX_ATTEMPTS
    BY Sizes
  <2>3. 1 \in 0..(UIDS - 1)
    BY Sizes
  <2>4. user_table \in Seq(Accounts) /\ Len(user_table) < MAX_USERS
    BY <1>1, <1>2, <2>1
  <2>. QED  BY <1>1, <1>6, <2>1, <2>2, <2>3, <2>4 DEF TypeOK
<1>8. TableInv
  <2>1. 0 \in 0..MaxCalls
    BY DEF FewCalls
  <2>2. \A i \in DOMAIN BuiltIn : BuiltIn[i].uid <= 1 + 0
    BY <1>3, <1>4
  <2>. QED  BY <1>1, <1>5, <1>6, <1>7, <2>1, <2>2 DEF TableInv
<1>9. CommandInv /\ SessionInv
  BY <1>1, Sizes DEF CommandInv, SessionInv, Saving
<1>10. Accounted(user_table, usr, home, removed, left, Settled)
  <2>1. Pd(BuiltIn, {})
    BY <1>3, <1>4 DEF Pd
  <2>2. Homes(BuiltIn, home, {})
    <3>1. \A n \in Names : home[n] # NoOwner => n = "pd" /\ home[n] = 1
      BY <1>1
    <3>2. 2 \in DOMAIN BuiltIn
      BY <1>3
    <3>. QED  BY <1>4, <3>1, <3>2 DEF Homes
  <2>3. Named(BuiltIn, <<>>, {})
    BY <1>6 DEF Named
  <2>4. OnDisk(BuiltIn, <<>>, Settled)
    BY <1>3, <1>4 DEF OnDisk
  <2>5. Known(BuiltIn, <<>>, {}, Settled)
    BY <1>6 DEF Known
  <2>6. Passwords(BuiltIn, <<>>, Settled)
    <3>. SUFFICES ASSUME NEW b \in {1, 2}, NEW i \in DOMAIN BuiltIn, BuiltIn[i].name = BuiltIn[b].name
                  PROVE  HashIs(<<>>, DOMAIN <<>>, BuiltIn[b], BuiltIn[i].hash)
      BY DEF Passwords
    <3>1. i = b
      BY <1>3, <1>4
    <3>. QED  BY <1>6, <3>1 DEF HashIs
  <2>. QED  BY <1>1, <2>1, <2>2, <2>3, <2>4, <2>5, <2>6 DEF Accounted, Saved
<1>. QED  BY <1>8, <1>9, <1>10 DEF Inv

(* Every step keeps the invariant.                                         *)
LEMMA StepInv ==
  ASSUME FewCalls, Inv, [Next]_vars
  PROVE  Inv'
<1>1. CASE \E n \in Names, h \in Hashes : LoginOk(n, h)
  BY <1>1, LoginOkInv
<1>2. CASE LoginFails
  BY <1>2, LoginFailsInv
<1>3. CASE Logout
  BY <1>3, LogoutInv
<1>4. CASE \E e \in BOOLEAN, n \in Names, a \in BOOLEAN, h \in Hashes : adduser(e, n, a, h)
  BY <1>4, adduserInv
<1>5. CASE \E e \in BOOLEAN, n \in Names : deluser(e, n)
  BY <1>5, deluserInv
<1>6. CASE \E e \in BOOLEAN, h \in Hashes : changerpass(e, h)
  BY <1>6, changerpassInv
<1>7. CASE \E h \in Hashes : changempass(h)
  BY <1>7, changempassInv
<1>8. CASE CreateHome
  BY <1>8, CreateHomeInv
<1>9. CASE CreateHomeFails
  BY <1>9, CreateHomeFailsInv
<1>10. CASE CreateFile
  BY <1>10, CreateFileInv
<1>11. CASE WriteFile
  BY <1>11, WriteFileInv
<1>12. CASE SaveFails
  BY <1>12, SaveFailsInv
<1>13. CASE Boot
  BY <1>13, BootInv
<1>14. CASE UNCHANGED vars
  <2>1. UNCHANGED <<user_table, command, files, removed, left, unsaved, calls, session, pc, attempt>>
    BY <1>14 DEF vars, counts
  <2>2. Saving' <=> Saving
    BY <2>1 DEF Saving
  <2>3. TypeOK'
    BY <2>1 DEF Inv, TableInv, TypeOK, session, command, files
  <2>4. CommandInv'
    BY <2>1, <2>2 DEF Inv, CommandInv, command, files, Uid
  <2>5. SessionInv'
    BY <2>1 DEF Inv, SessionInv, Ends, Entry, command, session
  <2>. QED  BY <2>1, <2>2, <2>3, <2>4, <2>5, Quiet DEF Inv, TableInv
<1>. QED  BY <1>1, <1>2, <1>3, <1>4, <1>5, <1>6, <1>7, <1>8, <1>9, <1>10, <1>11, <1>12, <1>13, <1>14 DEF Next

(* The accounts, the files and the homes fit together, in every state.     *)
THEOREM Invariance == ASSUME FewCalls PROVE Spec => []Inv
<1>1. Init => Inv
  BY InitInv
<1>2. Inv /\ [Next]_vars => Inv'
  BY StepInv
<1>. QED  BY <1>1, <1>2, PTL DEF Spec

-----------------------------------------------------------------------------
(* What follows *)

(* Entries of the table stay accounts, and there is always a zeroed entry  *)
(* behind the last, which is what every search of users.c stops at.        *)
THEOREM TypeCorrect == ASSUME FewCalls PROVE Spec => []TypeOK
<1>1. Inv => TypeOK
  BY DEF Inv, TableInv
<1>. QED  BY <1>1, Invariance, PTL

(* No two accounts share a name or a uid and root keeps the first slot,    *)
(* whatever users_add, users_remove and users_load_from_disk do, until the *)
(* uids are used up.                                                       *)
THEOREM AccountsStayDistinct == ASSUME FewCalls PROVE Spec => []AccountsDistinct
<1>1. Inv => AccountsDistinct
  BY DEF Inv, TableInv, Distinct, AccountsDistinct
<1>. QED  BY <1>1, Invariance, PTL

(* A session does not outlive the password it was opened with: changempass *)
(* and changerpass end every session they make stale.                      *)
THEOREM SessionStaysFresh == ASSUME FewCalls PROVE Spec => []SessionFresh
<1>1. ASSUME Inv PROVE SessionFresh
  <2>. SUFFICES ASSUME pc = "shell", who \notin removed,
                       NEW i \in DOMAIN user_table, user_table[i].name = who
                PROVE  user_table[i].hash = opened
    BY DEF SessionFresh
  <2>1. op = "none"
    BY <1>1 DEF Inv, CommandInv, Saving
  <2>2. PICK j \in DOMAIN user_table : user_table[j].name = who /\ user_table[j].hash = opened
    BY <1>1, <2>1 DEF Inv, SessionInv, Ends
  <2>3. i = j
    BY <1>1, <2>2 DEF Inv, TableInv, Distinct
  <2>. QED  BY <2>2, <2>3
<1>. QED  BY <1>1, Invariance, PTL

(* A home directory belongs to the account it is named after, across boots,*)
(* unless an account of that name was lost before.                         *)
THEOREM OwnsItsHome == ASSUME FewCalls PROVE Spec => []OwnsHome
<1>1. ASSUME Inv PROVE OwnsHome
  <2>. SUFFICES ASSUME NEW i \in DOMAIN user_table,
                       home[user_table[i].name] # NoOwner, user_table[i].name \notin left
                PROVE  home[user_table[i].name] = user_table[i].uid
    BY DEF OwnsHome
  <2>1. user_table[i].name \in Names
    <3>1. user_table \in Seq(Accounts)
      BY <1>1 DEF Inv, TableInv, Distinct
    <3>2. user_table[i] \in Accounts
      BY <3>1, LenProperties
    <3>. QED  BY <3>2 DEF Accounts
  <2>2. PICK j \in DOMAIN user_table :
          user_table[j].name = user_table[i].name /\ user_table[j].uid = home[user_table[i].name]
    BY <1>1, <2>1 DEF Inv, Accounted, Homes
  <2>3. i = j
    BY <1>1, <2>2 DEF Inv, TableInv, Distinct
  <2>. QED  BY <2>2, <2>3
<1>. QED  BY <1>1, Invariance, PTL

(* The files determine the password of a built-in account.                 *)
LEMMA HashUnique ==
  ASSUME NEW u, NEW K, NEW x, NEW g, NEW h, HashIs(u, K, x, g), HashIs(u, K, x, h)
  PROVE  g = h
BY DEF HashIs

(* Two tables that agree with the same files agree on the settled accounts *)
LEMMA SavedAgree ==
  ASSUME NEW t, Distinct(t), NEW s, Distinct(s), NEW u, FilesOK(u), Room(u), NEW R, NEW C,
         C \cap R = {}, Pd(t, R), Pd(s, R), Saved(t, u, R, C), Saved(s, u, R, C),
         NEW i \in DOMAIN t, t[i].name \in C, t[i].uid = 1 => t[i].name = "pd"
  PROVE  \E j \in DOMAIN s : s[j] = t[i]
<1>1. t \in Seq(Accounts) /\ t[i] \in Accounts
  <2>1. t \in Seq(Accounts)
    BY DEF Distinct
  <2>. QED  BY <2>1, LenProperties
<1>2. \A j \in DOMAIN s : s[j] \in Accounts
  <2>1. s \in Seq(Accounts)
    BY DEF Distinct
  <2>. QED  BY <2>1, LenProperties
<1>3. BuiltIn[1].name = "root" /\ BuiltIn[2].name = "pd"
  BY BuiltInIs DEF Account
<1>4. CASE t[i].uid = 0
  <2>1. i = 1
    BY <1>4 DEF Distinct
  <2>2. /\ t[i].name = "root" /\ s[1].name = "root" /\ 1 \in DOMAIN s
        /\ t[i].uid = s[1].uid /\ t[i].root /\ s[1].root
    BY <2>1 DEF Distinct
  <2>3. HashIs(u, DOMAIN u, BuiltIn[1], t[i].hash) /\ HashIs(u, DOMAIN u, BuiltIn[1], s[1].hash)
    BY <1>3, <2>2 DEF Saved, Passwords
  <2>4. t[i].hash = s[1].hash
    BY <2>3, HashUnique
  <2>5. t[i].root = s[1].root
    BY <1>1, <1>2, <2>2 DEF Accounts
  <2>. QED  BY <1>1, <1>2, <2>2, <2>4, <2>5, SameAccount
<1>5. CASE t[i].uid = 1
  <2>1. t[i].name = "pd" /\ "pd" \notin R
    BY <1>5
  <2>2. PICK k \in DOMAIN t : t[k].name = "pd" /\ t[k].uid = 1 /\ ~t[k].root
    BY <2>1 DEF Pd
  <2>3. k = i
    BY <2>1, <2>2 DEF Distinct
  <2>4. PICK j \in DOMAIN s : s[j].name = "pd" /\ s[j].uid = 1 /\ ~s[j].root
    BY <2>1 DEF Pd
  <2>5. HashIs(u, DOMAIN u, BuiltIn[2], t[i].hash) /\ HashIs(u, DOMAIN u, BuiltIn[2], s[j].hash)
    BY <1>3, <2>1, <2>4 DEF Saved, Passwords
  <2>6. t[i].hash = s[j].hash
    BY <2>5, HashUnique
  <2>7. t[i].root = s[j].root
    BY <1>1, <1>2, <2>2, <2>3, <2>4 DEF Accounts
  <2>. QED  BY <1>1, <1>2, <1>5, <2>1, <2>4, <2>6, <2>7, SameAccount
<1>6. CASE t[i].uid # 0 /\ t[i].uid # 1
  <2>1. t[i].uid > 1
    BY <1>1, <1>6, Sizes DEF Accounts
  <2>2. PICK k \in DOMAIN u : u[k].rec = t[i]
    BY <2>1 DEF Saved, OnDisk
  <2>3. Loadable(u[k])
    <3>1. u[k].rec # Empty
      BY <1>1, <2>2, EmptyIs
    <3>2. u[k].uid = t[i].uid
      BY <2>2, <3>1 DEF FilesOK
    <3>. QED  BY <2>1, <3>1, <3>2 DEF Loadable
  <2>4. u[k].rec.name \notin R
    BY <2>2
  <2>5. PICK j \in DOMAIN s : s[j].name = u[k].rec.name /\ (s[j].name \in C => s[j] = u[k].rec)
    BY <2>3, <2>4 DEF Saved, Known
  <2>. QED  BY <2>2, <2>5
<1>. QED  BY <1>4, <1>5, <1>6

(* "Survives reboot": between commands a boot would build the accounts that*)
(* are in memory and no others, with the same passwords, uids and rights,  *)
(* whatever was interrupted or failed before, but for the accounts whose   *)
(* save failed or that share a name with one that was removed.             *)
THEOREM RebootRestoresAll == ASSUME FewCalls PROVE Spec => []RebootRestores
<1>1. ASSUME Inv PROVE RebootRestores
  <2>. SUFFICES ASSUME pc \in {"login", "shell", "halted"}, RoomForFiles
                PROVE  Kept(Booted(usr)) = Kept(user_table)
    BY DEF RebootRestores
  <2>. DEFINE s == Booted(usr)
  <2>1. /\ Distinct(user_table) /\ FilesOK(usr) /\ Pd(user_table, removed)
        /\ Saved(user_table, usr, removed, Settled) /\ Known(user_table, usr, removed, Settled)
    BY <1>1 DEF Inv, TableInv, Accounted, Saved
  <2>2. Loads(s, usr, Len(usr))
    BY <2>1, BootedIs
  <2>. HIDE DEF s
  <2>3. Distinct(s)
    BY <2>2 DEF Loads
  <2>4. Saved(s, usr, removed, Settled) /\ Pd(s, removed)
    BY <2>1, <2>2, BootSaves
  <2>5. Room(usr)
    BY DEF RoomForFiles, Room
  <2>6. Settled \cap removed = {}
    BY DEF Settled
  <2>7. \A n \in Names : n \notin removed \cup unsaved => n \in Settled
    BY DEF Settled, Saving
  <2>8. ASSUME NEW t, Distinct(t), NEW i \in DOMAIN t PROVE t[i].name \in Names
    <3>1. t \in Seq(Accounts)
      BY <2>8 DEF Distinct
    <3>2. t[i] \in Accounts
      BY <3>1, LenProperties
    <3>. QED  BY <3>2 DEF Accounts
  <2>9. ASSUME NEW a \in Kept(s) PROVE a \in Kept(user_table)
    <3>1. PICK i \in DOMAIN s : s[i] = a
      BY DEF Kept
    <3>2. s[i].name \in Settled /\ (s[i].uid = 1 => s[i].name = "pd")
      BY <2>3, <2>7, <2>8, <3>1 DEF Kept
    <3>3. \E j \in DOMAIN user_table : user_table[j] = s[i]
      BY <2>1, <2>3, <2>4, <2>5, <2>6, <3>2, SavedAgree
    <3>. QED  BY <3>1, <3>3 DEF Kept
  <2>10. ASSUME NEW a \in Kept(user_table) PROVE a \in Kept(s)
    <3>1. PICK i \in DOMAIN user_table : user_table[i] = a
      BY DEF Kept
    <3>2. user_table[i].name \in Settled /\ (user_table[i].uid = 1 => user_table[i].name = "pd")
      BY <2>1, <2>7, <2>8, <3>1 DEF Kept
    <3>3. \E j \in DOMAIN s : s[j] = user_table[i]
      BY <2>1, <2>3, <2>4, <2>5, <2>6, <3>2, SavedAgree
    <3>. QED  BY <3>1, <3>3 DEF Kept
  <2>11. Kept(s) = Kept(user_table)
    BY <2>9, <2>10
  <2>. QED  BY <2>11 DEF s
<1>. QED  BY <1>1, Invariance, PTL
=============================================================================
