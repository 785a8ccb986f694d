------------------------------- MODULE Accounts -------------------------------
(***************************************************************************)
(* The user store (internal/auth/users.go) and how the process starts      *)
(* (main.go): every change of the users is made in memory and then written *)
(* as one encrypted file, users.enc, over the old one.  The key comes from *)
(* the configuration, which may be edited between two starts.              *)
(*                                                                         *)
(* Faults are those of ManifestStore: "crash", "torn", "error".  Passwords *)
(* and their hashes are left out: whether a password is right is open.     *)
(***************************************************************************)
EXTENDS Configuration

CONSTANTS Names,     \* usernames; Bootstrap makes "admin"
          Configs,   \* [encryption: [inline, env], environ] the process may be started with
          SecretOf,  \* config -> the secret its author meant
          Faults, MaxFaults,  \* which faults may happen, and how many
          MaxChanges,  \* bound: changes of the configuration
          Absent, Torn

Roles == {"viewer", "operator", "admin"}
Tables == UNION {[S -> Roles] : S \in SUBSET Names}
NoUsers == [u \in {} |-> "viewer"]
KeyUnder(c) == EncryptionKey(c.encryption, c.environ)

\* The first user has a name, and the faults are those described above.
ASSUME AccountsAssumption == /\ "admin" \in Names /\ Faults \subseteq {"crash", "torn", "error"}
                             /\ MaxFaults \in Nat /\ MaxChanges \in Nat

\* The text a configuration has for its secret, once Load has put it in its place.
TextUnder(c) == SecretValue(Migrated(c.encryption), c.environ)
IsText(t) == t = [secret |-> t.secret, form |-> t.form, length |-> t.length] /\ t.length \in Nat
SameText(t, u) == \/ t = u
                  \/ t.secret = u.secret /\ t.length = 64 /\ u.length = 64 /\ IsHex(t) /\ IsHex(u)

\* Authors mean the same secret when they write the same text, or the same 64
\* digits with other letters; a secret is as long as its form makes it.
ASSUME MeaningAssumption ==
  \A c, d \in Configs : TextUnder(c) # NoText /\ TextUnder(d) # NoText =>
    LET t == TextUnder(c)
        u == TextUnder(d)
    IN /\ IsText(t)
       /\ t.secret = u.secret /\ t.form = u.form => t.length = u.length
       /\ t.length >= 32 /\ u.length >= 32 => (SecretOf[c] = SecretOf[d] <=> SameText(t, u))

\* A file is not absent or torn when it has users in it.
ASSUME FilesAssumption == /\ Absent # Torn
                          /\ {Absent, Torn} \cap [key : {KeyUnder(c) : c \in Configs}, users : Tables] = {}

VARIABLES up, config,
          key,        \* the key of the running process
          users,      \* UserStore.users
          usersFile,  \* users.enc: [key, users], Absent or Torn
          answered,   \* history: the users as the answers given so far say
          doubtful,   \* history: users whose last change was answered with an error,
                      \* or not at all
          madeWith,   \* history: the secret meant when the first user was made
          faults, changes

history == <<answered, doubtful, madeWith>>
accounts == <<up, config, key, users, usersFile, history, faults, changes>>

TypeOKAccounts ==
  /\ up \in BOOLEAN /\ config \in Configs
  /\ key \in {KeyUnder(c) : c \in Configs} \cup {NoKey}
  /\ users \in Tables
  /\ usersFile \in {Absent, Torn} \cup [key : {KeyUnder(c) : c \in Configs} \ {NoKey}, users : Tables]
  /\ answered \in Tables /\ doubtful \subseteq Names
  /\ madeWith \in {SecretOf[c] : c \in Configs} \cup {NoText}
  /\ faults \in 0..MaxFaults /\ changes \in 0..MaxChanges

InitAccounts ==
  /\ up = FALSE /\ config \in Configs /\ key = NoKey
  /\ users = NoUsers /\ usersFile = Absent
  /\ answered = NoUsers /\ doubtful = {} /\ madeWith = NoText
  /\ faults = 0 /\ changes = 0

Fault(kind) == kind \in Faults /\ faults < MaxFaults /\ faults' = faults + 1

Gone == up' = FALSE /\ key' = NoKey /\ users' = NoUsers

Readable == usersFile \notin {Absent, Torn}

\* os.WriteFile cut short: the old file, or a cut one.
UsersCut == \/ UNCHANGED usersFile
            \/ "torn" \in Faults /\ usersFile' = Torn

Written(k, table) == usersFile' = [key |-> k, users |-> table]

------------------------------------------------------------------------------
\* Starting: main reads the configuration, loads the users and, if there are
\* none, makes the first.

\* Mutation: a file that cannot be decrypted counts as no file.
LoadableMutant(k) == TRUE
\* NewUserStore fails on a file that cannot be decrypted.
Loadable(k) == usersFile = Absent \/ (Readable /\ usersFile.key = k)

\* Mutation: main goes on without a key.
UsableMutant(k) == TRUE
Usable(k) == k # NoKey

Loaded(k) == IF Readable /\ usersFile.key = k THEN usersFile.users ELSE NoUsers

Admin == [u \in {"admin"} |-> "admin"]

Starts(k, table) == up' = TRUE /\ key' = k /\ users' = table

\* The clusters cannot be reached, or the interval is wrong: main ends.
Start ==
  LET k == KeyUnder(config)
  IN /\ ~up /\ Usable(k) /\ Loadable(k)
     /\ IF Loaded(k) # NoUsers
          THEN Starts(k, Loaded(k)) /\ UNCHANGED <<usersFile, history, faults>>
          ELSE \/ /\ Written(k, Admin)
                  /\ Starts(k, Admin) \/ Gone
                  /\ answered' = Admin /\ madeWith' = SecretOf[config]
                  /\ UNCHANGED <<doubtful, faults>>
               \/ /\ Fault("error") \/ Fault("crash")
                  /\ Gone /\ UsersCut
                  /\ UNCHANGED history
     /\ UNCHANGED <<config, changes>>

Edit == /\ ~up
        /\ changes < MaxChanges /\ changes' = changes + 1
        /\ \E c \in Configs \ {config} : config' = c
        /\ UNCHANGED <<up, key, users, usersFile, history, faults>>

\* A death between two methods, or a shutdown.
Stop == /\ up /\ Gone
        /\ UNCHANGED <<config, usersFile, history, faults, changes>>

------------------------------------------------------------------------------
\* Create and Delete, by the handlers of the same purpose.

\* Mutation: the users are changed in memory only.
SaveMutant(u, table) ==
  /\ users' = table /\ answered' = table
  /\ doubtful' = doubtful \ {u}
  /\ UNCHANGED <<up, key, usersFile, madeWith, faults>>
\* save: the change of user u is in memory, however the write ends.
Save(u, table) ==
  \/ /\ users' = table /\ Written(key, table)
     /\ answered' = [v \in (DOMAIN answered \ {u}) \cup (DOMAIN table \cap {u}) |->
                       IF v = u THEN table[v] ELSE answered[v]]
     /\ doubtful' = doubtful \ {u}
     /\ UNCHANGED <<up, key, madeWith, faults>>
  \/ /\ Fault("error") /\ users' = table /\ UsersCut
     /\ doubtful' = doubtful \cup {u}
     /\ UNCHANGED <<up, key, answered, madeWith>>
  \/ /\ Fault("crash") /\ Gone
     /\ UsersCut \/ Written(key, table)
     /\ doubtful' = doubtful \cup {u}
     /\ UNCHANGED <<answered, madeWith>>

With(u, role) == [v \in DOMAIN users \cup {u} |-> IF v = u THEN role ELSE users[v]]
Without(u) == [v \in DOMAIN users \ {u} |-> users[v]]

Create(u, role) ==
  /\ up /\ u \notin DOMAIN users
  /\ Save(u, With(u, role))
  /\ UNCHANGED <<config, changes>>

\* Mutation: anybody may be deleted.
DeletableMutant(u) == u \in DOMAIN users
Deletable(u) == u \in DOMAIN users /\ DOMAIN users # {u}

Delete(u) ==
  /\ up /\ Deletable(u)
  /\ Save(u, Without(u))
  /\ UNCHANGED <<config, changes>>

------------------------------------------------------------------------------
\* Properties.

\* Once there is a user there always is one, in memory and in every file that can be
\* read: nobody is shut out by deleting, and the bootstrap password counts no more.
\* A file that a write cut short holds nobody, and is no empty one either.
SomebodyRemains == /\ up => users # NoUsers
                   /\ Readable => usersFile.users # NoUsers

\* A table has what was said of the users that are not in doubt.
Agrees(table, said, doubt) == \A v \in Names \ doubt :
  /\ v \in DOMAIN table <=> v \in DOMAIN said
  /\ v \in DOMAIN said => table[v] = said[v]

\* A creation or deletion that was answered with success is in memory and in a file
\* that can be read, although changes of other users before and after it failed.
\* The file cut short by a later write is the exception: all answers are lost with
\* it, and no start accepts it (users.go:74).  It takes a write that was not answered
\* with success, of which a change is left in doubt; and no file goes away.
AnswersAreKept ==
  /\ up => Agrees(users, answered, doubtful)
  /\ Readable => Agrees(usersFile.users, answered, doubtful)
  /\ answered # NoUsers /\ ~Readable => usersFile = Torn /\ doubtful # {}

\* A start with another secret never replaces the users that are there, and neither
\* does one that finds the file cut short.
UsersAreNotReplaced ==
  [][/\ Readable => usersFile' = Torn \/ (usersFile' # Absent /\ usersFile'.key = usersFile.key)
     /\ usersFile = Torn /\ ~up => usersFile' = Torn]_accounts

\* The users can be read again under every configuration that spells the secret
\* they were written with, and under no other.
SameSecretOpens ==
  Readable /\ KeyUnder(config) # NoKey => (Loadable(KeyUnder(config)) <=> SecretOf[config] = madeWith)
=============================================================================
