---------------------------- MODULE AccountsProofs ----------------------------
(***************************************************************************)
(* Proofs about the user store and the sessions, for all names, all        *)
(* configurations and any number of logins, sessions, faults and changes.  *)
(***************************************************************************)
EXTENDS Sessions, FiniteSetTheorems, WellFoundedInduction, TLAPS

------------------------------------------------------------------------------
\* What a step does to the users.

\* The operations on the user store.
AccountsStep == \/ Start \/ Edit \/ Stop
                \/ \E u \in Names, role \in Roles : Create(u, role)
                \/ \E u \in Names : Delete(u)
                \/ UNCHANGED accounts

\* Every step is one of them to the user store.
LEMMA StepOfAccounts == [Next]_vars => AccountsStep
<1> SUFFICES ASSUME [Next]_vars PROVE AccountsStep
  OBVIOUS
<1>1. CASE Starting \/ Editing \/ Stopping
  BY <1>1 DEF Starting, Editing, Stopping, AccountsStep
<1>2. CASE \/ Tick \/ Cleanup
           \/ \E l \in Logins, u \in Names : CheckLimit(l, u)
           \/ \E l \in Logins : Authenticate(l) \/ RecordAttempt(l) \/ \E i \in Ids : CreateSession(l, i)
           \/ \E i \in Ids : Logout(i)
  <2>1. UNCHANGED accounts
    BY <1>2 DEF Tick, Cleanup, CheckLimit, Authenticate, RecordAttempt, CreateSession, Logout
  <2> QED BY <2>1 DEF AccountsStep
<1>3. CASE \E u \in Names, role \in Grants : CreateUser(u, role)
  BY <1>3, SessionsAssumption DEF CreateUser, AccountsStep
<1>4. CASE \E u \in Names : DeleteUser(u)
  BY <1>4 DEF DeleteUser, AccountsStep
<1>5. CASE UNCHANGED vars
  BY <1>5 DEF vars, AccountsStep
<1> QED BY <1>1, <1>2, <1>3, <1>4, <1>5 DEF Next

------------------------------------------------------------------------------
\* Types.

\* The tables the operations make are tables.
LEMMA TablesAre ==
  /\ NoUsers \in Tables /\ Admin \in Tables /\ Admin # NoUsers
  /\ \A u \in Names, role \in Roles : users \in Tables =>
       /\ With(u, role) \in Tables /\ With(u, role) # NoUsers
       /\ Without(u) \in Tables
       /\ Deletable(u) => Without(u) # NoUsers
<1>1. NoUsers \in [{} -> Roles] /\ DOMAIN NoUsers = {}
  BY DEF NoUsers, Roles
<1>2. Admin \in [{"admin"} -> Roles] /\ DOMAIN Admin = {"admin"}
  BY DEF Admin, Roles
<1>3. ASSUME NEW u \in Names, NEW role \in Roles, users \in Tables
      PROVE  /\ With(u, role) \in Tables /\ With(u, role) # NoUsers
             /\ Without(u) \in Tables
             /\ Deletable(u) => Without(u) # NoUsers
  <2>1. PICK S \in SUBSET Names : users \in [S -> Roles]
    BY <1>3 DEF Tables
  <2>2. With(u, role) \in [S \cup {u} -> Roles] /\ u \in DOMAIN With(u, role)
    BY <1>3, <2>1 DEF With
  <2>3. Without(u) \in [S \ {u} -> Roles] /\ DOMAIN Without(u) = S \ {u}
    BY <1>3, <2>1 DEF Without
  <2>4. With(u, role) \in Tables /\ Without(u) \in Tables
    <3>1. S \cup {u} \in SUBSET Names /\ S \ {u} \in SUBSET Names
      BY <1>3
    <3> QED BY <2>2, <2>3, <3>1 DEF Tables
  <2>5. Deletable(u) => S \ {u} # {}
    BY <2>1 DEF Deletable
  <2> QED BY <1>1, <2>2, <2>3, <2>4, <2>5
<1>4. NoUsers \in Tables /\ Admin \in Tables
  BY <1>1, <1>2, AccountsAssumption DEF Tables
<1> QED BY <1>1, <1>2, <1>3, <1>4

Keys == {KeyUnder(c) : c \in Configs}

\* A running process has a key.
Keyed == up => key # NoKey

\* What is on disk after a write that fails is a file.
LEMMA UsersCutType ==
  ASSUME TypeOKAccounts, UsersCut
  PROVE  usersFile' \in {Absent, Torn} \cup [key : Keys \ {NoKey}, users : Tables]
BY DEF TypeOKAccounts, UsersCut, Keys

\* A fault is counted.
LEMMA FaultType ==
  ASSUME TypeOKAccounts, NEW kind, Fault(kind)
  PROVE  faults' \in 0..MaxFaults
BY AccountsAssumption DEF TypeOKAccounts, Fault

\* Saving a table keeps the types.
LEMMA SaveType ==
  ASSUME TypeOKAccounts, Keyed, up, NEW u \in Names, NEW table \in Tables, Save(u, table),
         UNCHANGED <<config, changes>>
  PROVE  TypeOKAccounts' /\ Keyed'
<1> USE DEF Keys
<1>1. NoUsers \in Tables
  BY TablesAre
<1>2. CASE /\ users' = table /\ Written(key, table)
           /\ answered' = [v \in (DOMAIN answered \ {u}) \cup (DOMAIN table \cap {u}) |->
                             IF v = u THEN table[v] ELSE answered[v]]
           /\ doubtful' = doubtful \ {u}
           /\ UNCHANGED <<up, key, madeWith, faults>>
  <2>1. PICK S \in SUBSET Names : answered \in [S -> Roles]
    BY DEF TypeOKAccounts, Tables
  <2>2. PICK T \in SUBSET Names : table \in [T -> Roles]
    BY DEF Tables
  <2> DEFINE D == (S \ {u}) \cup (T \cap {u})
  <2>3. answered' \in [D -> Roles] /\ D \in SUBSET Names
    BY <1>2, <2>1, <2>2
  <2>4. answered' \in Tables
    BY <2>3 DEF Tables
  <2>5. usersFile' \in [key : Keys \ {NoKey}, users : Tables]
    BY <1>2 DEF Written, TypeOKAccounts, Keyed
  <2> QED BY <1>2, <2>4, <2>5 DEF TypeOKAccounts, Keyed
<1>3. CASE /\ Fault("error") /\ users' = table /\ UsersCut
           /\ doubtful' = doubtful \cup {u}
           /\ UNCHANGED <<up, key, answered, madeWith>>
  BY <1>3, UsersCutType, FaultType DEF TypeOKAccounts, Keyed
<1>4. CASE /\ Fault("crash") /\ Gone
           /\ UsersCut \/ Written(key, table)
           /\ doubtful' = doubtful \cup {u}
           /\ UNCHANGED <<answered, madeWith>>
  <2>1. usersFile' \in {Absent, Torn} \cup [key : Keys \ {NoKey}, users : Tables]
    BY <1>4, UsersCutType DEF Written, TypeOKAccounts, Keyed
  <2> QED BY <1>1, <1>4, <2>1, FaultType DEF TypeOKAccounts, Keyed, Gone
<1> QED BY <1>2, <1>3, <1>4 DEF Save

\* Starting keeps the types.
LEMMA StartType ==
  ASSUME TypeOKAccounts, Keyed, Start
  PROVE  TypeOKAccounts' /\ Keyed'
<1> USE DEF Keys
<1> DEFINE k == KeyUnder(config)
<1>1. k \in Keys /\ k # NoKey /\ UNCHANGED <<config, changes>>
  BY DEF Start, Usable, TypeOKAccounts
<1>2. Loaded(k) \in Tables /\ Admin \in Tables /\ NoUsers \in Tables
  BY TablesAre DEF Loaded, Readable, TypeOKAccounts
<1> HIDE DEF k
<1>3. CASE Starts(k, Loaded(k)) /\ UNCHANGED <<usersFile, history, faults>>
  BY <1>1, <1>2, <1>3 DEF Starts, history, TypeOKAccounts, Keyed
<1>4. CASE /\ Written(k, Admin)
           /\ Starts(k, Admin) \/ Gone
           /\ answered' = Admin /\ madeWith' = SecretOf[config]
           /\ UNCHANGED <<doubtful, faults>>
  BY <1>1, <1>2, <1>4 DEF Written, Starts, Gone, TypeOKAccounts, Keyed
<1>5. CASE /\ Fault("error") \/ Fault("crash")
           /\ Gone /\ UsersCut
           /\ UNCHANGED history
  BY <1>1, <1>2, <1>5, UsersCutType, FaultType DEF Gone, history, TypeOKAccounts, Keyed
<1> QED BY <1>3, <1>4, <1>5 DEF Start, k

\* Every operation keeps the types.
LEMMA AccountsType ==
  ASSUME TypeOKAccounts, Keyed, AccountsStep
  PROVE  TypeOKAccounts' /\ Keyed'
<1>1. CASE Start
  BY <1>1, StartType
<1>2. CASE Edit
  <2>1. changes' \in 0..MaxChanges
    BY <1>2, AccountsAssumption DEF Edit, TypeOKAccounts
  <2> QED BY <1>2, <2>1 DEF Edit, TypeOKAccounts, Keyed, history
<1>3. CASE Stop
  BY <1>3, TablesAre DEF Stop, Gone, TypeOKAccounts, Keyed, history
<1>4. ASSUME NEW u \in Names, NEW role \in Roles, Create(u, role) PROVE TypeOKAccounts' /\ Keyed'
  <2>1. With(u, role) \in Tables
    BY TablesAre DEF TypeOKAccounts
  <2> QED BY <1>4, <2>1, SaveType DEF Create
<1>5. ASSUME NEW u \in Names, Delete(u) PROVE TypeOKAccounts' /\ Keyed'
  <2>1. Without(u) \in Tables
    BY TablesAre DEF TypeOKAccounts, Roles
  <2> QED BY <1>5, <2>1, SaveType DEF Delete
<1>6. CASE UNCHANGED accounts
  BY <1>6 DEF accounts, history, TypeOKAccounts, Keyed
<1> QED BY <1>1, <1>2, <1>3, <1>4, <1>5, <1>6 DEF AccountsStep

\* The first state has the types.
LEMMA AccountsInit == Init => TypeOKAccounts /\ Keyed
<1> SUFFICES ASSUME Init PROVE TypeOKAccounts /\ Keyed
  OBVIOUS
<1>1. up = FALSE /\ config \in Configs /\ key = NoKey /\ users = NoUsers /\ usersFile = Absent
      /\ answered = NoUsers /\ doubtful = {} /\ madeWith = NoText /\ faults = 0 /\ changes = 0
  BY DEF Init, InitAccounts
<1>2. 0 \in 0..MaxFaults /\ 0 \in 0..MaxChanges
  BY AccountsAssumption
<1> QED BY <1>1, <1>2, TablesAre DEF TypeOKAccounts, Keyed

------------------------------------------------------------------------------
\* Somebody remains, and answers are kept.

\* Memory and file hold users, and those that were answered for.
AccountsInv == /\ SomebodyRemains
               /\ up => Agrees(users, answered, doubtful)
               /\ Readable => Agrees(usersFile.users, answered, doubtful)

\* What a save writes, or leaves, holds users, if the table has some.
LEMMA SaveKeeps ==
  ASSUME TypeOKAccounts, AccountsInv, up, NEW u \in Names, NEW table \in Tables, table # NoUsers,
         \A v \in Names \ {u} : /\ v \in DOMAIN table <=> v \in DOMAIN users
                                /\ v \in DOMAIN users => table[v] = users[v],
         Save(u, table)
  PROVE  AccountsInv'
<1>1. Agrees(users, answered, doubtful)
  BY DEF AccountsInv
<1>2. CASE /\ users' = table /\ Written(key, table)
           /\ answered' = [v \in (DOMAIN answered \ {u}) \cup (DOMAIN table \cap {u}) |->
                             IF v = u THEN table[v] ELSE answered[v]]
           /\ doubtful' = doubtful \ {u}
  <2>1. ASSUME NEW v \in Names \ doubtful'
        PROVE  /\ v \in DOMAIN table <=> v \in DOMAIN answered'
               /\ v \in DOMAIN answered' => table[v] = answered'[v]
    BY <1>1, <1>2 DEF Agrees
  <2>2. usersFile'.users = table /\ users' = table
    BY <1>2 DEF Written
  <2>3. Agrees(users', answered', doubtful') /\ Agrees(usersFile'.users, answered', doubtful')
    BY <2>1, <2>2 DEF Agrees
  <2> QED BY <2>2, <2>3 DEF AccountsInv, SomebodyRemains, Agrees
<1>3. CASE UsersCut /\ doubtful' = doubtful \cup {u} /\ UNCHANGED answered
           /\ (users' = table \/ Gone)
  <2>1. Readable' => Readable /\ usersFile' = usersFile
    BY <1>3 DEF UsersCut, Readable
  <2>2. Readable' => usersFile'.users # NoUsers /\ Agrees(usersFile'.users, answered', doubtful')
    BY <1>3, <2>1 DEF AccountsInv, SomebodyRemains, Agrees
  <2>3. users' = table => Agrees(users', answered', doubtful')
    BY <1>1, <1>3 DEF Agrees
  <2> QED BY <1>3, <2>2, <2>3 DEF Gone, AccountsInv, SomebodyRemains, Agrees
<1>4. CASE Written(key, table) /\ doubtful' = doubtful \cup {u} /\ UNCHANGED answered /\ Gone
  <2>1. usersFile'.users = table
    BY <1>4 DEF Written
  <2>2. Agrees(usersFile'.users, answered', doubtful')
    BY <1>1, <1>4, <2>1 DEF Agrees
  <2> QED BY <1>4, <2>1, <2>2 DEF Gone, AccountsInv, SomebodyRemains, Agrees
<1> QED BY <1>2, <1>3, <1>4 DEF Save

\* So does starting: the first user is made only when there is no file.
LEMMA StartKeeps ==
  ASSUME TypeOKAccounts, AccountsInv, Start
  PROVE  AccountsInv'
<1> DEFINE k == KeyUnder(config)
<1>1. Loadable(k)
  BY DEF Start
<1>2. CASE /\ Loaded(k) # NoUsers
           /\ Starts(k, Loaded(k)) /\ UNCHANGED <<usersFile, history, faults>>
  <2>1. Readable /\ users' = usersFile.users
    BY <1>2 DEF Loaded, Starts
  <2> QED BY <1>2, <2>1 DEF history, AccountsInv, SomebodyRemains, Agrees, Readable
<1>3. CASE /\ Written(k, Admin)
           /\ Starts(k, Admin) \/ Gone
           /\ answered' = Admin
  <2>1. usersFile'.users = Admin /\ (up' => users' = Admin) /\ Admin # NoUsers
    BY <1>3, TablesAre DEF Written, Starts, Gone
  <2>2. SomebodyRemains'
    BY <2>1 DEF SomebodyRemains
  <2>3. Agrees(Admin, answered', doubtful')
    BY <1>3 DEF Agrees, Admin
  <2> QED BY <1>3, <2>1, <2>2, <2>3 DEF AccountsInv, Agrees
<1>4. CASE Gone /\ UsersCut /\ UNCHANGED history
  BY <1>4 DEF Gone, UsersCut, history, AccountsInv, SomebodyRemains, Agrees, Readable
<1> QED BY <1>2, <1>3, <1>4 DEF Start

\* Every operation keeps users, and those that were answered for.
LEMMA AccountsInductive ==
  ASSUME TypeOKAccounts, AccountsInv, AccountsStep
  PROVE  AccountsInv'
<1>1. CASE Start
  BY <1>1, StartKeeps
<1>2. CASE Edit \/ Stop
  BY <1>2 DEF Edit, Stop, Gone, history, AccountsInv, SomebodyRemains, Agrees, Readable
<1>3. ASSUME NEW u \in Names, NEW role \in Roles, Create(u, role) PROVE AccountsInv'
  <2>1. With(u, role) \in Tables /\ With(u, role) # NoUsers
    BY TablesAre DEF TypeOKAccounts
  <2>2. \A v \in Names \ {u} : /\ v \in DOMAIN With(u, role) <=> v \in DOMAIN users
                               /\ v \in DOMAIN users => With(u, role)[v] = users[v]
    BY DEF With
  <2> QED BY <1>3, <2>1, <2>2, SaveKeeps DEF Create
<1>4. ASSUME NEW u \in Names, Delete(u) PROVE AccountsInv'
  <2>1. Without(u) \in Tables /\ Without(u) # NoUsers
    BY <1>4, TablesAre DEF TypeOKAccounts, Roles, Delete
  <2>2. \A v \in Names \ {u} : /\ v \in DOMAIN Without(u) <=> v \in DOMAIN users
                               /\ v \in DOMAIN users => Without(u)[v] = users[v]
    BY DEF Without
  <2> QED BY <1>4, <2>1, <2>2, SaveKeeps DEF Delete
<1>5. CASE UNCHANGED accounts
  BY <1>5 DEF accounts, history, AccountsInv, SomebodyRemains, Agrees, Readable
<1> QED BY <1>1, <1>2, <1>3, <1>4, <1>5 DEF AccountsStep

\* The store begins with no file.
LEMMA AccountsInvInit == Init => AccountsInv
BY DEF Init, InitAccounts, AccountsInv, SomebodyRemains, Readable

\* A running process always has a user, and so has every file that can be read,
\* whatever writes fail and however often the process dies.
THEOREM UsersRemain == Spec => []SomebodyRemains
<1>1. Init => TypeOKAccounts /\ Keyed /\ AccountsInv
  BY AccountsInit, AccountsInvInit
<1>2. TypeOKAccounts /\ Keyed /\ AccountsInv /\ [Next]_vars
        => (TypeOKAccounts /\ Keyed /\ AccountsInv)'
  BY StepOfAccounts, AccountsType, AccountsInductive
<1>3. AccountsInv => SomebodyRemains
  BY DEF AccountsInv
<1> QED BY <1>1, <1>2, <1>3, PTL DEF Spec

\* The file is there since the first answer, and one that is cut short leaves a doubt.
FileIsThere == answered # NoUsers /\ ~Readable => usersFile = Torn /\ doubtful # {}

\* What is written can be read.
LEMMA WrittenIsReadable ==
  ASSUME NEW k \in Keys, NEW table \in Tables, Written(k, table)
  PROVE  Readable'
BY FilesAssumption DEF Written, Readable, Keys

\* A save that does not write leaves a change in doubt.
LEMMA SaveLeavesFile ==
  ASSUME TypeOKAccounts, Keyed, FileIsThere, NEW u \in Names, NEW table \in Tables, Save(u, table), up
  PROVE  FileIsThere'
<1>1. key \in Keys
  BY DEF Keyed, TypeOKAccounts, Keys
<1>2. CASE Written(key, table)
  BY <1>1, <1>2, WrittenIsReadable DEF FileIsThere
<1>3. CASE UsersCut /\ doubtful' = doubtful \cup {u} /\ UNCHANGED answered
  BY <1>3 DEF UsersCut, FileIsThere, Readable
<1> QED BY <1>2, <1>3 DEF Save

\* Every operation leaves the file where it is: a start writes only the first user.
LEMMA FileStays ==
  ASSUME TypeOKAccounts, Keyed, AccountsInv, FileIsThere, AccountsStep
  PROVE  FileIsThere'
<1>1. CASE Start
  <2> DEFINE k == KeyUnder(config)
  <2>1. k \in Keys /\ Admin \in Tables /\ Loadable(k)
    BY <1>1, TablesAre DEF Start, TypeOKAccounts, Keys
  <2>2. CASE UNCHANGED <<usersFile, history>>
    BY <2>2 DEF FileIsThere, Readable, history
  <2>3. CASE Written(k, Admin)
    BY <2>1, <2>3, WrittenIsReadable DEF FileIsThere
  <2>4. CASE Loaded(k) = NoUsers /\ UNCHANGED history
    <3>1. ~Readable
      BY <2>1, <2>4, FilesAssumption DEF Loadable, Loaded, Readable, AccountsInv, SomebodyRemains
    <3>2. answered = NoUsers
      BY <2>1, <3>1, FilesAssumption DEF Loadable, FileIsThere
    <3> QED BY <2>4, <3>2 DEF FileIsThere, history
  <2> QED BY <1>1, <2>2, <2>3, <2>4 DEF Start
<1>2. CASE Edit \/ Stop
  BY <1>2 DEF Edit, Stop, history, FileIsThere, Readable
<1>3. ASSUME NEW u \in Names, NEW role \in Roles, Create(u, role) PROVE FileIsThere'
  <2>1. With(u, role) \in Tables
    BY TablesAre DEF TypeOKAccounts
  <2> QED BY <1>3, <2>1, SaveLeavesFile DEF Create
<1>4. ASSUME NEW u \in Names, Delete(u) PROVE FileIsThere'
  <2>1. Without(u) \in Tables
    BY TablesAre DEF TypeOKAccounts, Roles
  <2> QED BY <1>4, <2>1, SaveLeavesFile DEF Delete
<1>5. CASE UNCHANGED accounts
  BY <1>5 DEF accounts, history, FileIsThere, Readable
<1> QED BY <1>1, <1>2, <1>3, <1>4, <1>5 DEF AccountsStep

\* What was answered with success about a user is in memory and in a file that can be
\* read, unless a later change of that same user was not.  There is such a file since
\* the first answer, unless a write that was not answered with success has cut it short.
THEOREM AnswersKept == Spec => []AnswersAreKept
<1> DEFINE I == TypeOKAccounts /\ Keyed /\ AccountsInv /\ FileIsThere
<1>1. Init => I
  <2>1. Init => FileIsThere
    BY DEF Init, InitAccounts, FileIsThere
  <2> QED BY <2>1, AccountsInit, AccountsInvInit
<1>2. I /\ [Next]_vars => I'
  BY StepOfAccounts, AccountsType, AccountsInductive, FileStays
<1>3. I => AnswersAreKept
  BY DEF AccountsInv, FileIsThere, AnswersAreKept
<1> QED BY <1>1, <1>2, <1>3, PTL DEF Spec

------------------------------------------------------------------------------
\* Users are not replaced.

\* The process has the key of the file, if the file can be read.
KeyFits == up /\ Readable => usersFile.key = key

\* Every operation keeps the key of the file, or cuts it short.
LEMMA FileKept ==
  ASSUME TypeOKAccounts, Keyed, AccountsInv, KeyFits, AccountsStep
  PROVE  /\ KeyFits'
         /\ Readable => usersFile' = Torn \/ (usersFile' # Absent /\ usersFile'.key = usersFile.key)
         /\ usersFile = Torn /\ ~up => usersFile' = Torn
<1>1. ASSUME NEW k \in Keys, k # NoKey, NEW table \in Tables, Written(k, table)
      PROVE  usersFile' \notin {Absent, Torn} /\ usersFile'.key = k
  <2>1. usersFile' \in [key : {KeyUnder(c) : c \in Configs}, users : Tables] /\ usersFile'.key = k
    BY <1>1 DEF Written, Keys
  <2> QED BY <2>1, FilesAssumption
<1>2. CASE Start
  <2> DEFINE k == KeyUnder(config)
  <2>1. k \in Keys /\ k # NoKey /\ ~up /\ Loadable(k) /\ Admin \in Tables
    BY <1>2, TablesAre DEF Start, Usable, TypeOKAccounts, Keys
  <2>2. Readable => Loaded(k) # NoUsers /\ usersFile.key = k
    BY <2>1, FilesAssumption DEF Loadable, Loaded, Readable, AccountsInv, SomebodyRemains
  <2>3. usersFile # Torn
    BY <2>1, FilesAssumption DEF Loadable, Readable
  <2> HIDE DEF k
  <2>4. CASE Starts(k, Loaded(k)) /\ UNCHANGED usersFile
    BY <2>2, <2>3, <2>4 DEF Starts, KeyFits, Readable
  <2>5. CASE Loaded(k) = NoUsers /\ Written(k, Admin) /\ (Starts(k, Admin) \/ Gone)
    BY <1>1, <2>1, <2>2, <2>3, <2>5 DEF Starts, Gone, KeyFits
  <2>6. CASE Loaded(k) = NoUsers /\ Gone /\ UsersCut
    BY <2>2, <2>3, <2>6 DEF Gone, KeyFits
  <2> QED BY <1>2, <2>4, <2>5, <2>6 DEF Start, k
<1>3. ASSUME NEW u \in Names, NEW table \in Tables, up, Save(u, table)
      PROVE  /\ KeyFits'
             /\ Readable => usersFile' = Torn \/ (usersFile' # Absent /\ usersFile'.key = usersFile.key)
  <2>1. key \in Keys /\ key # NoKey
    BY <1>3 DEF TypeOKAccounts, Keyed, Keys
  <2>2. CASE UsersCut /\ (Gone \/ UNCHANGED <<up, key>>)
    BY <2>2 DEF UsersCut, Gone, KeyFits, Readable
  <2>3. CASE Written(key, table) /\ (Gone \/ UNCHANGED <<up, key>>)
    BY <1>1, <1>3, <2>1, <2>3 DEF Gone, KeyFits
  <2> QED BY <1>3, <2>2, <2>3 DEF Save
<1>4. ASSUME NEW u \in Names, NEW role \in Roles, Create(u, role)
      PROVE  up /\ KeyFits'
             /\ (Readable => usersFile' = Torn \/ (usersFile' # Absent /\ usersFile'.key = usersFile.key))
  <2>1. With(u, role) \in Tables
    BY TablesAre DEF TypeOKAccounts
  <2> QED BY <1>3, <1>4, <2>1 DEF Create
<1>5. ASSUME NEW u \in Names, Delete(u)
      PROVE  up /\ KeyFits'
             /\ (Readable => usersFile' = Torn \/ (usersFile' # Absent /\ usersFile'.key = usersFile.key))
  <2>1. Without(u) \in Tables
    BY TablesAre DEF TypeOKAccounts, Roles
  <2> QED BY <1>3, <1>5, <2>1 DEF Delete
<1>6. CASE Edit \/ Stop \/ UNCHANGED accounts
  BY <1>6 DEF Edit, Stop, Gone, accounts, KeyFits, Readable
<1> QED BY <1>2, <1>4, <1>5, <1>6 DEF AccountsStep

\* No start and no save replaces users that can be read with others under another
\* secret, and a file cut short stays for the operator to see.
THEOREM UsersKept == Spec => UsersAreNotReplaced
<1> DEFINE I == TypeOKAccounts /\ Keyed /\ AccountsInv /\ KeyFits
           A == /\ Readable => usersFile' = Torn \/ (usersFile' # Absent /\ usersFile'.key = usersFile.key)
                /\ usersFile = Torn /\ ~up => usersFile' = Torn
<1>1. Init => I
  <2>1. Init => KeyFits
    BY DEF Init, InitAccounts, KeyFits
  <2> QED BY <2>1, AccountsInit, AccountsInvInit
<1>2. I /\ [Next]_vars => I'
  BY StepOfAccounts, AccountsType, AccountsInductive, FileKept
<1>3. I /\ [Next]_vars => [A]_accounts
  BY StepOfAccounts, FileKept
<1> QED BY <1>1, <1>2, <1>3, PTL DEF Spec, UsersAreNotReplaced

------------------------------------------------------------------------------
\* The same secret opens.

\* A hashed text is told from others by its length, and two of them by their texts.
LEMMA HashedBytes ==
  ASSUME NEW x, NEW y
  PROVE  LET h == <<"sha256">> \o <<x, y>> IN Len(h) = 3 /\ h[2] = x /\ h[3] = y
<1> DEFINE T == {"sha256", x, y}
<1>1. <<"sha256">> \in Seq(T) /\ <<x, y>> \in Seq(T)
  OBVIOUS
<1> QED BY <1>1

\* Two texts that can be used give one key if and only if they are the same text, or
\* the same digits: bytes that are decoded, kept and hashed are never confused.
LEMMA KeysOfTexts ==
  ASSUME NEW c \in Configs, NEW d \in Configs, KeyUnder(c) # NoKey, KeyUnder(d) # NoKey
  PROVE  KeyUnder(c) = KeyUnder(d) <=> SecretOf[c] = SecretOf[d]
<1> DEFINE t == TextUnder(c)
           u == TextUnder(d)
           IsKey(x, k) == k = IF x.length = 64 /\ IsHex(x) THEN [bytes |-> <<x.secret>>, length |-> 32]
                              ELSE IF x.length = 32 THEN [bytes |-> <<x.secret, x.form>>, length |-> 32]
                              ELSE [bytes |-> <<"sha256">> \o <<x.secret, x.form>>, length |-> 32]
<1>1. /\ t # NoText /\ ~(t.length < 32) /\ IsKey(t, KeyUnder(c))
      /\ u # NoText /\ ~(u.length < 32) /\ IsKey(u, KeyUnder(d))
  BY DEF KeyUnder, EncryptionKey, TextUnder, ParseSecretBytes, DecodeHex, Hashed
<1> HIDE DEF t, u
<1>2. /\ IsText(t) /\ IsText(u)
      /\ t.secret = u.secret /\ t.form = u.form => t.length = u.length
      /\ t.length >= 32 /\ u.length >= 32 => (SecretOf[c] = SecretOf[d] <=> SameText(t, u))
  BY <1>1, MeaningAssumption DEF t, u
<1>3. t.length >= 32 /\ u.length >= 32
  BY <1>1, <1>2 DEF IsText
<1>4. KeyUnder(c) = KeyUnder(d) <=> SameText(t, u)
  <2> DEFINE Digits(x) == x.length = 64 /\ IsHex(x)
             Hash(x) == <<"sha256">> \o <<x.secret, x.form>>
             Bytes(x) == IF Digits(x) THEN <<x.secret>>
                         ELSE IF x.length = 32 THEN <<x.secret, x.form>> ELSE Hash(x)
  <2>1. KeyUnder(c) = [bytes |-> Bytes(t), length |-> 32] /\ KeyUnder(d) = [bytes |-> Bytes(u), length |-> 32]
    BY <1>1
  <2>2. KeyUnder(c) = KeyUnder(d) <=> Bytes(t) = Bytes(u)
    <3>1. KeyUnder(c).bytes = Bytes(t) /\ KeyUnder(d).bytes = Bytes(u)
      BY <2>1
    <3> HIDE DEF Bytes
    <3> QED BY <2>1, <3>1
  <2>3. ASSUME NEW x PROVE /\ Digits(x) => Len(Bytes(x)) = 1 /\ Bytes(x)[1] = x.secret
                           /\ ~Digits(x) /\ x.length = 32 =>
                                Len(Bytes(x)) = 2 /\ Bytes(x)[1] = x.secret /\ Bytes(x)[2] = x.form
                           /\ ~Digits(x) /\ x.length # 32 =>
                                Len(Bytes(x)) = 3 /\ Bytes(x)[2] = x.secret /\ Bytes(x)[3] = x.form
    <3>1. Len(Hash(x)) = 3 /\ Hash(x)[2] = x.secret /\ Hash(x)[3] = x.form
      BY HashedBytes
    <3> HIDE DEF Hash
    <3> QED BY <3>1
  <2>4. SameText(t, u) => Bytes(t) = Bytes(u)
    BY DEF SameText
  <2>5. t # u => t.secret # u.secret \/ t.form # u.form
    BY <1>2 DEF IsText
  <2> HIDE DEF Bytes
  <2>6. Bytes(t) = Bytes(u) => SameText(t, u)
    BY <2>3, <2>5 DEF SameText
  <2> QED BY <2>2, <2>4, <2>6
<1> QED BY <1>2, <1>3, <1>4

\* A key of the secret the first user was made with.
Meant(k) == \E c \in Configs : KeyUnder(c) = k /\ k # NoKey /\ SecretOf[c] = madeWith

\* The process and the file have such a key.
SecretInv == /\ up => Meant(key)
             /\ Readable => Meant(usersFile.key)

\* Only the first start decides which secret that is.
LEMMA SecretKept ==
  ASSUME TypeOKAccounts, Keyed, AccountsInv, KeyFits, SecretInv, AccountsStep
  PROVE  SecretInv'
<1>1. CASE Start
  <2>1. PICK k, c : k = KeyUnder(config) /\ c = config
    OBVIOUS
  <2>2. k \in Keys /\ k # NoKey /\ ~up /\ Loadable(k) /\ c \in Configs /\ KeyUnder(c) = k
    BY <1>1, <2>1 DEF Start, Usable, TypeOKAccounts, Keys
  <2>3. Readable => Loaded(k) # NoUsers /\ usersFile.key = k
    BY <2>2, FilesAssumption DEF Loadable, Loaded, Readable, AccountsInv, SomebodyRemains
  <2>4. CASE Loaded(k) # NoUsers /\ Starts(k, Loaded(k)) /\ UNCHANGED <<usersFile, history, faults>>
    <3>1. Readable
      BY <2>4 DEF Loaded
    <3> QED BY <2>3, <2>4, <3>1 DEF SecretInv, Meant, Starts, Readable, history
  <2>5. CASE /\ Written(k, Admin)
             /\ Starts(k, Admin) \/ Gone
             /\ madeWith' = SecretOf[config]
    <3>1. usersFile'.key = k /\ (up' => key' = k)
      BY <2>5 DEF Written, Starts, Gone
    <3>2. Meant(k)'
      BY <2>1, <2>2, <2>5 DEF Meant
    <3> QED BY <3>1, <3>2 DEF SecretInv, Meant
  <2>6. CASE Loaded(k) = NoUsers /\ Gone /\ UsersCut /\ UNCHANGED history
    BY <2>3, <2>6 DEF SecretInv, Meant, Gone, UsersCut, Readable, history
  <2> QED BY <1>1, <2>1, <2>4, <2>5, <2>6 DEF Start
<1>2. ASSUME NEW u \in Names, NEW table, up, Save(u, table) PROVE SecretInv'
  <2>1. Meant(key) /\ UNCHANGED madeWith
    BY <1>2 DEF SecretInv, Save
  <2>2. CASE UsersCut /\ (Gone \/ UNCHANGED <<up, key>>)
    BY <2>1, <2>2 DEF UsersCut, Gone, SecretInv, Meant, Readable
  <2>3. CASE Written(key, table) /\ (Gone \/ UNCHANGED <<up, key>>)
    <3>1. usersFile'.key = key
      BY <2>3 DEF Written
    <3> QED BY <2>1, <2>3, <3>1 DEF Gone, SecretInv, Meant
  <2> QED BY <1>2, <2>2, <2>3 DEF Save
<1>3. CASE \/ \E u \in Names, role \in Roles : Create(u, role)
           \/ \E u \in Names : Delete(u)
  BY <1>2, <1>3 DEF Create, Delete
<1>4. CASE Edit \/ Stop \/ UNCHANGED accounts
  BY <1>4 DEF Edit, Stop, Gone, accounts, history, SecretInv, Meant, Readable
<1> QED BY <1>1, <1>3, <1>4 DEF AccountsStep

\* Whatever way a secret is spelled and wherever it is put, the users can be read
\* under every configuration that has the secret they were written with, and under
\* no other; failing writes and further starts do not change which one that is.
THEOREM SecretsOpen == Spec => []SameSecretOpens
<1> DEFINE I == TypeOKAccounts /\ Keyed /\ AccountsInv /\ KeyFits /\ SecretInv
<1>1. Init => I
  <2>1. Init => KeyFits /\ SecretInv
    BY DEF Init, InitAccounts, KeyFits, SecretInv, Readable
  <2> QED BY <2>1, AccountsInit, AccountsInvInit
<1>2. I /\ [Next]_vars => I'
  BY StepOfAccounts, AccountsType, AccountsInductive, FileKept, SecretKept
<1>3. I => SameSecretOpens
  <2> SUFFICES ASSUME I, Readable, KeyUnder(config) # NoKey
               PROVE  Loadable(KeyUnder(config)) <=> SecretOf[config] = madeWith
    BY DEF SameSecretOpens
  <2>1. PICK c \in Configs : KeyUnder(c) = usersFile.key /\ KeyUnder(c) # NoKey /\ SecretOf[c] = madeWith
    BY DEF SecretInv, Meant
  <2>2. Loadable(KeyUnder(config)) <=> usersFile.key = KeyUnder(config)
    BY DEF Loadable, Readable
  <2>3. config \in Configs
    BY DEF TypeOKAccounts
  <2> QED BY <2>1, <2>2, <2>3, KeysOfTexts
<1> QED BY <1>1, <1>2, <1>3, PTL DEF Spec

------------------------------------------------------------------------------
\* Sessions.

\* The part of the type invariant that is about sessions and logins.
MemoryType ==
  /\ now \in Times
  /\ sessions \in [Ids -> Session \cup {NoSession}]
  /\ attempts \in [Names -> [Times -> Nat]] /\ refusals \in [Names -> [Times -> Nat]]
  /\ login \in [Logins -> [phase : {"idle", "allowed", "right", "wrong"}, user : Names, role : Roles]]
  /\ issued \in [Ids -> Session \cup {NoSession}]

\* What a process begins with has its types.
LEMMA EmptyType ==
  /\ [i \in Ids |-> NoSession] \in [Ids -> Session \cup {NoSession}]
  /\ NoAttempts \in [Names -> [Times -> Nat]]
  /\ [l \in Logins |-> Idle] \in [Logins -> [phase : {"idle", "allowed", "right", "wrong"}, user : Names, role : Roles]]
BY AccountsAssumption DEF NoAttempts, Idle, Roles

\* The table of users gives roles.
LEMMA UserRole ==
  ASSUME TypeOKAccounts, NEW u \in DOMAIN users
  PROVE  users[u] \in Roles
BY DEF TypeOKAccounts, Tables

\* Login keeps the types.
LEMMA LoginType ==
  ASSUME TypeOKAccounts, MemoryType, NEW l \in Logins,
         \/ \E u \in Names : CheckLimit(l, u)
         \/ Authenticate(l) \/ RecordAttempt(l) \/ \E i \in Ids : CreateSession(l, i)
  PROVE  MemoryType'
<1> USE DEF MemoryType
<1>1. ASSUME NEW u \in Names, CheckLimit(l, u) PROVE MemoryType'
  <2>1. Recent(attempts[u]) \in [Times -> Nat]
    BY DEF Recent
  <2>2. [Idle EXCEPT !.phase = "allowed", !.user = u] \in
          [phase : {"idle", "allowed", "right", "wrong"}, user : Names, role : Roles]
    BY DEF Idle, Roles
  <2> QED BY <1>1, <2>1, <2>2 DEF CheckLimit
<1>2. CASE Authenticate(l)
  <2> DEFINE u == login[l].user
  <2>1. CASE u \in DOMAIN users /\ login' = [login EXCEPT ![l].phase = "right", ![l].role = users[u]]
    <3>1. users[u] \in Roles
      BY <2>1, UserRole
    <3>2. login' \in [Logins -> [phase : {"idle", "allowed", "right", "wrong"}, user : Names, role : Roles]]
      BY <2>1, <3>1
    <3> QED BY <1>2, <3>2 DEF Authenticate
  <2>2. CASE login' = [login EXCEPT ![l].phase = "wrong"]
    BY <1>2, <2>2 DEF Authenticate
  <2> QED BY <1>2, <2>1, <2>2 DEF Authenticate
<1>3. CASE RecordAttempt(l)
  <2>1. login[l].user \in Names /\ now \in Times
    OBVIOUS
  <2>2. Idle \in [phase : {"idle", "allowed", "right", "wrong"}, user : Names, role : Roles]
    BY AccountsAssumption DEF Idle, Roles
  <2> QED BY <1>3, <2>1, <2>2 DEF RecordAttempt
<1>4. ASSUME NEW i \in Ids, CreateSession(l, i) PROVE MemoryType'
  <2>1. [user |-> login[l].user, role |-> login[l].role, expires |-> now + TTL] \in Session
    BY SessionsAssumption DEF Session, Times
  <2>2. Idle \in [phase : {"idle", "allowed", "right", "wrong"}, user : Names, role : Roles]
    BY AccountsAssumption DEF Idle, Roles
  <2> QED BY <1>4, <2>1, <2>2 DEF CreateSession
<1> QED BY <1>1, <1>2, <1>3, <1>4

\* So does every step.
LEMMA MemoryInductive ==
  ASSUME TypeOKAccounts, MemoryType, [Next]_vars
  PROVE  MemoryType'
<1> USE DEF MemoryType
<1>1. CASE UNCHANGED <<now, memory>>
  BY <1>1 DEF memory
<1>2. CASE Empty /\ UNCHANGED now
  BY <1>2, EmptyType DEF Empty
<1>3. CASE Kept /\ UNCHANGED now
  BY <1>1, <1>2, <1>3 DEF Kept
<1>4. CASE Starting \/ Editing \/ Stopping
  BY <1>1, <1>2, <1>4 DEF Starting, Editing, Stopping
<1>5. CASE Tick
  <2>1. now' \in Times
    BY <1>5, SessionsAssumption DEF Tick, Times
  <2>2. refusals' \in [Names -> [Times -> Nat]]
    BY <1>5 DEF Tick
  <2> QED BY <1>5, <2>1, <2>2 DEF Tick
<1>6. CASE Cleanup
  BY <1>6 DEF Cleanup
<1>7. ASSUME NEW i \in Ids, Logout(i) PROVE MemoryType'
  BY <1>7 DEF Logout
<1>8. CASE \/ \E u \in Names, role \in Grants : CreateUser(u, role)
           \/ \E u \in Names : DeleteUser(u)
  BY <1>3, <1>8 DEF CreateUser, DeleteUser
<1>9. CASE UNCHANGED vars
  BY <1>1, <1>9 DEF vars
<1> QED BY <1>4, <1>5, <1>6, <1>7, <1>8, <1>9, LoginType DEF Next

\* The first state has the types.
LEMMA MemoryInit == Init => MemoryType
<1>1. 0 \in Times
  BY SessionsAssumption DEF Times
<1> QED BY <1>1, EmptyType DEF Init, MemoryType

\* Users, sessions and logins always have their types.
THEOREM SessionsTyping == Spec => []TypeOK
<1>1. Init => TypeOKAccounts /\ Keyed /\ MemoryType
  BY AccountsInit, MemoryInit
<1>2. TypeOKAccounts /\ Keyed /\ MemoryType /\ [Next]_vars
        => (TypeOKAccounts /\ Keyed /\ MemoryType)'
  BY StepOfAccounts, AccountsType, MemoryInductive
<1>3. TypeOKAccounts /\ MemoryType => TypeOK
  BY DEF MemoryType, TypeOK
<1> QED BY <1>1, <1>2, <1>3, PTL DEF Spec

\* A session that is there is the one issued; one that was issued and is gone, but not
\* by a logout, had expired.
SessionInv ==
  \A i \in Ids :
    /\ sessions[i] # NoSession => issued[i] = sessions[i]
    /\ sessions[i] = NoSession /\ issued[i] # NoSession => issued[i].expires < now

\* Sessions come and go with what was issued, and the clean-up takes only expired ones.
LEMMA SessionInductive ==
  ASSUME MemoryType, SessionInv, [Next]_vars
  PROVE  SessionInv'
<1>1. CASE UNCHANGED <<sessions, issued, now>>
  BY <1>1 DEF SessionInv
<1>2. CASE Empty
  BY <1>2 DEF Empty, SessionInv
<1>3. CASE Tick
  <2>1. UNCHANGED <<sessions, issued>> /\ now' = now + 1
    BY <1>3 DEF Tick
  <2>2. ASSUME NEW i \in Ids, issued[i] # NoSession PROVE issued[i].expires < now => issued[i].expires < now'
    BY <2>1, <2>2 DEF MemoryType, Session, Times
  <2> QED BY <2>1, <2>2 DEF SessionInv
<1>4. CASE Cleanup
  BY <1>4 DEF Cleanup, Expired, SessionInv, MemoryType
<1>5. ASSUME NEW l \in Logins, NEW i \in Ids, CreateSession(l, i) PROVE SessionInv'
  <2>1. PICK s : sessions' = [sessions EXCEPT ![i] = s] /\ issued' = [issued EXCEPT ![i] = s]
                 /\ s = [user |-> login[l].user, role |-> login[l].role, expires |-> now + TTL]
    BY <1>5 DEF CreateSession
  <2>2. s # NoSession
    <3>1. s \in Session
      BY <2>1, SessionsAssumption DEF MemoryType, Session, Times
    <3> QED BY <3>1, NoSessionAssumption
  <2>3. now' = now
    BY <1>5 DEF CreateSession
  <2>4. sessions' = [sessions EXCEPT ![i] = s] /\ issued' = [issued EXCEPT ![i] = s]
    BY <2>1
  <2> QED BY <2>2, <2>3, <2>4 DEF SessionInv, MemoryType
<1>6. ASSUME NEW i \in Ids, Logout(i) PROVE SessionInv'
  BY <1>6 DEF Logout, SessionInv, MemoryType
<1>7. CASE \/ Starting \/ Editing \/ Stopping
           \/ \E u \in Names, role \in Grants : CreateUser(u, role)
           \/ \E u \in Names : DeleteUser(u)
  BY <1>1, <1>2, <1>7 DEF Starting, Editing, Stopping, CreateUser, DeleteUser, Kept, memory
<1>8. CASE \/ \E l \in Logins, u \in Names : CheckLimit(l, u)
           \/ \E l \in Logins : Authenticate(l) \/ RecordAttempt(l)
  BY <1>1, <1>8 DEF CheckLimit, Authenticate, RecordAttempt
<1>9. CASE UNCHANGED vars
  BY <1>1, <1>9 DEF vars, memory
<1> QED BY <1>3, <1>4, <1>5, <1>6, <1>7, <1>8, <1>9 DEF Next

\* A session is valid for its time or until its logout, whenever the clean-up runs.
THEOREM SessionLifetimes == Spec => []SessionsLastTheirTime
<1> DEFINE I == TypeOKAccounts /\ Keyed /\ MemoryType /\ SessionInv
<1>1. Init => I
  <2>1. Init => SessionInv
    BY DEF Init, SessionInv
  <2> QED BY <2>1, AccountsInit, MemoryInit
<1>2. I /\ [Next]_vars => I'
  BY StepOfAccounts, AccountsType, MemoryInductive, SessionInductive
<1>3. I => SessionsLastTheirTime
  <2> SUFFICES ASSUME I, NEW i \in Ids
               PROVE  Valid(i) <=> issued[i] # NoSession /\ now <= issued[i].expires
    BY DEF SessionsLastTheirTime
  <2>1. issued[i] # NoSession => issued[i].expires \in Nat
    BY SessionsAssumption DEF MemoryType, Session
  <2>2. now \in Nat
    BY DEF MemoryType, Times
  <2> QED BY <2>1, <2>2 DEF SessionInv, Valid, Expired
<1> QED BY <1>1, <1>2, <1>3, PTL DEF Spec

------------------------------------------------------------------------------
\* Sums over time, by induction on the times.

Less == {pair \in Nat \X Nat : pair[1] < pair[2]}

\* A set of numbers has a least one.
LEMMA Least ==
  ASSUME NEW T \in SUBSET Nat, T # {}
  PROVE  \E n \in T : \A m \in T : n <= m
<1>1. IsWellFoundedOn(Less, Nat)
  BY NatLessThanWellFounded DEF OpToRel, Less
<1>2. PICK n \in T : \A m \in T : ~(<<m, n>> \in Less)
  BY <1>1, WFMin
<1>3. ASSUME NEW m \in T PROVE n <= m
  <2>1. <<m, n>> \in Nat \X Nat /\ <<m, n>>[1] = m /\ <<m, n>>[2] = n
    OBVIOUS
  <2>2. ~(m < n)
    BY <1>2, <2>1 DEF Less
  <2> QED BY <2>2
<1> QED BY <1>3

\* Induction, for a property that is a set of numbers.
LEMMA Induction ==
  ASSUME NEW S, 0 \in S, \A n \in Nat : n \in S => n + 1 \in S
  PROVE  Nat \subseteq S
<1> SUFFICES ASSUME Nat \ S # {} PROVE FALSE
  OBVIOUS
<1>1. PICK n \in Nat \ S : \A m \in Nat \ S : n <= m
  BY Least
<1>2. n # 0 /\ n - 1 \in Nat /\ n - 1 \in S
  BY <1>1
<1> QED BY <1>1, <1>2

\* s adds up f, time by time.
Adds(f, s, n) == s[0] = 0 /\ \A t \in 1..n : s[t] = s[t - 1] + f[t - 1]

\* Such sums are there.
LEMMA SumsExist ==
  ASSUME NEW f \in [Times -> Nat]
  PROVE  \E s \in [0..(MaxTime + 1) -> Nat] : Adds(f, s, MaxTime + 1)
<1> DEFINE S == {n \in Nat : n <= MaxTime + 1 => \E s \in [0..n -> Nat] : Adds(f, s, n)}
<1>0. MaxTime + 1 \in Nat
  BY SessionsAssumption
<1>1. 0 \in S
  <2>1. [t \in 0..0 |-> 0] \in [0..0 -> Nat] /\ Adds(f, [t \in 0..0 |-> 0], 0)
    BY DEF Adds
  <2> QED BY <2>1
<1>2. ASSUME NEW n \in Nat, n \in S PROVE n + 1 \in S
  <2> SUFFICES ASSUME n + 1 <= MaxTime + 1
               PROVE  \E s \in [0..(n + 1) -> Nat] : Adds(f, s, n + 1)
    OBVIOUS
  <2>1. PICK s \in [0..n -> Nat] : Adds(f, s, n)
    BY <1>0, <1>2
  <2> DEFINE r == [t \in 0..(n + 1) |-> IF t = n + 1 THEN s[n] + f[n] ELSE s[t]]
  <2>2. n \in Times
    BY SessionsAssumption DEF Times
  <2>3. r \in [0..(n + 1) -> Nat]
    BY <2>2
  <2>4. ASSUME NEW t \in 1..(n + 1) PROVE r[t] = r[t - 1] + f[t - 1]
    <3>1. CASE t = n + 1
      <4>1. r[t] = s[n] + f[n] /\ t - 1 = n /\ r[n] = s[n]
        BY <3>1
      <4> QED BY <4>1
    <3>2. CASE t # n + 1
      <4>1. t \in 1..n /\ t - 1 \in 0..(n + 1) /\ t - 1 # n + 1
        BY <3>2
      <4>2. r[t] = s[t] /\ r[t - 1] = s[t - 1]
        BY <4>1
      <4> QED BY <2>1, <4>1, <4>2 DEF Adds
    <3> QED BY <3>1, <3>2
  <2>5. r[0] = 0
    BY <2>1 DEF Adds
  <2> QED BY <2>3, <2>4, <2>5 DEF Adds
<1> HIDE DEF S
<1>3. Nat \subseteq S
  BY <1>1, <1>2, Induction
<1>4. MaxTime + 1 \in S
  BY <1>0, <1>3
<1> QED BY <1>0, <1>4 DEF S

\* Total is the last of them.
LEMMA TotalIs ==
  ASSUME NEW f \in [Times -> Nat]
  PROVE  \E s \in [0..(MaxTime + 1) -> Nat] : Adds(f, s, MaxTime + 1) /\ Total(f) = s[MaxTime + 1]
<1> DEFINE N == MaxTime + 1
           IsSum(s) == s = [t \in 0..N |-> IF t = 0 THEN 0 ELSE s[t - 1] + f[t - 1]]
<1>0. N \in Nat
  BY SessionsAssumption
<1>1. PICK s \in [0..N -> Nat] : Adds(f, s, N)
  BY SumsExist
<1>2. \A t \in 0..N : s[t] = IF t = 0 THEN 0 ELSE s[t - 1] + f[t - 1]
  BY <1>0, <1>1 DEF Adds
<1>3. IsSum(s)
  BY <1>1, <1>2
<1>4. Total(f) = (CHOOSE r : IsSum(r))[N]
  BY DEF Total
<1> DEFINE c == CHOOSE r : IsSum(r)
<1>5. IsSum(c)
  BY <1>3
<1> HIDE DEF c
<1> DEFINE S == {n \in Nat : n <= N => c[n] = s[n]}
<1>6. 0 \in S
  BY <1>0, <1>5, <1>2
<1>7. ASSUME NEW n \in Nat, n \in S PROVE n + 1 \in S
  <2> SUFFICES ASSUME n + 1 <= N PROVE c[n + 1] = s[n + 1]
    OBVIOUS
  <2>1. n + 1 \in 0..N /\ n \in 0..N /\ n + 1 # 0 /\ (n + 1) - 1 = n /\ n <= N
    BY <1>0
  <2>2. c[n + 1] = c[n] + f[n]
    BY <1>5, <2>1
  <2>3. s[n + 1] = s[n] + f[n]
    BY <1>2, <2>1
  <2> QED BY <1>7, <2>1, <2>2, <2>3
<1> HIDE DEF S
<1>8. N \in S
  BY <1>0, <1>6, <1>7, Induction
<1>9. Total(f) = s[N]
  BY <1>0, <1>4, <1>8 DEF S, c
<1> QED BY <1>1, <1>9
\* Sums grow with what is added up.
LEMMA TotalGrows ==
  ASSUME NEW f \in [Times -> Nat], NEW g \in [Times -> Nat], \A t \in Times : f[t] <= g[t]
  PROVE  Total(f) \in Nat /\ Total(f) <= Total(g)
<1> DEFINE N == MaxTime + 1
<1>0. N \in Nat
  BY SessionsAssumption
<1>1. PICK a \in [0..N -> Nat] : Adds(f, a, N) /\ Total(f) = a[N]
  BY TotalIs
<1>2. PICK b \in [0..N -> Nat] : Adds(g, b, N) /\ Total(g) = b[N]
  BY TotalIs
<1> DEFINE S == {n \in Nat : n <= N => a[n] <= b[n]}
<1>3. 0 \in S
  BY <1>1, <1>2 DEF Adds
<1>4. ASSUME NEW n \in Nat, n \in S PROVE n + 1 \in S
  <2> SUFFICES ASSUME n + 1 <= N PROVE a[n + 1] <= b[n + 1]
    OBVIOUS
  <2>1. n + 1 \in 1..N /\ n \in 0..N /\ n \in Times /\ (n + 1) - 1 = n
    BY <1>0, SessionsAssumption DEF Times
  <2>2. a[n + 1] = a[n] + f[n] /\ b[n + 1] = b[n] + g[n]
    BY <1>1, <1>2, <2>1 DEF Adds
  <2>3. a[n] \in Nat /\ b[n] \in Nat /\ f[n] \in Nat /\ g[n] \in Nat /\ f[n] <= g[n] /\ a[n] <= b[n]
    BY <1>4, <2>1
  <2> QED BY <2>2, <2>3
<1> HIDE DEF S
<1>5. N \in S
  BY <1>0, <1>3, <1>4, Induction
<1> QED BY <1>0, <1>1, <1>2, <1>5 DEF S

\* One more at some time is one more in all.
LEMMA TotalCounts ==
  ASSUME NEW f \in [Times -> Nat], NEW k \in Times
  PROVE  Total([f EXCEPT ![k] = @ + 1]) = Total(f) + 1
<1> DEFINE N == MaxTime + 1
           g == [f EXCEPT ![k] = @ + 1]
<1>0. N \in Nat /\ k \in Nat /\ k < N /\ g \in [Times -> Nat]
  BY SessionsAssumption DEF Times
<1>1. PICK a \in [0..N -> Nat] : Adds(f, a, N) /\ Total(f) = a[N]
  BY TotalIs
<1>2. PICK b \in [0..N -> Nat] : Adds(g, b, N) /\ Total(g) = b[N]
  BY <1>0, TotalIs
<1> DEFINE S == {n \in Nat : n <= N => b[n] = a[n] + (IF n > k THEN 1 ELSE 0)}
<1>3. 0 \in S
  BY <1>0, <1>1, <1>2 DEF Adds
<1>4. ASSUME NEW n \in Nat, n \in S PROVE n + 1 \in S
  <2> SUFFICES ASSUME n + 1 <= N PROVE b[n + 1] = a[n + 1] + (IF n + 1 > k THEN 1 ELSE 0)
    OBVIOUS
  <2>1. n + 1 \in 1..N /\ n \in 0..N /\ n \in Times /\ (n + 1) - 1 = n
    BY <1>0, SessionsAssumption DEF Times
  <2>2. a[n + 1] = a[n] + f[n] /\ b[n + 1] = b[n] + g[n]
    BY <1>1, <1>2, <2>1 DEF Adds
  <2>3. g[n] = IF n = k THEN f[n] + 1 ELSE f[n]
    BY <2>1
  <2>4. a[n] \in Nat /\ f[n] \in Nat /\ b[n] = a[n] + (IF n > k THEN 1 ELSE 0)
    BY <1>4, <2>1
  <2> HIDE DEF g
  <2> QED BY <1>0, <2>2, <2>3, <2>4
<1> HIDE DEF S
<1>5. N \in S
  BY <1>0, <1>3, <1>4, Induction
<1> QED BY <1>0, <1>1, <1>2, <1>5 DEF S

\* Nothing adds up to nothing.
LEMMA TotalOfNone ==
  Total([t \in Times |-> 0]) = 0
<1> DEFINE N == MaxTime + 1
           z == [t \in Times |-> 0]
<1>0. N \in Nat /\ z \in [Times -> Nat] /\ \A t \in Times : z[t] = 0
  BY SessionsAssumption
<1> HIDE DEF z
<1>1. PICK a \in [0..N -> Nat] : Adds(z, a, N) /\ Total(z) = a[N]
  BY <1>0, TotalIs
<1> DEFINE S == {n \in Nat : n <= N => a[n] = 0}
<1>2. 0 \in S
  BY <1>1 DEF Adds
<1>3. ASSUME NEW n \in Nat, n \in S PROVE n + 1 \in S
  <2> SUFFICES ASSUME n + 1 <= N PROVE a[n + 1] = 0
    OBVIOUS
  <2>1. n + 1 \in 1..N /\ n \in 0..N /\ n \in Times /\ (n + 1) - 1 = n
    BY <1>0, SessionsAssumption DEF Times
  <2>2. a[n + 1] = a[n] + z[n]
    BY <1>1, <2>1 DEF Adds
  <2> QED BY <1>0, <1>3, <2>1, <2>2
<1> HIDE DEF S
<1>4. N \in S
  BY <1>0, <1>2, <1>3, Induction
<1> QED BY <1>0, <1>1, <1>4 DEF S, z

------------------------------------------------------------------------------
\* The limit on wrong passwords.

\* The logins of a name that have passed the limit and may still be answered with
\* a wrong password.
Pending(u) == {l \in Logins : login[l].user = u /\ login[l].phase \in {"allowed", "wrong"}}

InWindow(t) == t + Window > now

\* Every answer within the window is among the attempts; nothing older is counted,
\* and who passes the limit finds room for every other login.
LimitInv ==
  \A u \in Names :
    /\ \A t \in Times : /\ refusals[u][t] # 0 => t <= now /\ InWindow(t)
                        /\ InWindow(t) => refusals[u][t] <= attempts[u][t]
    /\ Total(refusals[u]) + Cardinality(Pending(u)) < Attempts + Cardinality(Logins)

\* Logins are counted.
LEMMA PendingCount ==
  ASSUME NEW u \in Names
  PROVE  /\ IsFiniteSet(Pending(u)) /\ Cardinality(Pending(u)) \in Nat
         /\ Cardinality(Logins) \in Nat /\ Cardinality(Pending(u)) <= Cardinality(Logins)
<1>1. Pending(u) \subseteq Logins
  BY DEF Pending
<1> QED BY <1>1, SessionsAssumption, FS_Subset, FS_CardinalityType

\* In the next state too, and leaving does not make them more.
LEMMA PendingCountNext ==
  ASSUME NEW u \in Names
  PROVE  /\ Cardinality(Pending(u)') \in Nat /\ Cardinality(Pending(u)') <= Cardinality(Logins)
         /\ Pending(u)' \subseteq Pending(u) => Cardinality(Pending(u)') <= Cardinality(Pending(u))
<1>1. Pending(u)' \subseteq Logins
  BY DEF Pending
<1>2. IsFiniteSet(Pending(u))
  BY PendingCount
<1> QED BY <1>1, <1>2, SessionsAssumption, FS_Subset, FS_CardinalityType

\* Nothing is lost while no answer is given, no time passes, and logins only leave.
LEMMA LimitStays ==
  ASSUME MemoryType, LimitInv, UNCHANGED <<now, refusals>>,
         \A u \in Names, t \in Times : InWindow(t) => attempts'[u][t] = attempts[u][t],
         NEW v \in Names, Pending(v)' \subseteq Pending(v)
  PROVE  /\ \A t \in Times : /\ refusals[v][t] # 0 => t <= now /\ InWindow(t)
                             /\ InWindow(t) => refusals[v][t] <= attempts'[v][t]
         /\ Total(refusals[v]) + Cardinality(Pending(v)') < Attempts + Cardinality(Logins)
<1>1. Total(refusals[v]) \in Nat
  <2>1. refusals[v] \in [Times -> Nat]
    BY DEF MemoryType
  <2> QED BY <2>1, TotalGrows
<1> QED BY <1>1, PendingCount, PendingCountNext, SessionsAssumption DEF LimitInv

\* A login that passes the limit.
LEMMA LimitPasses ==
  ASSUME MemoryType, LimitInv, NEW l \in Logins, NEW u \in Names, CheckLimit(l, u)
  PROVE  LimitInv'
<1> DEFINE recent == Recent(attempts[u])
<1>1. /\ UNCHANGED <<now, refusals>> /\ login[l].phase = "idle"
      /\ attempts' = [attempts EXCEPT ![u] = recent]
      /\ login' = login \/ (/\ ~Limited(Total(recent))
                            /\ login' = [login EXCEPT ![l] = [Idle EXCEPT !.phase = "allowed", !.user = u]])
  BY DEF CheckLimit
<1>2. recent \in [Times -> Nat] /\ \A t \in Times :
        recent[t] = IF t <= now /\ now - t < Window THEN attempts[u][t] ELSE 0
  BY DEF Recent, MemoryType
<1>3. \A t \in Times : t <= now /\ now - t < Window <=> t <= now /\ InWindow(t)
  BY SessionsAssumption DEF InWindow, Times, MemoryType
<1> HIDE DEF recent
<1>4. ASSUME NEW v \in Names, NEW t \in Times
      PROVE  /\ refusals[v][t] # 0 => t <= now /\ InWindow(t)
             /\ InWindow(t) => refusals[v][t] <= attempts'[v][t]
  <2>1. refusals[v][t] \in Nat /\ attempts[v][t] \in Nat
    BY DEF MemoryType
  <2>2. v # u => attempts'[v] = attempts[v]
    BY <1>1 DEF MemoryType
  <2>3. v = u => attempts'[v] = recent
    BY <1>1 DEF MemoryType
  <2> QED BY <1>2, <1>3, <2>1, <2>2, <2>3 DEF LimitInv
<1>5. ASSUME NEW v \in Names
      PROVE  Total(refusals[v]) + Cardinality(Pending(v)') < Attempts + Cardinality(Logins)
  <2>0. refusals[v] \in [Times -> Nat] /\ Total(refusals[v]) \in Nat
    <3>1. refusals[v] \in [Times -> Nat]
      BY DEF MemoryType
    <3> QED BY <3>1, TotalGrows
  <2>1. CASE Pending(v)' \subseteq Pending(v)
    BY <2>0, <2>1, PendingCount, PendingCountNext, SessionsAssumption DEF LimitInv
  <2>2. CASE ~(Pending(v)' \subseteq Pending(v))
    <3>1. v = u /\ ~Limited(Total(recent))
      BY <1>1, <2>2 DEF Pending, MemoryType, Idle
    <3>2. \A t \in Times : refusals[v][t] <= recent[t]
      BY <1>2, <1>3, <3>1 DEF LimitInv, MemoryType
    <3>3. Total(refusals[v]) <= Total(recent)
      BY <1>2, <2>0, <3>2, TotalGrows
    <3>4. Total(recent) \in Nat /\ Total(recent) < Attempts
      BY <1>2, <3>1, TotalGrows, SessionsAssumption DEF Limited
    <3> QED BY <2>0, <3>3, <3>4, PendingCountNext, PendingCount, SessionsAssumption
  <2> QED BY <2>1, <2>2
<1> QED BY <1>1, <1>4, <1>5 DEF LimitInv, InWindow

\* A wrong password is answered and recorded.
LEMMA LimitRecords ==
  ASSUME MemoryType, LimitInv, NEW l \in Logins, RecordAttempt(l)
  PROVE  LimitInv'
<1> DEFINE u == login[l].user
<1>1. /\ UNCHANGED now /\ login[l].phase = "wrong" /\ u \in Names /\ now \in Times
      /\ attempts' = [attempts EXCEPT ![u][now] = @ + 1]
      /\ refusals' = [refusals EXCEPT ![u][now] = @ + 1]
      /\ login' = [login EXCEPT ![l] = Idle]
  BY DEF RecordAttempt, MemoryType
<1>2. InWindow(now) /\ now <= now
  BY SessionsAssumption DEF InWindow, Times, MemoryType
<1> HIDE DEF u
<1>3. ASSUME NEW v \in Names, NEW t \in Times
      PROVE  /\ refusals'[v][t] # 0 => t <= now /\ InWindow(t)
             /\ InWindow(t) => refusals'[v][t] <= attempts'[v][t]
  <2>1. refusals[v][t] \in Nat /\ attempts[v][t] \in Nat
    BY DEF MemoryType
  <2>2. v = u /\ t = now => refusals'[v][t] = refusals[v][t] + 1 /\ attempts'[v][t] = attempts[v][t] + 1
    BY <1>1 DEF MemoryType
  <2>3. ~(v = u /\ t = now) => refusals'[v][t] = refusals[v][t] /\ attempts'[v][t] = attempts[v][t]
    BY <1>1 DEF MemoryType
  <2> QED BY <1>2, <2>1, <2>2, <2>3 DEF LimitInv
<1>4. ASSUME NEW v \in Names
      PROVE  Total(refusals'[v]) + Cardinality(Pending(v)') < Attempts + Cardinality(Logins)
  <2>0. refusals[v] \in [Times -> Nat] /\ Total(refusals[v]) \in Nat
    <3>1. refusals[v] \in [Times -> Nat]
      BY DEF MemoryType
    <3> QED BY <3>1, TotalGrows
  <2>1. CASE v # u
    <3>1. refusals'[v] = refusals[v] /\ Pending(v)' \subseteq Pending(v)
      BY <1>1, <2>1 DEF Pending, MemoryType, Idle
    <3> QED BY <2>0, <3>1, PendingCount, PendingCountNext, SessionsAssumption DEF LimitInv
  <2>2. CASE v = u
    <3>1. refusals'[v] = [refusals[v] EXCEPT ![now] = @ + 1]
      BY <1>1, <2>2 DEF MemoryType
    <3>2. Total(refusals'[v]) = Total(refusals[v]) + 1
      BY <1>1, <2>0, <3>1, TotalCounts
    <3>3. Pending(v)' = Pending(v) \ {l} /\ l \in Pending(v)
      BY <1>1, <2>2 DEF Pending, MemoryType, Idle, u
    <3>4. Cardinality(Pending(v)') = Cardinality(Pending(v)) - 1
      BY <3>3, PendingCount, FS_RemoveElement
    <3> QED BY <2>0, <3>2, <3>4, PendingCount, SessionsAssumption DEF LimitInv
  <2> QED BY <2>1, <2>2
<1> QED BY <1>1, <1>3, <1>4 DEF LimitInv, InWindow

\* Time passes, and answers fall out of the window.
LEMMA LimitTicks ==
  ASSUME MemoryType, LimitInv, Tick
  PROVE  LimitInv'
<1>1. /\ now' = now + 1 /\ UNCHANGED <<attempts, login>> /\ now \in Nat
      /\ refusals' = [u \in Names |-> [t \in Times |-> IF InWindow(t)' THEN refusals[u][t] ELSE 0]]
  BY DEF Tick, InWindow, MemoryType, Times
<1>2. ASSUME NEW v \in Names, NEW t \in Times
      PROVE  /\ refusals'[v][t] # 0 => t <= now' /\ InWindow(t)'
             /\ InWindow(t)' => refusals'[v][t] <= attempts'[v][t]
             /\ refusals'[v][t] \in Nat /\ refusals'[v][t] <= refusals[v][t]
  <2>0. t \in Nat
    BY DEF Times
  <2>1. refusals[v][t] \in Nat /\ attempts[v][t] \in Nat
    BY DEF MemoryType
  <2>2. refusals'[v][t] = IF InWindow(t)' THEN refusals[v][t] ELSE 0
    BY <1>1
  <2>3. InWindow(t)' => InWindow(t)
    BY <1>1, <2>0, SessionsAssumption DEF InWindow
  <2>4. /\ refusals[v][t] # 0 => t <= now
        /\ InWindow(t) => refusals[v][t] <= attempts[v][t]
    BY DEF LimitInv
  <2> HIDE DEF InWindow
  <2> QED BY <1>1, <2>0, <2>1, <2>2, <2>3, <2>4
<1>3. ASSUME NEW v \in Names
      PROVE  Total(refusals'[v]) + Cardinality(Pending(v)') < Attempts + Cardinality(Logins)
  <2>1. refusals[v] \in [Times -> Nat] /\ refusals'[v] \in [Times -> Nat]
    BY <1>1, <1>2 DEF MemoryType
  <2>2. Total(refusals'[v]) \in Nat /\ Total(refusals[v]) \in Nat
        /\ Total(refusals'[v]) <= Total(refusals[v])
    BY <1>2, <2>1, TotalGrows
  <2>3. Pending(v)' = Pending(v)
    BY <1>1 DEF Pending
  <2> QED BY <2>2, <2>3, PendingCount, SessionsAssumption DEF LimitInv
<1> QED BY <1>2, <1>3 DEF LimitInv

\* A process begins with no attempts and no logins.
LEMMA LimitBegins ==
  /\ Init => LimitInv
  /\ Empty => LimitInv'
<1>1. Total([t \in Times |-> 0]) = 0 /\ Cardinality({}) = 0 /\ Cardinality(Logins) \in Nat
  BY TotalOfNone, FS_EmptySet, FS_CardinalityType, SessionsAssumption
<1>2. ASSUME Init PROVE LimitInv
  <2>1. \A u \in Names : Pending(u) = {} /\ refusals[u] = [t \in Times |-> 0] /\ attempts[u] = refusals[u]
    BY <1>2 DEF Init, NoAttempts, Pending, Idle
  <2>2. \A u \in Names, t \in Times : refusals[u][t] = 0 /\ attempts[u][t] = 0
    BY <2>1
  <2>3. \A u \in Names : Total(refusals[u]) + Cardinality(Pending(u)) < Attempts + Cardinality(Logins)
    BY <1>1, <2>1, SessionsAssumption
  <2> QED BY <2>2, <2>3 DEF LimitInv
<1>3. ASSUME Empty PROVE LimitInv'
  <2>1. \A u \in Names : Pending(u)' = {} /\ refusals'[u] = [t \in Times |-> 0] /\ attempts'[u] = refusals'[u]
    BY <1>3 DEF Empty, NoAttempts, Pending, Idle
  <2>2. \A u \in Names, t \in Times : refusals'[u][t] = 0 /\ attempts'[u][t] = 0
    BY <2>1
  <2>3. \A u \in Names : Total(refusals'[u]) + Cardinality(Pending(u)') < Attempts + Cardinality(Logins)
    BY <1>1, <2>1, SessionsAssumption
  <2> QED BY <2>2, <2>3 DEF LimitInv
<1> QED BY <1>2, <1>3

\* Every step keeps the limit.
LEMMA LimitInductive ==
  ASSUME MemoryType, LimitInv, [Next]_vars
  PROVE  LimitInv'
<1>1. CASE UNCHANGED <<now, attempts, refusals, login>>
  BY <1>1 DEF LimitInv, InWindow, Pending
<1>2. CASE Empty
  BY <1>2, LimitBegins
<1>3. ASSUME NEW l \in Logins, Authenticate(l) \/ \E i \in Ids : CreateSession(l, i)
      PROVE  LimitInv'
  <2>1. UNCHANGED <<now, attempts, refusals>>
    BY <1>3 DEF Authenticate, CreateSession
  <2>2. ASSUME NEW v \in Names PROVE Pending(v)' \subseteq Pending(v)
    <3>1. CASE Authenticate(l)
      <4>1. login[l].phase = "allowed" /\ login'[l].user = login[l].user
            /\ \A k \in Logins : k # l => login'[k] = login[k]
        BY <3>1 DEF Authenticate, MemoryType
      <4>2. ASSUME NEW k \in Pending(v)' PROVE k \in Pending(v)
        <5>1. k \in Logins /\ login'[k].user = v /\ login'[k].phase \in {"allowed", "wrong"}
          BY <4>2 DEF Pending
        <5>2. login[k].user = v /\ login[k].phase \in {"allowed", "wrong"}
          BY <4>1, <5>1
        <5> QED BY <5>1, <5>2 DEF Pending
      <4> QED BY <4>2
    <3>2. CASE \E i \in Ids : CreateSession(l, i)
      <4>1. login' = [login EXCEPT ![l] = Idle]
        BY <3>2 DEF CreateSession
      <4>2. \A k \in Logins : login'[k] = IF k = l THEN Idle ELSE login[k]
        BY <4>1 DEF MemoryType
      <4>3. Idle.phase \notin {"allowed", "wrong"}
        BY DEF Idle
      <4> QED BY <4>2, <4>3 DEF Pending
    <3> QED BY <1>3, <3>1, <3>2
  <2> QED BY <2>1, <2>2, LimitStays DEF LimitInv, InWindow
<1>4. CASE Starting \/ Editing \/ Stopping
  BY <1>1, <1>2, <1>4 DEF Starting, Editing, Stopping, memory
<1>5. CASE \/ \E u \in Names, role \in Grants : CreateUser(u, role)
           \/ \E u \in Names : DeleteUser(u)
  BY <1>1, <1>2, <1>5 DEF CreateUser, DeleteUser, Kept, memory
<1>6. CASE Cleanup \/ \E i \in Ids : Logout(i)
  BY <1>1, <1>6 DEF Cleanup, Logout
<1>7. CASE UNCHANGED vars
  BY <1>1, <1>7 DEF vars, memory
<1> QED BY <1>3, <1>4, <1>5, <1>6, <1>7, LimitPasses, LimitRecords, LimitTicks DEF Next

\* However many logins run at once and whenever attempts are dropped, no more wrong
\* passwords are answered within any window than the limit and the logins that had
\* passed it together.
THEOREM RefusalsBounded == Spec => []RefusalsAreBounded
<1> DEFINE I == TypeOKAccounts /\ Keyed /\ MemoryType /\ LimitInv
<1>1. Init => I
  BY AccountsInit, MemoryInit, LimitBegins
<1>2. I /\ [Next]_vars => I'
  BY StepOfAccounts, AccountsType, MemoryInductive, LimitInductive
<1>3. I => RefusalsAreBounded
  <2> SUFFICES ASSUME I, NEW u \in Names
               PROVE  Total(refusals[u]) < Attempts + Cardinality(Logins)
    BY DEF RefusalsAreBounded
  <2>1. refusals[u] \in [Times -> Nat]
    BY DEF MemoryType
  <2>2. Total(refusals[u]) \in Nat
    BY <2>1, TotalGrows
  <2> QED BY <2>2, PendingCount, SessionsAssumption DEF LimitInv
<1> QED BY <1>1, <1>2, <1>3, PTL DEF Spec
=============================================================================
