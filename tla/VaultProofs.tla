----------------------------- MODULE VaultProofs -----------------------------
(***************************************************************************)
(* Proofs about Vault, for any number of profiles, threads and values and     *)
(* whatever clients do: between saves settings.json says what the memory      *)
(* says, sealed with the key of the mode the storage is in.                   *)
(*                                                                         *)
(* The argument: a field in memory is clear, or an empty blob of the machine  *)
(* key, or a blob of the password's key that nobody has unlocked since the    *)
(* engine was started (Blobs); and what is written after a save by a locked    *)
(* session has no clear field left to be replaced by an empty one (TornBlobs). *)
(*                                                                         *)
(* What users asked for stays if calls that write profiles take turns         *)
(* (Serial): then what a call has read is still so when it writes (EditInv),   *)
(* with the secrets it was shown (SecretInv).                                 *)
(***************************************************************************)
EXTENDS Vault, TLAPS

Profiles == [Ids -> Profile \cup {None}]

-----------------------------------------------------------------------------
(* Sealing and unsealing *)

\* A field stays a field, and sealed is sealed.
LEMMA SealField ==
    ASSUME NEW f \in Field, NEW use, NEW prot, NEW ses \in Key
    PROVE  Seal(f, use, prot, ses) \in Field
BY VaultAssumption DEF Seal, Field, Key, Machine, NoKey, Value

LEMMA UnsealField ==
    ASSUME NEW f \in Field, NEW use, NEW ses
    PROVE  Unseal(f, use, ses) \in Field
BY VaultAssumption DEF Unseal, Clear, Field, Key, Machine, NoKey, Value

\* Profile by profile, only the secret changes.
LEMMA SealAllEach ==
    ASSUME NEW ps \in Profiles, NEW use, NEW prot, NEW ses \in Key
    PROVE  /\ SealAll(ps, use, prot, ses) \in Profiles
           /\ \A i \in Ids :
                /\ SealAll(ps, use, prot, ses)[i] = None <=> ps[i] = None
                /\ ps[i] # None =>
                    /\ SealAll(ps, use, prot, ses)[i].rule = ps[i].rule
                    /\ SealAll(ps, use, prot, ses)[i].secret =
                           Seal(ps[i].secret, use, prot, ses)
<1> SUFFICES ASSUME NEW i \in Ids, ps[i] # None
             PROVE  LET q == [ps[i] EXCEPT !.secret = Seal(@, use, prot, ses)]
                    IN  /\ q \in Profile
                        /\ q.rule = ps[i].rule
                        /\ q.secret = Seal(ps[i].secret, use, prot, ses)
  BY VaultAssumption DEF SealAll, Profiles
<1>1. ps[i] \in Profile
  BY DEF Profiles
<1>2. Seal(ps[i].secret, use, prot, ses) \in Field
  BY <1>1, SealField DEF Profile
<1> QED BY <1>1, <1>2 DEF Profile

LEMMA UnsealAllEach ==
    ASSUME NEW ps \in Profiles, NEW use, NEW ses
    PROVE  /\ UnsealAll(ps, use, ses) \in Profiles
           /\ \A i \in Ids :
                /\ UnsealAll(ps, use, ses)[i] = None <=> ps[i] = None
                /\ ps[i] # None =>
                    /\ UnsealAll(ps, use, ses)[i].rule = ps[i].rule
                    /\ UnsealAll(ps, use, ses)[i].secret = Unseal(ps[i].secret, use, ses)
<1> SUFFICES ASSUME NEW i \in Ids, ps[i] # None
             PROVE  LET q == [ps[i] EXCEPT !.secret = Unseal(@, use, ses)]
                    IN  /\ q \in Profile
                        /\ q.rule = ps[i].rule
                        /\ q.secret = Unseal(ps[i].secret, use, ses)
  BY VaultAssumption DEF UnsealAll, Profiles
<1>1. ps[i] \in Profile
  BY DEF Profiles
<1>2. Unseal(ps[i].secret, use, ses) \in Field
  BY <1>1, UnsealField DEF Profile
<1> QED BY <1>1, <1>2 DEF Profile

-----------------------------------------------------------------------------
(* The inductive invariant *)

\* The storage is protected when there is a wrapped key, and uses no other.
StorageInv ==
    /\ session \in Key /\ wrapped \in Key /\ keys \in 0..MaxKeys
    /\ wrapped # Machine
    /\ protected <=> wrapped # NoKey
    /\ ~protected => usable
    /\ session \in {NoKey, wrapped}
    /\ protected /\ usable => session = wrapped

\* A field in memory: clear, an empty blob, or one that waits for the password.
Fit(f, w, ses) ==
    \/ f.key = NoKey
    \/ f.key = Machine /\ f.secret = Empty
    \/ w # NoKey /\ f.key = w /\ ses = NoKey

\* A field on disk.
Sealed(f, w) ==
    \/ f.key = (IF w = NoKey THEN Machine ELSE w)
    \/ f.key = Machine /\ f.secret = Empty

Blobs ==
    /\ settings \in Profiles
    /\ \A i \in Ids : settings[i] # None => Fit(settings[i].secret, wrapped, session)

\* A session that is locked has sealed everything when it writes.
TornBlobs ==
    file = Torn /\ ~usable =>
        \A i \in Ids : settings[i] # None => settings[i].secret.key # NoKey

FileInv ==
    /\ file \in FileType \cup {Torn}
    /\ file # Torn => \A i \in Ids :
           file.profiles[i] # None => Sealed(file.profiles[i].secret, file.wrapped)

\* Who is to disable the password has been unlocked, or is not protected.
DisableInv == \A t \in Threads : pc[t] = "disable" => ~protected \/ session = wrapped

MaskedView == [secret : Value \cup {Same}, hidden : BOOLEAN, rule : Rules]

\* The calls under way: the mask is gone before a profile is listed.
CallsInv ==
    /\ pc \in [Threads -> {"idle", "put", "mask", "lockcheck", "stored", "update", "remove", "set",
                         "disable"}]
    /\ list \in [Threads -> [Ids -> View \cup {None}]]
    /\ job \in [Threads -> [id : Ids \cup {None}, user : BOOLEAN, asked : Secrets \cup {Same},
                            view : MaskedView \cup {None}]]
    /\ \A t \in Threads :
        /\ pc[t] \in {"put", "mask"} => job[t].id \in Ids /\ job[t].view \in MaskedView
        /\ pc[t] \in {"lockcheck", "stored", "update"} => job[t].id \in Ids /\ job[t].view \in View

IInv ==
    StorageInv /\ Blobs /\ TornBlobs /\ FileInv /\ DisableInv /\ CallsInv /\ RestartLosesNothing

-----------------------------------------------------------------------------
(* One field *)

\* A save leaves a field that fits, and none clear when the session is locked.
LEMMA SaveField ==
    ASSUME NEW f \in Field, NEW use, NEW prot, NEW ses \in Key, NEW w \in Key,
           w # Machine, prot <=> w # NoKey, ~prot => use, prot /\ use => ses = w,
           Fit(f, w, ses)
    PROVE  LET g == Unseal(Seal(f, use, prot, ses), use, ses)
           IN  Fit(g, w, ses) /\ (~use => g.key # NoKey)
BY VaultAssumption DEF Unseal, Seal, Clear, Fit, Field, Key, Machine, NoKey, Value

\* What is written stands for what is in memory.
LEMMA WriteField ==
    ASSUME NEW f \in Field, Fit(f, wrapped, session), StorageInv, ~usable => f.key # NoKey
    PROVE  LET g == Seal(f, usable, protected, session)
           IN  Sealed(g, wrapped) /\ Recovered(g, wrapped) = Recovered(f, wrapped)
BY VaultAssumption
   DEF Seal, Fit, Sealed, Recovered, StorageInv, Field, Key, Machine, NoKey, Value

\* Unlocking changes no value.
LEMMA UnlockField ==
    ASSUME NEW f \in Field, Fit(f, wrapped, session), StorageInv, wrapped # NoKey, NEW use, use
    PROVE  LET g == Unseal(f, use, wrapped)
           IN  Fit(g, wrapped, wrapped) /\ Recovered(g, wrapped) = Recovered(f, wrapped)
BY VaultAssumption
   DEF Unseal, Clear, Fit, Recovered, StorageInv, Field, Key, Machine, NoKey, Value

\* Nor does loading.
LEMMA LoadField ==
    ASSUME NEW f \in Field, NEW w \in Key, Sealed(f, w), w # Machine
    PROVE  LET g == Unseal(f, w = NoKey, NoKey)
           IN  Fit(g, w, NoKey) /\ Recovered(f, w) = Recovered(g, w)
BY VaultAssumption DEF Unseal, Clear, Fit, Sealed, Recovered, Field, Key, Machine, NoKey, Value

-----------------------------------------------------------------------------
(* The steps *)

\* Truncating the file makes the claims about its content void.
LEMMA SaveInv ==
    ASSUME StorageInv', NEW ps \in Profiles, Save(ps),
           \A i \in Ids : ps[i] # None => Fit(ps[i].secret, wrapped', session')
    PROVE  (Blobs /\ TornBlobs /\ FileInv /\ RestartLosesNothing)'
<1> DEFINE sealed == SealAll(ps, usable', protected', session')
<1>1. session' \in Key /\ wrapped' \in Key
  BY DEF StorageInv
<1>2. file' = Torn /\ settings' = UnsealAll(sealed, usable', session')
  BY DEF Save
<1>3. sealed \in Profiles
  BY <1>1, SealAllEach
<1>4. settings' \in Profiles
  BY <1>2, <1>3, UnsealAllEach
<1>5. ASSUME NEW i \in Ids, settings'[i] # None
      PROVE  Fit(settings'[i].secret, wrapped', session')
             /\ (~usable' => settings'[i].secret.key # NoKey)
  <2>1. sealed[i] # None
    BY <1>2, <1>3, <1>5, UnsealAllEach
  <2>2. ps[i] # None
    BY <1>1, <2>1, SealAllEach
  <2>3. settings'[i].secret =
            Unseal(Seal(ps[i].secret, usable', protected', session'), usable', session')
    <3>1. sealed[i].secret = Seal(ps[i].secret, usable', protected', session')
      BY <1>1, <2>2, SealAllEach
    <3>2. settings'[i].secret = Unseal(sealed[i].secret, usable', session')
      BY <1>2, <1>3, <2>1, UnsealAllEach
    <3> QED BY <3>1, <3>2
  <2>4. ps[i].secret \in Field
    BY <2>2 DEF Profiles, Profile
  <2>5. /\ wrapped' # Machine /\ (protected' <=> wrapped' # NoKey)
        /\ (~protected' => usable') /\ (protected' /\ usable' => session' = wrapped')
    BY DEF StorageInv
  <2> HIDE DEF sealed
  <2> QED BY <1>1, <2>2, <2>3, <2>4, <2>5, SaveField
<1> HIDE DEF sealed
<1> QED BY <1>2, <1>4, <1>5 DEF Blobs, TornBlobs, FileInv, RestartLosesNothing

\* What SetProfiles stores is what it was given, or what was there.
LEMMA StoredFits ==
    ASSUME CallsInv, Blobs, NEW t \in Threads
    PROVE  LET ps == [i \in Ids |-> Stored(list[t], i)]
           IN  /\ ps \in Profiles
               /\ \A i \in Ids : ps[i] # None => Fit(ps[i].secret, wrapped, session)
<1> SUFFICES ASSUME NEW i \in Ids
             PROVE  /\ Stored(list[t], i) \in Profile \cup {None}
                    /\ Stored(list[t], i) # None => Fit(Stored(list[t], i).secret, wrapped, session)
  BY DEF Profiles
<1>1. list[t][i] \in View \cup {None}
  BY DEF CallsInv
<1>2. CASE list[t][i] = None
  BY <1>2 DEF Stored
<1>3. CASE list[t][i] # None
  <2>1. list[t][i].rule \in Rules /\ list[t][i].secret \in Value
    BY <1>1, <1>3 DEF View
  <2>2. Clear(list[t][i].secret) \in Field /\ Fit(Clear(list[t][i].secret), wrapped, session)
    BY <2>1, VaultAssumption DEF Clear, Field, Key, NoKey, Fit
  <2>3. settings[i] # None =>
            settings[i].secret \in Field /\ Fit(settings[i].secret, wrapped, session)
    BY DEF Blobs, Profiles, Profile
  <2> DEFINE f == IF list[t][i].hidden /\ settings[i] # None
                  THEN settings[i].secret ELSE Clear(list[t][i].secret)
  <2>4. f \in Field /\ Fit(f, wrapped, session)
    BY <2>2, <2>3
  <2>5. Stored(list[t], i) = [rule |-> list[t][i].rule, secret |-> f]
    BY <1>3 DEF Stored
  <2> HIDE DEF f
  <2> QED BY <2>1, <2>4, <2>5 DEF Profile
<1> QED BY <1>2, <1>3

\* The steps of a call that only read.
Reading(t) ==
    \/ BeginProxied(t) \/ BeginEdit(t) \/ FindProfile(t) \/ FillMasked(t) \/ CheckLock(t)
    \/ FillLocked(t) \/ UpdateProfile(t)
    \/ AddProfile(t) \/ BeginDelete(t) \/ RemoveProfile(t) \/ BeginDisable(t)

LEMMA ReadingReads ==
    ASSUME NEW t \in Threads, Reading(t) \/ UNCHANGED vars
    PROVE  UNCHANGED <<settings, storage, file>>
BY DEF Reading, BeginProxied, BeginEdit, FindProfile, FillMasked, CheckLock, FillLocked, UpdateProfile, AddProfile,
       BeginDelete, RemoveProfile, BeginDisable, vars

\* What Restart reads.
LEMMA RestartReads ==
    ASSUME FileInv, StorageInv, RestartLosesNothing, Restart
    PROVE  \E read \in FileType :
              /\ file # Torn => read = file
              /\ read.wrapped # Machine
              /\ \A i \in Ids : read.profiles[i] # None =>
                    Sealed(read.profiles[i].secret, read.wrapped)
              /\ protected' = (read.wrapped # NoKey)
              /\ usable' = (read.wrapped = NoKey)
              /\ session' = NoKey /\ wrapped' = read.wrapped /\ keys' = keys
              /\ settings' = UnsealAll(read.profiles, usable', session')
              /\ file' = read
<1> DEFINE read == IF file = Torn THEN [profiles |-> NoProfiles, wrapped |-> NoKey] ELSE file
<1>1. NoKey \in Key /\ NoKey # Machine
  BY VaultAssumption DEF Key, NoKey, Machine
<1>2. CASE file = Torn
  <2>1. read \in FileType /\ \A i \in Ids : read.profiles[i] = None
    BY <1>1, <1>2 DEF FileType, NoProfiles
  <2>2. read.wrapped = NoKey
    BY <1>2
  <2> QED BY <1>1, <1>2, <2>1, <2>2 DEF Restart
<1>3. CASE file # Torn
  <2>1. read = file /\ read \in FileType
    BY <1>3 DEF FileInv
  <2>2. read.wrapped # Machine
    BY <1>3, <2>1 DEF RestartLosesNothing, StorageInv
  <2> QED BY <1>3, <2>1, <2>2 DEF FileInv, Restart
<1> QED BY <1>2, <1>3

LEMMA NextStorage == IInv /\ [Next]_vars => StorageInv'
<1> SUFFICES ASSUME IInv, [Next]_vars PROVE StorageInv'
  OBVIOUS
<1>0. StorageInv
  BY DEF IInv
<1>1. CASE UNCHANGED storage
  BY <1>0, <1>1 DEF StorageInv, storage
<1>2. CASE EnableMasterPassword
  BY <1>0, <1>2, VaultAssumption DEF EnableMasterPassword, StorageInv, Key, NoKey, Machine
<1>3. ASSUME NEW t \in Threads, DisableMasterPassword(t) PROVE StorageInv'
  BY <1>0, <1>3, VaultAssumption DEF DisableMasterPassword, StorageInv, Key, NoKey, Machine
<1>4. CASE UnlockWithPassword
  BY <1>0, <1>4 DEF UnlockWithPassword, StorageInv
<1>5. CASE Lock
  BY <1>0, <1>5 DEF Lock, StorageInv
<1>6. CASE Restart
  <2>1. FileInv /\ RestartLosesNothing
    BY DEF IInv
  <2>2. NoKey \in Key
    BY VaultAssumption DEF Key, NoKey
  <2> QED BY <1>0, <1>6, <2>1, <2>2, RestartReads DEF StorageInv, FileType
<1>7. ASSUME NEW t \in Threads, Reading(t) \/ SetProfiles(t) PROVE StorageInv'
  BY <1>1, <1>7, ReadingReads DEF SetProfiles
<1>8. CASE WriteFile \/ SaveSetting \/ UNCHANGED vars
  BY <1>1, <1>8 DEF WriteFile, SaveSetting, vars
<1> QED BY <1>2, <1>3, <1>4, <1>5, <1>6, <1>7, <1>8 DEF Next, Call, Reading

LEMMA NextDisable == IInv /\ [Next]_vars => DisableInv'
<1> SUFFICES ASSUME IInv, [Next]_vars PROVE DisableInv'
  OBVIOUS
<1>0. StorageInv /\ DisableInv /\ CallsInv
  BY DEF IInv
<1>1. ASSUME NEW t \in Threads, Reading(t) \/ SetProfiles(t) PROVE DisableInv'
  BY <1>0, <1>1
     DEF Reading, BeginProxied, BeginEdit, FindProfile, FillMasked, CheckLock, FillLocked, UpdateProfile, AddProfile,
         BeginDelete, RemoveProfile, BeginDisable, SetProfiles, Goto, Locked, DisableInv,
         StorageInv, CallsInv, storage
<1>2. ASSUME NEW t \in Threads, DisableMasterPassword(t) PROVE DisableInv'
  BY <1>0, <1>2 DEF DisableMasterPassword, DisableInv, Goto, CallsInv
<1>3. CASE EnableMasterPassword
  BY <1>0, <1>3 DEF EnableMasterPassword, DisableInv, calls
<1>4. CASE UnlockWithPassword
  BY <1>0, <1>4 DEF UnlockWithPassword, DisableInv, calls
<1>5. CASE Lock
  BY <1>0, <1>5 DEF Lock, DisableInv, calls
<1>6. CASE Restart
  BY <1>6 DEF Restart, DisableInv
<1>7. CASE WriteFile \/ SaveSetting \/ UNCHANGED vars
  BY <1>0, <1>7 DEF WriteFile, SaveSetting, vars, calls, storage, DisableInv
<1> QED BY <1>1, <1>2, <1>3, <1>4, <1>5, <1>6, <1>7 DEF Next, Call, Reading

Kept == Blobs /\ TornBlobs /\ FileInv /\ RestartLosesNothing

LEMMA FieldsFit ==
    ASSUME Blobs, NEW i \in Ids, settings[i] # None
    PROVE  /\ settings[i] \in Profile /\ settings[i].secret \in Field
           /\ Fit(settings[i].secret, wrapped, session)
BY DEF Blobs, Profiles, Profile

LEMMA WriteKeeps == IInv /\ WriteFile => Kept'
<1> SUFFICES ASSUME IInv, WriteFile PROVE Kept'
  OBVIOUS
<1>0. StorageInv /\ Blobs /\ TornBlobs
  BY DEF IInv
<1> DEFINE sealed == SealAll(settings, usable, protected, session)
<1>1. /\ file = Torn /\ file' = [profiles |-> sealed, wrapped |-> wrapped]
      /\ UNCHANGED <<settings, usable, protected, session, wrapped>>
  BY DEF WriteFile, storage
<1>2. sealed \in Profiles
  BY <1>0, SealAllEach DEF Blobs, StorageInv
<1>3. file' \in FileType
  BY <1>0, <1>1, <1>2 DEF FileType, Profiles, StorageInv
<1>4. file' # Torn /\ file'.profiles = sealed /\ file'.wrapped = wrapped
  BY <1>1, <1>3, VaultAssumption DEF FileType
<1>5. ASSUME NEW i \in Ids, settings[i] # None
      PROVE  /\ sealed[i].rule = settings[i].rule
             /\ Sealed(sealed[i].secret, wrapped)
             /\ Recovered(sealed[i].secret, wrapped) = Recovered(settings[i].secret, wrapped)
  <2>1. sealed[i].rule = settings[i].rule
        /\ sealed[i].secret = Seal(settings[i].secret, usable, protected, session)
    BY <1>0, <1>5, SealAllEach DEF Blobs, StorageInv
  <2>2. ~usable => settings[i].secret.key # NoKey
    BY <1>0, <1>1, <1>5 DEF TornBlobs
  <2> HIDE DEF sealed
  <2> QED BY <1>0, <1>5, <2>1, <2>2, FieldsFit, WriteField
<1>6. \A i \in Ids : sealed[i] = None <=> settings[i] = None
  BY <1>0, SealAllEach DEF Blobs, StorageInv
<1> HIDE DEF sealed
<1>7. RestartLosesNothing'
  BY <1>1, <1>4, <1>5, <1>6 DEF RestartLosesNothing, Recovered
<1>8. FileInv'
  BY <1>3, <1>4, <1>5, <1>6 DEF FileInv
<1>9. Blobs' /\ TornBlobs'
  BY <1>0, <1>1, <1>4 DEF Blobs, TornBlobs
<1> QED BY <1>7, <1>8, <1>9 DEF Kept

LEMMA UnlockKeeps == IInv /\ UnlockWithPassword => Kept'
<1> SUFFICES ASSUME IInv, UnlockWithPassword PROVE Kept'
  OBVIOUS
<1>0. StorageInv /\ Blobs /\ FileInv /\ RestartLosesNothing
  BY DEF IInv
<1>1. /\ file # Torn /\ protected /\ UNCHANGED <<file, wrapped>>
      /\ session' = wrapped /\ usable'
      /\ settings' = UnsealAll(settings, usable', session')
  BY DEF UnlockWithPassword, MutexFree
<1>a. settings' = UnsealAll(settings, usable', wrapped)
  BY <1>1
<1>b. settings \in Profiles
  BY <1>0 DEF Blobs
<1>2. settings' \in Profiles
  BY <1>a, <1>b, UnsealAllEach
<1>3. \A i \in Ids : settings'[i] = None <=> settings[i] = None
  BY <1>a, <1>b, UnsealAllEach
<1>4. ASSUME NEW i \in Ids, settings[i] # None
      PROVE  /\ settings'[i].rule = settings[i].rule
             /\ Fit(settings'[i].secret, wrapped, wrapped)
             /\ Recovered(settings'[i].secret, wrapped) = Recovered(settings[i].secret, wrapped)
  <2>1. settings'[i].rule = settings[i].rule
        /\ settings'[i].secret = Unseal(settings[i].secret, usable', wrapped)
    BY <1>4, <1>a, <1>b, UnsealAllEach
  <2>2. wrapped # NoKey
    BY <1>0, <1>1 DEF StorageInv
  <2> DEFINE f == settings[i].secret
             g == Unseal(f, usable', wrapped)
  <2>3. f \in Field /\ Fit(f, wrapped, session)
    BY <1>0, <1>4, FieldsFit
  <2>4. usable'
    BY <1>1
  <2> HIDE DEF f
  <2>5. Fit(g, wrapped, wrapped) /\ Recovered(g, wrapped) = Recovered(f, wrapped)
    BY <1>0, <2>2, <2>3, <2>4, UnlockField
  <2> QED BY <2>1, <2>5 DEF f
<1>5. Blobs'
  BY <1>1, <1>2, <1>3, <1>4 DEF Blobs
<1>6. RestartLosesNothing'
  BY ZenonT(40), <1>0, <1>1, <1>3, <1>4 DEF RestartLosesNothing, Recovered
<1>7. FileInv' /\ TornBlobs'
  BY <1>0, <1>1 DEF FileInv, TornBlobs
<1> QED BY <1>5, <1>6, <1>7 DEF Kept

LEMMA RestartKeeps == IInv /\ Restart => Kept'
<1> SUFFICES ASSUME IInv, Restart PROVE Kept'
  OBVIOUS
<1>0. FileInv /\ StorageInv /\ RestartLosesNothing
  BY DEF IInv
<1>1. PICK read \in FileType :
         /\ file # Torn => read = file
         /\ read.wrapped # Machine
         /\ \A i \in Ids : read.profiles[i] # None =>
               Sealed(read.profiles[i].secret, read.wrapped)
         /\ protected' = (read.wrapped # NoKey)
         /\ usable' = (read.wrapped = NoKey)
         /\ session' = NoKey /\ wrapped' = read.wrapped /\ keys' = keys
         /\ settings' = UnsealAll(read.profiles, usable', session')
         /\ file' = read
  BY <1>0, RestartReads
<1>2. read.profiles \in Profiles /\ read.wrapped \in Key
  BY DEF FileType, Profiles
<1>3. settings' = UnsealAll(read.profiles, read.wrapped = NoKey, NoKey)
  BY <1>1
<1>4. settings' \in Profiles /\ \A i \in Ids : settings'[i] = None <=> read.profiles[i] = None
  BY <1>2, <1>3, UnsealAllEach
<1>5. ASSUME NEW i \in Ids, read.profiles[i] # None
      PROVE  /\ settings'[i].rule = read.profiles[i].rule
             /\ Fit(settings'[i].secret, read.wrapped, NoKey)
             /\ Recovered(read.profiles[i].secret, read.wrapped)
                    = Recovered(settings'[i].secret, read.wrapped)
  <2>1. settings'[i].rule = read.profiles[i].rule
        /\ settings'[i].secret = Unseal(read.profiles[i].secret, read.wrapped = NoKey, NoKey)
    BY <1>2, <1>3, <1>5, UnsealAllEach
  <2>2. read.profiles[i].secret \in Field /\ Sealed(read.profiles[i].secret, read.wrapped)
    BY <1>1, <1>2, <1>5 DEF Profiles, Profile
  <2> QED BY <1>1, <1>2, <2>1, <2>2, LoadField
<1>6. file' # Torn
  BY <1>1, VaultAssumption DEF FileType
<1>7. Blobs' /\ TornBlobs'
  BY <1>1, <1>4, <1>5, <1>6 DEF Blobs, TornBlobs
<1>8. FileInv'
  BY <1>1 DEF FileInv
<1>9. RestartLosesNothing'
  BY <1>1, <1>4, <1>5 DEF RestartLosesNothing, Recovered
<1> QED BY <1>7, <1>8, <1>9 DEF Kept

LEMMA NextKeeps == IInv /\ [Next]_vars => Kept'
<1> SUFFICES ASSUME IInv, [Next]_vars, StorageInv' PROVE Kept'
  BY NextStorage
<1>0. StorageInv /\ Blobs /\ TornBlobs /\ FileInv /\ RestartLosesNothing /\ CallsInv /\ DisableInv
  BY DEF IInv
<1>1. ASSUME NEW t \in Threads, Reading(t) \/ UNCHANGED vars PROVE Kept'
  BY <1>0, <1>1, ReadingReads
     DEF Kept, Blobs, TornBlobs, FileInv, RestartLosesNothing, Recovered, storage
<1>2. ASSUME NEW t \in Threads, SetProfiles(t) PROVE Kept'
  <2>1. UNCHANGED <<wrapped, session>> /\ Save([i \in Ids |-> Stored(list[t], i)])
    BY <1>2 DEF SetProfiles, storage
  <2> QED BY <1>0, <2>1, StoredFits, SaveInv DEF Kept
<1>3. ASSUME NEW t \in Threads, DisableMasterPassword(t) PROVE Kept'
  <2>1. session' = NoKey /\ wrapped' = NoKey /\ Save(settings)
    BY <1>3 DEF DisableMasterPassword
  <2>2. ~protected \/ session = wrapped
    BY <1>0, <1>3 DEF DisableMasterPassword, DisableInv
  <2>3. \A i \in Ids : settings[i] # None => Fit(settings[i].secret, wrapped', session')
    BY <1>0, <2>1, <2>2, FieldsFit DEF Fit, StorageInv
  <2> QED BY <1>0, <2>1, <2>3, SaveInv DEF Kept, Blobs
<1>4. CASE EnableMasterPassword
  <2>1. ~protected /\ Save(settings)
    BY <1>4 DEF EnableMasterPassword
  <2>2. \A i \in Ids : settings[i] # None => Fit(settings[i].secret, wrapped', session')
    BY <1>0, <2>1, FieldsFit DEF Fit, StorageInv
  <2> QED BY <1>0, <2>1, <2>2, SaveInv DEF Kept, Blobs
<1>5. CASE SaveSetting
  <2>1. UNCHANGED <<wrapped, session>> /\ Save(settings)
    BY <1>5 DEF SaveSetting, storage
  <2> QED BY <1>0, <2>1, FieldsFit, SaveInv DEF Kept, Blobs
<1>6. CASE Lock
  BY <1>0, <1>6
     DEF Lock, MutexFree, Kept, Blobs, TornBlobs, FileInv, RestartLosesNothing, Recovered
<1>7. CASE UNCHANGED vars
  BY <1>0, <1>7
     DEF Kept, Blobs, TornBlobs, FileInv, RestartLosesNothing, Recovered, storage, vars
<1> QED BY <1>1, <1>2, <1>3, <1>4, <1>5, <1>6, <1>7, WriteKeeps, UnlockKeeps, RestartKeeps
        DEF Next, Call, Reading

-----------------------------------------------------------------------------
(* The calls under way *)

LEMMA ViewIsView ==
    ASSUME Blobs
    PROVE  /\ GetProfiles \in [Ids -> View \cup {None}]
           /\ \A i \in Ids : settings[i] # None => ViewOf(settings[i]) \in View
<1>1. ASSUME NEW i \in Ids PROVE ViewOf(settings[i]) \in View \cup {None}
                                 /\ (settings[i] # None => ViewOf(settings[i]) \in View)
  BY <1>1, FieldsFit DEF ViewOf, View, Profile, Field, Value
<1> QED BY <1>1 DEF GetProfiles

Job == [id : Ids \cup {None}, user : BOOLEAN, asked : Secrets \cup {Same},
        view : MaskedView \cup {None}]

\* What a second look at a profile finds.
LEMMA RereadValue ==
    ASSUME Blobs, NEW i \in Ids
    PROVE  Reread(i) \subseteq Value
BY ViewIsView DEF Reread, View

\* A call goes on with another view of its profile.
LEMMA JobGoesOn ==
    ASSUME CallsInv, NEW t \in Threads, NEW j \in Job, NEW s \in {"lockcheck", "update"},
           j.id \in Ids, j.view \in View, UNCHANGED list,
           job' = [job EXCEPT ![t] = j], pc' = [pc EXCEPT ![t] = s]
    PROVE  CallsInv'
BY DEF CallsInv, Job

\* Filling in a secret that was read makes a view of a masked one.
LEMMA Filled ==
    ASSUME CallsInv, Blobs, NEW t \in Threads, job[t].id \in Ids, job[t].view \in MaskedView,
           NEW s \in Value
    PROVE  LET j == [job[t] EXCEPT !.view.secret = s]
           IN  /\ [job EXCEPT ![t].view.secret = s] = [job EXCEPT ![t] = j]
               /\ j \in Job /\ j.id \in Ids /\ j.view \in View
<1>1. job[t] \in Job
  BY DEF CallsInv, Job
<1>2. [job[t].view EXCEPT !.secret = s] \in View
  BY DEF MaskedView, View
<1>3. View \subseteq MaskedView
  BY DEF MaskedView, View
<1>4. [job[t] EXCEPT !.view.secret = s] = [job[t] EXCEPT !.view = [job[t].view EXCEPT !.secret = s]]
  BY <1>1 DEF Job
<1>5. [job[t] EXCEPT !.view = [job[t].view EXCEPT !.secret = s]] \in Job
  BY <1>1, <1>2, <1>3 DEF Job
<1> QED BY <1>1, <1>2, <1>4, <1>5 DEF Job

\* A job of no call, and the one of a proxied request.
LEMMA NoJobIsJob == NoJob \in Job
BY DEF NoJob, Job

LEMMA ProxiedJob ==
    ASSUME NEW i \in Ids, NEW v \in View
    PROVE  LET j == [NoJob EXCEPT !.id = i, !.view = v]
           IN  j \in Job /\ j.id = i /\ j.view = v
<1>1. v \in MaskedView
  BY DEF View, MaskedView
<1> QED BY <1>1, NoJobIsJob DEF Job

\* A call whose profile is gone ends.
LEMMA JobEnds ==
    ASSUME CallsInv, NEW t \in Threads, UNCHANGED list,
           job' = [job EXCEPT ![t] = NoJob], pc' = [pc EXCEPT ![t] = "idle"]
    PROVE  CallsInv'
BY NoJobIsJob DEF CallsInv, Job

LEMMA NextCalls == IInv /\ [Next]_vars => CallsInv'
<1> SUFFICES ASSUME IInv, [Next]_vars PROVE CallsInv'
  OBVIOUS
<1>0. CallsInv /\ Blobs
  BY DEF IInv
<1> USE DEF CallsInv, Goto, NoJob
<1>1. ASSUME NEW t \in Threads, BeginProxied(t) PROVE CallsInv'
  <2>1. PICK i \in Ids :
           settings[i] # None /\ job' = [job EXCEPT ![t] = [NoJob EXCEPT !.id = i,
                                                            !.view = ViewOf(settings[i])]]
    BY <1>1 DEF BeginProxied
  <2>2. ViewOf(settings[i]) \in View
    BY <1>0, <2>1, ViewIsView
  <2> DEFINE j == [NoJob EXCEPT !.id = i, !.view = ViewOf(settings[i])]
  <2>5. j \in Job /\ j.id \in Ids /\ j.view \in View
    BY <2>2, ProxiedJob
  <2>6. job' = [job EXCEPT ![t] = j]
    BY <2>1
  <2>7. pc' = [pc EXCEPT ![t] = "update"] /\ UNCHANGED list
    BY <1>1 DEF BeginProxied
  <2> HIDE DEF j
  <2> QED BY <1>0, <2>5, <2>6, <2>7, JobGoesOn
<1>2. ASSUME NEW t \in Threads, BeginEdit(t) PROVE CallsInv'
  BY <1>0, <1>2 DEF BeginEdit, MaskedView, Value
<1>3. ASSUME NEW t \in Threads, FillMasked(t) PROVE CallsInv'
  <2>1. job[t].id \in Ids /\ job[t].view \in MaskedView
    BY <1>0, <1>3 DEF FillMasked
  <2>2. pc' = [pc EXCEPT ![t] = "lockcheck"] /\ UNCHANGED list
    BY <1>3 DEF FillMasked
  <2>3. CASE job[t].view.secret = Same
    <3>1. PICK v \in Reread(job[t].id) : job' = [job EXCEPT ![t].view.secret = v]
      BY <1>3, <2>3 DEF FillMasked
    <3>2. v \in Value
      BY <1>0, <2>1, RereadValue
    <3> QED BY <1>0, <2>1, <2>2, <3>1, <3>2, Filled, JobGoesOn
  <2>4. CASE job[t].view.secret # Same
    <3>1. UNCHANGED job
      BY <1>3, <2>4 DEF FillMasked
    <3>2. job[t].view \in View
      BY <2>1, <2>4 DEF View, MaskedView
    <3> QED BY <1>0, <2>1, <2>2, <3>1, <3>2
  <2> QED BY <2>3, <2>4
<1>4. ASSUME NEW t \in Threads, FillLocked(t) PROVE CallsInv'
  <2>1. job[t].id \in Ids /\ job[t].view \in MaskedView
    BY <1>0, <1>4 DEF FillLocked, View, MaskedView
  <2>2. pc' = [pc EXCEPT ![t] = "update"] /\ UNCHANGED list
    BY <1>4 DEF FillLocked
  <2>3. PICK v \in Reread(job[t].id) : job' = [job EXCEPT ![t].view.secret = v]
    BY <1>4 DEF FillLocked
  <2>4. v \in Value
    BY <1>0, <2>1, RereadValue
  <2> QED BY <1>0, <2>1, <2>2, <2>3, <2>4, Filled, JobGoesOn
<1>a. ASSUME NEW t \in Threads, FindProfile(t) PROVE CallsInv'
  <2>1. CASE settings[job[t].id] = None
    <3>1. /\ job' = [job EXCEPT ![t] = NoJob] /\ pc' = [pc EXCEPT ![t] = "idle"]
          /\ UNCHANGED list
      BY <1>a, <2>1 DEF FindProfile
    <3> QED BY <1>0, <3>1, JobEnds
  <2>2. CASE settings[job[t].id] # None
    BY <1>0, <1>a, <2>2 DEF FindProfile
  <2> QED BY <2>1, <2>2
<1>b. ASSUME NEW t \in Threads, CheckLock(t) PROVE CallsInv'
  BY <1>0, <1>b DEF CheckLock
<1>5. ASSUME NEW t \in Threads, UpdateProfile(t) PROVE CallsInv'
  BY <1>0, <1>5, ViewIsView DEF UpdateProfile
<1>6. ASSUME NEW t \in Threads, AddProfile(t) PROVE CallsInv'
  BY <1>0, <1>6, ViewIsView DEF AddProfile, View, MaskedView, Value
<1>7. ASSUME NEW t \in Threads, BeginDelete(t) PROVE CallsInv'
  <2>1. PICK i \in Ids : job' = [job EXCEPT ![t] = [NoJob EXCEPT !.id = i, !.user = TRUE]]
    BY <1>7 DEF BeginDelete
  <2> DEFINE j == [NoJob EXCEPT !.id = i, !.user = TRUE]
  <2>2. j \in Job
    BY NoJobIsJob DEF Job
  <2>3. job' = [job EXCEPT ![t] = j]
    BY <2>1
  <2>4. pc' = [pc EXCEPT ![t] = "remove"] /\ UNCHANGED list
    BY <1>7 DEF BeginDelete
  <2> HIDE DEF j
  <2> QED BY <1>0, <2>2, <2>3, <2>4 DEF Job
<1>8. ASSUME NEW t \in Threads, RemoveProfile(t) PROVE CallsInv'
  <2> DEFINE i == job[t].id
  <2>1. CASE settings[i] = None
    <3>1. /\ job' = [job EXCEPT ![t] = NoJob] /\ pc' = [pc EXCEPT ![t] = "idle"]
          /\ UNCHANGED list
      BY <1>8, <2>1 DEF RemoveProfile
    <3> QED BY <1>0, <3>1, JobEnds
  <2>2. CASE settings[i] # None
    <3>1. [GetProfiles EXCEPT ![i] = None] \in [Ids -> View \cup {None}]
      BY <1>0, ViewIsView
    <3>2. list' = [list EXCEPT ![t] = [GetProfiles EXCEPT ![i] = None]]
          /\ pc' = [pc EXCEPT ![t] = "set"] /\ UNCHANGED job
      BY <1>8, <2>2 DEF RemoveProfile
    <3> QED BY <1>0, <3>1, <3>2
  <2> QED BY <2>1, <2>2
<1>9. ASSUME NEW t \in Threads, SetProfiles(t) PROVE CallsInv'
  BY <1>0, <1>9 DEF SetProfiles, NoProfiles
<1>10. ASSUME NEW t \in Threads, BeginDisable(t) \/ DisableMasterPassword(t) PROVE CallsInv'
  BY <1>0, <1>10 DEF BeginDisable, DisableMasterPassword
<1>11. CASE Restart
  BY <1>0, <1>11 DEF Restart, NoProfiles
<1>12. CASE \/ WriteFile \/ SaveSetting \/ EnableMasterPassword \/ UnlockWithPassword \/ Lock
            \/ UNCHANGED vars
  BY <1>0, <1>12
     DEF WriteFile, SaveSetting, EnableMasterPassword, UnlockWithPassword, Lock, calls, vars
<1> QED BY <1>1, <1>2, <1>3, <1>4, <1>5, <1>6, <1>7, <1>8, <1>9, <1>10, <1>11, <1>12, <1>a, <1>b
        DEF Next, Call

-----------------------------------------------------------------------------
(* Theorems *)

\* IInv is invariant: what the theorems follow from.
THEOREM Invariance == Spec => []IInv
<1>1. Init => IInv
  <2> SUFFICES ASSUME Init PROVE IInv
    OBVIOUS
  <2>1. NoKey \in Key /\ NoKey # Machine
    BY VaultAssumption DEF Key, NoKey, Machine
  <2>2. file \in FileType /\ file # Torn
    BY <2>1, VaultAssumption DEF Init, NoProfiles, FileType
  <2>3. StorageInv /\ Blobs /\ TornBlobs /\ FileInv /\ DisableInv
    BY <2>1, <2>2, VaultAssumption
       DEF Init, StorageInv, Blobs, TornBlobs, FileInv, DisableInv, NoProfiles, Profiles
  <2>4. CallsInv
    BY DEF Init, CallsInv, NoJob, NoProfiles
  <2>5. RestartLosesNothing
    BY DEF Init, RestartLosesNothing, NoProfiles
  <2> QED BY <2>3, <2>4, <2>5 DEF IInv
<1>2. IInv /\ [Next]_vars => IInv'
  BY NextStorage, NextDisable, NextKeeps, NextCalls DEF IInv, Kept
<1> QED BY <1>1, <1>2, PTL DEF Spec

\* A restart between two saves loses nothing, whatever clients do at once.
THEOREM RestartSafe == Spec => []RestartLosesNothing
<1>1. IInv => RestartLosesNothing
  BY DEF IInv
<1> QED BY <1>1, Invariance, PTL

\* The file holds secrets of the mode the storage is in only.
THEOREM SealedOnDisk == Spec => []SealedAtRest
<1>1. IInv => SealedAtRest
  BY DEF IInv, FileInv, Sealed, SealedAtRest
<1> QED BY <1>1, Invariance, PTL

-----------------------------------------------------------------------------
(* Types *)

Requests == [Ids -> [secret : Secrets, rule : Rules] \cup {None}]

\* What users have asked for, and for which profiles they are asking.
RequestInv ==
    /\ wanted \in Requests
    /\ \A t \in Threads : pc[t] \in {"remove", "set"} => job[t].id \in Ids

\* The call of a thread asks for a profile of the right type.
LEMMA AskedType ==
    ASSUME CallsInv, RequestInv, NEW t \in Threads, pc[t] = "set"
    PROVE  Asked(t) \in Requests
<1>1. job[t] \in Job /\ job[t].id \in Ids
  BY DEF CallsInv, Job, RequestInv
<1>2. CASE job[t].view = None \/ ~job[t].user
  BY <1>1, <1>2 DEF Asked, RequestInv, Requests
<1>3. CASE job[t].view # None /\ job[t].user
  <2> DEFINE j == job[t]
             old == wanted[j.id]
             new == [secret |-> IF j.asked = Same THEN old.secret ELSE j.asked, rule |-> j.view.rule]
  <2>1. j.view.rule \in Rules /\ j.asked \in Secrets \cup {Same}
    BY <1>1, <1>3 DEF Job, MaskedView
  <2>2. old # None => old.secret \in Secrets
    BY <1>1 DEF RequestInv, Requests
  <2>3. ~(old = None /\ j.asked = Same) => new \in [secret : Secrets, rule : Rules]
    BY <2>1, <2>2
  <2>4. Asked(t) = IF old = None /\ j.asked = Same THEN wanted ELSE [wanted EXCEPT ![j.id] = new]
    BY <1>3 DEF Asked
  <2> HIDE DEF new
  <2> QED BY <1>1, <2>3, <2>4 DEF RequestInv, Requests
<1> QED BY <1>2, <1>3

LEMMA NextRequests == IInv /\ RequestInv /\ [Next]_vars => RequestInv'
<1> SUFFICES ASSUME IInv, RequestInv, [Next]_vars PROVE RequestInv'
  OBVIOUS
<1>0. CallsInv
  BY DEF IInv
<1> USE DEF RequestInv, Goto
<1>1. ASSUME NEW t \in Threads, SetProfiles(t) PROVE RequestInv'
  <2>1. wanted' \in Requests
    BY <1>0, <1>1, AskedType DEF SetProfiles
  <2> QED BY <1>0, <1>1, <2>1 DEF SetProfiles, CallsInv, NoJob
<1>2. ASSUME NEW t \in Threads,
             BeginProxied(t) \/ BeginEdit(t) \/ BeginDisable(t) \/ DisableMasterPassword(t)
      PROVE RequestInv'
  BY <1>0, <1>2 DEF BeginProxied, BeginEdit, BeginDisable, DisableMasterPassword, CallsInv
<1>3. ASSUME NEW t \in Threads, FindProfile(t) \/ FillMasked(t) \/ CheckLock(t) \/ FillLocked(t)
      PROVE RequestInv'
  BY <1>0, <1>3 DEF FindProfile, FillMasked, CheckLock, FillLocked, CallsInv
<1>4. ASSUME NEW t \in Threads, UpdateProfile(t) \/ RemoveProfile(t) PROVE RequestInv'
  BY <1>0, <1>4 DEF UpdateProfile, RemoveProfile, CallsInv
<1>5. ASSUME NEW t \in Threads, AddProfile(t) PROVE RequestInv'
  BY <1>0, <1>5 DEF AddProfile, CallsInv
<1>6. ASSUME NEW t \in Threads, BeginDelete(t) PROVE RequestInv'
  <2>1. PICK i \in Ids : job' = [job EXCEPT ![t] = [NoJob EXCEPT !.id = i, !.user = TRUE]]
    BY <1>6 DEF BeginDelete
  <2>2. [NoJob EXCEPT !.id = i, !.user = TRUE].id = i
    BY DEF NoJob
  <2> QED BY <1>0, <1>6, <2>1, <2>2 DEF BeginDelete, CallsInv
<1>7. CASE Restart
  BY <1>7 DEF Restart
<1>8. CASE \/ WriteFile \/ SaveSetting \/ EnableMasterPassword \/ UnlockWithPassword \/ Lock
           \/ UNCHANGED vars
  BY <1>8
     DEF WriteFile, SaveSetting, EnableMasterPassword, UnlockWithPassword, Lock, calls, vars
<1> QED BY <1>1, <1>2, <1>3, <1>4, <1>5, <1>6, <1>7, <1>8 DEF Next, Call

FlagsInv == protected \in BOOLEAN /\ usable \in BOOLEAN

LEMMA NextFlags == FlagsInv /\ [Next]_vars => FlagsInv'
<1> SUFFICES ASSUME FlagsInv, [Next]_vars PROVE FlagsInv'
  OBVIOUS
<1>1. CASE UNCHANGED <<protected, usable>>
  BY <1>1 DEF FlagsInv
<1>2. CASE EnableMasterPassword
  BY <1>2 DEF EnableMasterPassword, FlagsInv
<1>3. ASSUME NEW t \in Threads, DisableMasterPassword(t) PROVE FlagsInv'
  BY <1>3 DEF DisableMasterPassword, FlagsInv
<1>4. CASE UnlockWithPassword
  BY <1>4 DEF UnlockWithPassword, FlagsInv
<1>5. CASE Lock
  BY <1>5 DEF Lock, FlagsInv
<1>6. CASE Restart
  BY <1>6 DEF Restart, FlagsInv
<1>7. ASSUME NEW t \in Threads, Reading(t) \/ SetProfiles(t) PROVE FlagsInv'
  BY <1>1, <1>7, ReadingReads DEF SetProfiles, storage
<1>8. CASE WriteFile \/ SaveSetting \/ UNCHANGED vars
  BY <1>1, <1>8 DEF WriteFile, SaveSetting, vars, storage
<1> QED BY <1>2, <1>3, <1>4, <1>5, <1>6, <1>7, <1>8 DEF Next, Call, Reading

LEMMA FlagsTyped == Spec => []FlagsInv
<1>1. Init => FlagsInv
  BY DEF Init, FlagsInv
<1> QED BY <1>1, NextFlags, PTL DEF Spec

LEMMA RequestsTyped == Spec => []RequestInv
<1>1. Init => RequestInv
  BY DEF Init, RequestInv, Requests, NoProfiles
<1> QED BY <1>1, NextRequests, Invariance, PTL DEF Spec

\* Profiles, keys, calls and requests have their types; no mask of a key is ever
\* listed, and so none is stored (TypeOK).
THEOREM TypeCorrect == Spec => []TypeOK
<1>1. IInv /\ RequestInv /\ FlagsInv => TypeOK
  <2> SUFFICES ASSUME IInv, RequestInv, FlagsInv PROVE TypeOK
    OBVIOUS
  <2>1. StorageInv /\ CallsInv /\ settings \in [Ids -> Profile \cup {None}]
        /\ file \in FileType \cup {Torn}
    BY DEF IInv, Blobs, Profiles, FileInv
  <2>2. \A t \in Threads : job[t].id \in Ids \cup {None}
    BY <2>1 DEF CallsInv
  <2>3. wanted \in [Ids -> [secret : Secrets, rule : Rules] \cup {None}]
    BY DEF RequestInv, Requests
  <2> QED BY <2>1, <2>2, <2>3 DEF TypeOK, StorageInv, CallsInv, FlagsInv
<1> QED BY <1>1, Invariance, RequestsTyped, FlagsTyped, PTL

-----------------------------------------------------------------------------
(* Edits *)

\* No two calls that write profiles overlap.
Serial ==
    \A s, t \in Threads : pc[s] \notin {"idle", "disable"} /\ pc[t] \notin {"idle", "disable"} => s = t

\* The profile that the call of thread t is to replace, add or delete.
Replaces(t, i) == job[t].user /\ i = job[t].id

\* What the call of thread t has read is still so, and what it will write is
\* that, but for what its user asks for.
EditOf(t) ==
    /\ pc[t] \in {"put", "mask", "lockcheck", "stored", "update", "remove"} =>
          settings[job[t].id] # None
    /\ pc[t] \in {"put", "mask", "lockcheck", "stored"} => job[t].user
    /\ pc[t] = "remove" => job[t].user /\ job[t].view = None
    /\ pc[t] = "update" /\ ~job[t].user => job[t].view.rule = settings[job[t].id].rule
    /\ pc[t] = "set" => \A i \in Ids :
          IF Replaces(t, i)
          THEN /\ list[t][i] = None <=> job[t].view = None
               /\ list[t][i] # None => list[t][i].rule = job[t].view.rule
               /\ settings[i] = None => job[t].asked # Same
          ELSE /\ list[t][i] = None <=> settings[i] = None
               /\ list[t][i] # None => list[t][i].rule = settings[i].rule

EditInv == \A t \in Threads : EditOf(t)

\* The profiles in memory are the same, secrets apart.
SameShape ==
    \A i \in Ids : /\ settings'[i] = None <=> settings[i] = None
                   /\ settings[i] # None => settings'[i].rule = settings[i].rule

\* A save stores the profiles it is given.
LEMMA SaveShape ==
    ASSUME StorageInv', NEW ps \in Profiles, Save(ps)
    PROVE  \A i \in Ids : /\ settings'[i] = None <=> ps[i] = None
                          /\ ps[i] # None => settings'[i].rule = ps[i].rule
<1> DEFINE sealed == SealAll(ps, usable', protected', session')
<1>1. session' \in Key
  BY DEF StorageInv
<1>2. settings' = UnsealAll(sealed, usable', session')
  BY DEF Save
<1>3. sealed \in Profiles
      /\ \A i \in Ids : /\ sealed[i] = None <=> ps[i] = None
                        /\ ps[i] # None => sealed[i].rule = ps[i].rule
  BY <1>1, SealAllEach
<1> HIDE DEF sealed
<1>4. \A i \in Ids : /\ settings'[i] = None <=> sealed[i] = None
                     /\ sealed[i] # None => settings'[i].rule = sealed[i].rule
  BY <1>2, <1>3, UnsealAllEach
<1> QED BY <1>3, <1>4

\* Only SetProfiles changes which profiles there are, and their rules: a restart
\* reads what was written.
LEMMA OthersKeepShape ==
    ASSUME IInv, IInv', SaveIsAtomic, [Next]_vars, \A t \in Threads : ~SetProfiles(t)
    PROVE  SameShape
<1>0. StorageInv' /\ Blobs /\ settings \in Profiles /\ RestartLosesNothing /\ RestartLosesNothing'
  BY DEF IInv, Blobs
<1>1. CASE UNCHANGED settings
  BY <1>1 DEF SameShape
<1>2. CASE Save(settings)
  BY <1>0, <1>2, SaveShape DEF SameShape
<1>3. CASE UnlockWithPassword
  <2>1. settings' = UnsealAll(settings, usable', session')
    BY <1>3 DEF UnlockWithPassword
  <2> QED BY <1>0, <2>1, UnsealAllEach DEF SameShape
<1>4. CASE Restart
  <2>1. file' = file /\ file # Torn
    BY <1>4 DEF Restart
  <2> QED BY <1>0, <2>1 DEF RestartLosesNothing, SameShape
<1>5. ASSUME NEW t \in Threads, Reading(t) \/ UNCHANGED vars PROVE SameShape
  BY <1>1, <1>5, ReadingReads
<1>6. CASE UNCHANGED vars \/ WriteFile \/ Lock
  BY <1>1, <1>6 DEF vars, WriteFile, Lock
<1>7. CASE SaveSetting \/ EnableMasterPassword \/ \E t \in Threads : DisableMasterPassword(t)
  BY <1>2, <1>7 DEF SaveSetting, EnableMasterPassword, DisableMasterPassword
<1> QED BY <1>3, <1>4, <1>5, <1>6, <1>7 DEF Next, Call, Reading

\* A call keeps its view of profiles that stay the same.
LEMMA EditStays ==
    ASSUME CallsInv, RequestInv, SameShape, NEW t \in Threads, EditOf(t),
           pc'[t] = pc[t], job'[t] = job[t], list'[t] = list[t]
    PROVE  EditOf(t)'
<1>1. pc[t] \in {"put", "mask", "lockcheck", "stored", "update", "remove", "set"} =>
          job[t].id \in Ids
  BY DEF CallsInv, RequestInv
<1>2. \A i \in Ids : Replaces(t, i)' = Replaces(t, i)
  BY DEF Replaces
<1> QED BY <1>1, <1>2 DEF EditOf, SameShape

\* Filling in a secret leaves the rest of a job.
LEMMA FilledJob ==
    ASSUME NEW j \in Job, j.view \in MaskedView, NEW s \in Value
    PROVE  LET k == [j EXCEPT !.view.secret = s]
           IN  /\ k.id = j.id /\ k.user = j.user /\ k.asked = j.asked
               /\ k.view.secret = s /\ k.view.hidden = j.view.hidden /\ k.view.rule = j.view.rule
BY DEF Job, MaskedView

\* What the listed profiles look like that are only read.
LEMMA ListShape ==
    ASSUME Blobs
    PROVE  \A i \in Ids : /\ GetProfiles[i] = None <=> settings[i] = None
                          /\ settings[i] # None => GetProfiles[i].rule = settings[i].rule
<1> SUFFICES ASSUME NEW i \in Ids, settings[i] # None
             PROVE  ViewOf(settings[i]) # None /\ ViewOf(settings[i]).rule = settings[i].rule
  BY DEF GetProfiles, ViewOf
<1>1. ViewOf(settings[i]) \in View
  BY ViewIsView
<1> QED BY <1>1, VaultAssumption DEF ViewOf

\* The steps of a call before it writes.
LEMMA ReadingEdits ==
    ASSUME IInv, RequestInv, NEW t \in Threads, EditOf(t), Reading(t)
    PROVE  EditOf(t)'
<1>0. CallsInv /\ Blobs /\ job[t] \in Job /\ UNCHANGED settings
  BY ReadingReads DEF IInv, CallsInv, Job
<1>a. pc'[t] \in {"idle", "disable"} => EditOf(t)'
  BY DEF EditOf
<1> USE DEF Goto
<1>1. CASE BeginProxied(t)
  <2>1. PICK i \in Ids :
           settings[i] # None /\ job' = [job EXCEPT ![t] = [NoJob EXCEPT !.id = i,
                                                            !.view = ViewOf(settings[i])]]
    BY <1>1 DEF BeginProxied
  <2> DEFINE j == [NoJob EXCEPT !.id = i, !.view = ViewOf(settings[i])]
  <2>2. j.id = i /\ j.view = ViewOf(settings[i]) /\ ~j.user
    BY DEF NoJob
  <2>3. ViewOf(settings[i]).rule = settings[i].rule
    BY <2>1 DEF ViewOf
  <2>4. job'[t] = j
    BY <1>0, <2>1 DEF CallsInv
  <2>5. pc'[t] = "update"
    BY <1>0, <1>1 DEF BeginProxied, CallsInv
  <2> HIDE DEF j
  <2> QED BY <1>0, <2>1, <2>2, <2>3, <2>4, <2>5 DEF EditOf
<1>2. CASE BeginEdit(t)
  <2>1. \E i \in Ids : settings[i] # None /\ job'[t].id = i /\ job'[t].user
    BY <1>0, <1>2 DEF BeginEdit, CallsInv
  <2>2. pc'[t] = "put"
    BY <1>0, <1>2 DEF BeginEdit, CallsInv
  <2> QED BY <1>0, <2>1, <2>2 DEF EditOf
<1>3. CASE FillMasked(t) \/ FillLocked(t)
  <2>1. job[t].id \in Ids /\ job[t].view \in MaskedView /\ job[t].user
        /\ settings[job[t].id] # None /\ pc[t] \in {"mask", "stored"}
    BY <1>0, <1>3 DEF FillMasked, FillLocked, CallsInv, EditOf, View, MaskedView
  <2>2. pc'[t] \in {"lockcheck", "update"}
    BY <1>0, <1>3, <2>1 DEF FillMasked, FillLocked, CallsInv
  <2>3. job' = job
        \/ \E s \in Reread(job[t].id) : job' = [job EXCEPT ![t].view.secret = s]
    BY <1>3 DEF FillMasked, FillLocked
  <2>5. job'[t].id = job[t].id /\ job'[t].user = job[t].user
    <3>1. ASSUME NEW s \in Reread(job[t].id), job' = [job EXCEPT ![t].view.secret = s]
          PROVE  job'[t].id = job[t].id /\ job'[t].user = job[t].user
      <4>1. job'[t] = [job[t] EXCEPT !.view.secret = s]
        BY <1>0, <3>1 DEF CallsInv
      <4>2. s \in Value
        BY <1>0, <2>1, RereadValue
      <4>3. LET k == [job[t] EXCEPT !.view.secret = s]
            IN  k.id = job[t].id /\ k.user = job[t].user
        BY <1>0, <2>1, <4>2, FilledJob
      <4> QED BY <4>1, <4>3
    <3> QED BY <2>3, <3>1
  <2> QED BY <1>0, <2>1, <2>2, <2>5 DEF EditOf
<1>9. CASE FindProfile(t) \/ CheckLock(t)
  <2>1. job[t].user /\ settings[job[t].id] # None /\ UNCHANGED job
        /\ pc'[t] \in {"mask", "stored", "update"}
    BY <1>0, <1>9 DEF FindProfile, CheckLock, CallsInv, EditOf
  <2> QED BY <1>0, <2>1 DEF EditOf
<1>4. CASE UpdateProfile(t)
  <2> DEFINE i == job[t].id
  <2>1. i \in Ids /\ job[t].view \in View /\ settings[i] # None
    BY <1>0, <1>4 DEF UpdateProfile, CallsInv, EditOf
  <2>2. GetProfiles[i] # None
    BY <1>0, <2>1, ListShape
  <2>3. list'[t] = [GetProfiles EXCEPT ![i] = job[t].view] /\ job' = job /\ pc'[t] = "set"
    BY <1>0, <1>4, <2>2 DEF UpdateProfile, CallsInv
  <2>4. ~job[t].user => job[t].view.rule = settings[i].rule
    BY <1>4 DEF UpdateProfile, EditOf
  <2>5. job[t].view # None
    BY <2>1, VaultAssumption
  <2>6. list'[t][i] = job[t].view /\ \A k \in Ids \ {i} : list'[t][k] = GetProfiles[k]
    BY <2>1, <2>3 DEF GetProfiles
  <2>7. \A k \in Ids : IF Replaces(t, k)
                       THEN k = i
                       ELSE k # i \/ ~job[t].user
    BY DEF Replaces
  <2>8. \A k \in Ids : Replaces(t, k)' <=> Replaces(t, k)
    BY <2>3 DEF Replaces
  <2> HIDE DEF i
  <2> QED BY <1>0, <2>1, <2>3, <2>4, <2>5, <2>6, <2>7, <2>8, ListShape DEF EditOf
<1>5. CASE AddProfile(t)
  <2>1. PICK i \in Ids, r \in Rules, s \in Secrets :
           LET v == [secret |-> s, hidden |-> FALSE, rule |-> r]
           IN  /\ settings[i] = None
               /\ job' = [job EXCEPT ![t] = [id |-> i, user |-> TRUE, asked |-> s, view |-> v]]
               /\ list' = [list EXCEPT ![t] = [GetProfiles EXCEPT ![i] = v]]
    BY <1>5 DEF AddProfile
  <2> DEFINE v == [secret |-> s, hidden |-> FALSE, rule |-> r]
  <2>2. v \in View /\ v # None /\ s # Same
    <3>1. v \in View
      BY DEF View, Value
    <3>2. s # Same
      BY VaultAssumption DEF Value
    <3> HIDE DEF v
    <3> QED BY <3>1, <3>2, VaultAssumption
  <2>3. job'[t] = [id |-> i, user |-> TRUE, asked |-> s, view |-> v]
        /\ list'[t] = [GetProfiles EXCEPT ![i] = v] /\ pc'[t] = "set"
    <3>1. pc' = [pc EXCEPT ![t] = "set"]
      BY <1>5 DEF AddProfile
    <3>2. /\ job' = [job EXCEPT ![t] = [id |-> i, user |-> TRUE, asked |-> s, view |-> v]]
          /\ list' = [list EXCEPT ![t] = [GetProfiles EXCEPT ![i] = v]]
      BY <2>1
    <3> HIDE DEF v
    <3> QED BY <1>0, <3>1, <3>2 DEF CallsInv
  <2> HIDE DEF v
  <2>4. list'[t][i] = v /\ \A k \in Ids \ {i} : list'[t][k] = GetProfiles[k]
    BY <2>3 DEF GetProfiles
  <2>5. \A k \in Ids : Replaces(t, k)' <=> k = i
    BY <2>3 DEF Replaces
  <2>6. job'[t].view = v /\ job'[t].asked = s
    BY <2>3
  <2> QED BY <1>0, <2>2, <2>3, <2>4, <2>5, <2>6, ListShape DEF EditOf
<1>6. CASE BeginDelete(t)
  <2>1. PICK i \in Ids : settings[i] # None
                         /\ job' = [job EXCEPT ![t] = [NoJob EXCEPT !.id = i, !.user = TRUE]]
    BY <1>6 DEF BeginDelete
  <2> DEFINE j == [NoJob EXCEPT !.id = i, !.user = TRUE]
  <2>2. j.id = i /\ j.user /\ j.view = None
    BY DEF NoJob
  <2>3. job'[t] = j /\ pc'[t] = "remove"
    BY <1>0, <1>6, <2>1 DEF CallsInv, BeginDelete
  <2> HIDE DEF j
  <2> QED BY <1>0, <2>1, <2>2, <2>3 DEF EditOf
<1>7. CASE RemoveProfile(t)
  <2> DEFINE i == job[t].id
  <2>1. i \in Ids /\ settings[i] # None /\ job[t].user /\ job[t].view = None
    BY <1>7 DEF RemoveProfile, RequestInv, EditOf
  <2>2. list'[t] = [GetProfiles EXCEPT ![i] = None] /\ job' = job /\ pc'[t] = "set"
    BY <1>0, <1>7, <2>1 DEF RemoveProfile, CallsInv
  <2>3. list'[t][i] = None /\ \A k \in Ids \ {i} : list'[t][k] = GetProfiles[k]
    BY <2>1, <2>2 DEF GetProfiles
  <2>4. \A k \in Ids : Replaces(t, k)' <=> k = i
    BY <2>1, <2>2 DEF Replaces
  <2> HIDE DEF i
  <2> QED BY <1>0, <2>1, <2>2, <2>3, <2>4, ListShape DEF EditOf
<1>8. CASE BeginDisable(t)
  BY <1>0, <1>8, <1>a DEF BeginDisable, CallsInv
<1> QED BY <1>1, <1>2, <1>3, <1>4, <1>5, <1>6, <1>7, <1>8, <1>9 DEF Reading

\* What is stored of a list.
LEMMA StoredShape ==
    ASSUME CallsInv, Blobs, NEW t \in Threads, NEW i \in Ids
    PROVE  /\ Stored(list[t], i) = None <=> list[t][i] = None
           /\ list[t][i] # None => Stored(list[t], i).rule = list[t][i].rule
<1>1. Stored(list[t], i) \in Profile \cup {None}
  BY StoredFits DEF Profiles
<1>2. ASSUME list[t][i] # None
      PROVE  Stored(list[t], i) # None /\ Stored(list[t], i).rule = list[t][i].rule
  <2> DEFINE f == IF list[t][i].hidden /\ settings[i] # None
                  THEN settings[i].secret ELSE Clear(list[t][i].secret)
  <2>1. Stored(list[t], i) = [rule |-> list[t][i].rule, secret |-> f]
    BY <1>2 DEF Stored
  <2>2. list[t][i].rule \in Rules /\ Clear(list[t][i].secret) \in Field
    BY <1>2, VaultAssumption DEF CallsInv, View, Clear, Field, Key, NoKey
  <2>3. f \in Field
    BY <2>2, FieldsFit
  <2> HIDE DEF f
  <2>4. Stored(list[t], i) \in Profile
    BY <2>1, <2>2, <2>3 DEF Profile
  <2> QED BY <2>1, <2>4, VaultAssumption
<1> QED BY <1>2 DEF Stored

\* Writing the list does what the user has asked for, and nothing else.
LEMMA SetKeepsEdits ==
    ASSUME IInv, IInv', RequestInv, EditsSurvive, NEW t \in Threads, EditOf(t), SetProfiles(t)
    PROVE  EditsSurvive'
<1>0. StorageInv' /\ Blobs /\ CallsInv /\ job[t] \in Job /\ pc[t] = "set"
  BY DEF IInv, CallsInv, Job, SetProfiles
<1> DEFINE j == job[t]
           ps == [i \in Ids |-> Stored(list[t], i)]
<1>1. \A i \in Ids : /\ settings'[i] = None <=> list[t][i] = None
                     /\ list[t][i] # None => settings'[i].rule = list[t][i].rule
  <2>1. Save(ps)
    BY DEF SetProfiles
  <2>2. ps \in Profiles
    BY <1>0, StoredFits
  <2>3. \A i \in Ids : ps[i] = Stored(list[t], i)
    OBVIOUS
  <2> HIDE DEF ps
  <2> QED BY <1>0, <2>1, <2>2, <2>3, SaveShape, StoredShape
<1>2. wanted' = Asked(t) /\ wanted \in Requests /\ j.id \in Ids
  BY <1>0 DEF SetProfiles, RequestInv
<1>3. \A i \in Ids :
          IF Replaces(t, i)
          THEN /\ list[t][i] = None <=> j.view = None
               /\ list[t][i] # None => list[t][i].rule = j.view.rule
               /\ settings[i] = None => j.asked # Same
          ELSE /\ list[t][i] = None <=> settings[i] = None
               /\ list[t][i] # None => list[t][i].rule = settings[i].rule
  BY <1>0 DEF EditOf
<1> HIDE DEF ps
<1>4. ASSUME NEW i \in Ids, ~Replaces(t, i)
      PROVE  wanted'[i] = wanted[i]
  BY <1>2, <1>4 DEF Asked, Replaces, Requests
<1>5. ASSUME NEW i \in Ids, Replaces(t, i)
      PROVE  /\ wanted'[i] = None <=> j.view = None
             /\ wanted'[i] # None => wanted'[i].rule = j.view.rule
  <2>1. i = j.id /\ j.user
    BY <1>5 DEF Replaces
  <2>2. CASE j.view = None
    BY <1>2, <2>1, <2>2 DEF Asked, Requests
  <2>3. CASE j.view # None
    <3>1. ~(wanted[i] = None /\ j.asked = Same)
      BY <1>3, <1>5 DEF EditsSurvive
    <3> DEFINE new == [secret |-> IF j.asked = Same THEN wanted[i].secret ELSE j.asked,
                       rule |-> j.view.rule]
    <3>2. wanted' = [wanted EXCEPT ![i] = new]
      BY <1>2, <2>1, <2>3, <3>1 DEF Asked
    <3>3. new \in [secret : Secrets, rule : Rules]
      BY <1>0, <1>2, <2>1, <2>3, <3>1 DEF Job, MaskedView, Requests
    <3>4. new # None /\ new.rule = j.view.rule
      <4>1. new.rule = j.view.rule
        OBVIOUS
      <4> HIDE DEF new
      <4> QED BY <3>3, <4>1, VaultAssumption
    <3> HIDE DEF new
    <3> QED BY <1>2, <2>3, <3>2, <3>4 DEF Requests
  <2> QED BY <2>2, <2>3
<1> HIDE DEF j
<1> SUFFICES ASSUME NEW i \in Ids
             PROVE  /\ settings'[i] = None <=> wanted'[i] = None
                    /\ settings'[i] # None => settings'[i].rule = wanted'[i].rule
  BY DEF EditsSurvive
<1>6. CASE Replaces(t, i)
  BY <1>1, <1>3, <1>5, <1>6
<1>7. CASE ~Replaces(t, i)
  BY <1>1, <1>3, <1>4, <1>7 DEF EditsSurvive
<1> QED BY <1>6, <1>7

LEMMA NextEdits ==
    ASSUME SaveIsAtomic, IInv, IInv', RequestInv, EditInv, EditsSurvive, Serial, [Next]_vars
    PROVE  EditInv' /\ EditsSurvive'
<1>0. CallsInv
  BY DEF IInv
<1>a. ASSUME NEW t \in Threads, pc'[t] \in {"idle", "disable"} PROVE EditOf(t)'
  BY <1>a DEF EditOf
<1>1. ASSUME NEW t \in Threads, SetProfiles(t) PROVE EditInv' /\ EditsSurvive'
  <2>1. EditsSurvive'
    BY <1>1, SetKeepsEdits DEF EditInv
  <2>2. \A s \in Threads : pc'[s] \in {"idle", "disable"}
    BY <1>0, <1>1 DEF SetProfiles, Goto, CallsInv, Serial
  <2> QED BY <1>a, <2>1, <2>2 DEF EditInv
<1>2. ASSUME \A t \in Threads : ~SetProfiles(t) PROVE EditInv' /\ EditsSurvive'
  <2>1. SameShape
    BY <1>2, OthersKeepShape
  <2>2. UNCHANGED wanted
    BY <1>2 DEF Next, Call, BeginProxied, BeginEdit, FindProfile, FillMasked, CheckLock, FillLocked, UpdateProfile, AddProfile,
                BeginDelete, RemoveProfile, BeginDisable, DisableMasterPassword, WriteFile,
                SaveSetting, EnableMasterPassword, UnlockWithPassword, Lock, Restart, vars
  <2>3. EditsSurvive'
    BY <2>1, <2>2 DEF SameShape, EditsSurvive
  <2>4. ASSUME NEW t \in Threads, Reading(t) PROVE EditInv'
    <3>1. EditOf(t)'
      BY <2>4, ReadingEdits DEF EditInv
    <3>2. \A s \in Threads \ {t} : pc'[s] = pc[s] /\ job'[s] = job[s] /\ list'[s] = list[s]
      BY <1>0, <2>4
         DEF Reading, BeginProxied, BeginEdit, FindProfile, FillMasked, CheckLock, FillLocked, UpdateProfile, AddProfile,
             BeginDelete, RemoveProfile, BeginDisable, Goto, CallsInv
    <3> QED BY <1>0, <2>1, <3>1, <3>2, EditStays DEF EditInv
  <2>5. ASSUME NEW t \in Threads, DisableMasterPassword(t) PROVE EditInv'
    <3>1. pc'[t] = "idle" /\ UNCHANGED <<job, list>>
          /\ \A s \in Threads \ {t} : pc'[s] = pc[s]
      BY <1>0, <2>5 DEF DisableMasterPassword, Goto, CallsInv
    <3> QED BY <1>0, <1>a, <2>1, <3>1, EditStays DEF EditInv
  <2>6. CASE Restart
    <3>1. \A t \in Threads : pc'[t] = "idle"
      BY <2>6 DEF Restart
    <3> QED BY <1>a, <2>3, <3>1 DEF EditInv
  <2>7. CASE UNCHANGED calls
    <3>1. UNCHANGED <<pc, job, list>>
      BY <2>7 DEF calls
    <3> QED BY <1>0, <2>1, <2>3, <3>1, EditStays DEF EditInv
  <2>8. CASE \/ WriteFile \/ SaveSetting \/ EnableMasterPassword \/ UnlockWithPassword \/ Lock
             \/ UNCHANGED vars
    BY <2>7, <2>8
       DEF WriteFile, SaveSetting, EnableMasterPassword, UnlockWithPassword, Lock, vars
  <2> QED BY <1>2, <2>3, <2>4, <2>5, <2>6, <2>8 DEF Next, Call, Reading
<1> QED BY <1>1, <1>2

\* While no two calls that write profiles overlap, and no save is cut short, no
\* edit is lost: the profiles in memory are the ones the users asked for, with
\* the rules they asked for, whoever is proxied, locks, unlocks, enables or
\* disables the password and restarts the engine in between (EditsSurvive).
THEOREM EditsStay == SaveIsAtomic => (Spec /\ []Serial => []EditsSurvive)
<1> SUFFICES ASSUME SaveIsAtomic PROVE Spec /\ []Serial => []EditsSurvive
  OBVIOUS
<1>1. Init => EditInv /\ EditsSurvive
  BY DEF Init, EditInv, EditOf, EditsSurvive, NoProfiles
<1>2. IInv /\ IInv' /\ RequestInv /\ EditInv /\ EditsSurvive /\ Serial /\ [Next]_vars
          => EditInv' /\ EditsSurvive'
  BY NextEdits
<1> QED BY <1>1, <1>2, Invariance, RequestsTyped, PTL DEF Spec

-----------------------------------------------------------------------------
(* Secrets *)

\* The value that the secret of profile i still has, and the one it is to have
\* after the call of thread t.
Present(i) == Recovered(settings[i].secret, wrapped)
New(t) == IF job[t].asked = Same THEN Present(job[t].id) ELSE job[t].asked

\* A view shows the secret of profile i, or says that it is hidden.
Shows(v, i) == v.hidden \/ (usable /\ v.secret = Present(i))

\* The call of thread t has been let in by an unlocked session if it is a
\* user's, and its view and list have the new secret, and show the others.
SecretOf(t) ==
    /\ pc[t] # "stored"
    /\ pc[t] \in {"put", "mask", "lockcheck", "update", "remove", "set"} /\ job[t].user => usable
    /\ pc[t] \in {"put", "mask"} =>
          /\ ~job[t].view.hidden
          /\ job[t].view.secret = New(t) \/ (job[t].view.secret = Same /\ job[t].asked = Same)
    /\ pc[t] \in {"lockcheck", "update"} /\ job[t].user =>
          ~job[t].view.hidden /\ job[t].view.secret = New(t)
    /\ pc[t] = "update" /\ ~job[t].user => Shows(job[t].view, job[t].id)
    /\ pc[t] = "set" => \A i \in Ids : list[t][i] # None =>
          IF Replaces(t, i) THEN ~list[t][i].hidden /\ list[t][i].secret = New(t)
          ELSE Shows(list[t][i], i)

\* A locked session has nothing clear in memory.
LockedInv == ~usable => \A i \in Ids : settings[i] # None => settings[i].secret.key # NoKey

SecretInv == LockedInv /\ \A t \in Threads : SecretOf(t)

\* The secrets in memory stand for the same values.
SameSecrets == \A i \in Ids : settings[i] # None => Present(i)' = Present(i)

\* A save keeps the value of a field it need not empty.
LEMMA SaveSecret ==
    ASSUME NEW f \in Field, NEW use, NEW prot, NEW ses \in Key, NEW w \in Key,
           w # Machine, prot <=> w # NoKey, ~prot => use, prot /\ use => ses = w,
           Fit(f, w, ses), use \/ f.key # NoKey
    PROVE  LET g == Unseal(Seal(f, use, prot, ses), use, ses)
           IN  Recovered(g, w) = Recovered(f, w)
BY VaultAssumption DEF Unseal, Seal, Clear, Fit, Recovered, Field, Key, Machine, NoKey, Value

LEMMA SaveKeeps ==
    ASSUME StorageInv', NEW ps \in Profiles, Save(ps), NEW i \in Ids, ps[i] # None,
           Fit(ps[i].secret, wrapped', session'), usable' \/ ps[i].secret.key # NoKey
    PROVE  Present(i)' = Recovered(ps[i].secret, wrapped')
<1> DEFINE sealed == SealAll(ps, usable', protected', session')
<1>1. session' \in Key /\ wrapped' \in Key
  BY DEF StorageInv
<1>2. settings' = UnsealAll(sealed, usable', session')
  BY DEF Save
<1>3. sealed \in Profiles /\ sealed[i] # None
      /\ sealed[i].secret = Seal(ps[i].secret, usable', protected', session')
  BY <1>1, SealAllEach
<1> HIDE DEF sealed
<1>4. settings'[i].secret =
          Unseal(Seal(ps[i].secret, usable', protected', session'), usable', session')
  BY <1>2, <1>3, UnsealAllEach
<1>5. ps[i].secret \in Field
  BY DEF Profiles, Profile
<1>6. /\ wrapped' # Machine /\ (protected' <=> wrapped' # NoKey)
      /\ (~protected' => usable') /\ (protected' /\ usable' => session' = wrapped')
  BY DEF StorageInv
<1>7. LET g == Unseal(Seal(ps[i].secret, usable', protected', session'), usable', session')
      IN  Recovered(g, wrapped') = Recovered(ps[i].secret, wrapped')
  BY <1>1, <1>5, <1>6, SaveSecret
<1>8. Present(i)' = Recovered(settings'[i].secret, wrapped')
  BY DEF Present, Recovered
<1> QED BY <1>4, <1>7, <1>8

\* So do enabling and disabling the password, when no field waits for it.
LEMMA SaveKeepsAll ==
    ASSUME IInv, StorageInv', Save(settings), usable' \/ (LockedInv /\ ~usable),
           UNCHANGED <<wrapped, session>> \/ wrapped = NoKey \/ session = wrapped
    PROVE  SameSecrets
<1> SUFFICES ASSUME NEW i \in Ids, settings[i] # None
             PROVE  Present(i)' = Present(i)
  BY DEF SameSecrets
<1> DEFINE f == settings[i].secret
<1>1. f \in Field /\ Fit(f, wrapped, session)
  BY FieldsFit DEF IInv
<1>2. Fit(f, wrapped', session') /\ Recovered(f, wrapped') = Recovered(f, wrapped)
  <2>1. CASE UNCHANGED <<wrapped, session>>
    BY <1>1, <2>1
  <2>2. CASE wrapped = NoKey \/ session = wrapped
    BY <1>1, <2>2 DEF Fit, Recovered
  <2> QED BY <2>1, <2>2
<1>3. usable' \/ f.key # NoKey
  BY DEF LockedInv
<1>4. settings \in Profiles
  BY DEF IInv, Blobs
<1> QED BY <1>2, <1>3, <1>4, SaveKeeps DEF Present

\* Only SetProfiles changes a secret.
LEMMA OthersKeepSecrets ==
    ASSUME IInv, IInv', SaveIsAtomic, ~LockAllowed, LockedInv, [Next]_vars,
           \A t \in Threads : ~SetProfiles(t)
    PROVE  SameSecrets
<1>0. StorageInv /\ StorageInv' /\ Blobs /\ settings \in Profiles /\ DisableInv
      /\ RestartLosesNothing /\ RestartLosesNothing'
  BY DEF IInv, Blobs
<1>1. CASE UNCHANGED <<settings, wrapped>>
  BY <1>1 DEF SameSecrets, Present, Recovered
<1>2. CASE SaveSetting
  <2>1. Save(settings) /\ UNCHANGED <<wrapped, session, usable>>
    BY <1>2 DEF SaveSetting, storage
  <2>2. usable' \/ (LockedInv /\ ~usable)
    BY <2>1
  <2> QED BY ONLY IInv, <1>0, <2>1, <2>2, SaveKeepsAll
<1>3. CASE EnableMasterPassword
  <2>1. Save(settings) /\ usable' /\ wrapped = NoKey
    BY <1>0, <1>3 DEF EnableMasterPassword, StorageInv
  <2> QED BY ONLY IInv, <1>0, <2>1, SaveKeepsAll
<1>4. ASSUME NEW t \in Threads, DisableMasterPassword(t) PROVE SameSecrets
  <2>1. Save(settings) /\ usable' /\ (wrapped = NoKey \/ session = wrapped)
    BY <1>0, <1>4 DEF DisableMasterPassword, StorageInv, DisableInv
  <2> QED BY ONLY IInv, <1>0, <2>1, SaveKeepsAll
<1>5. CASE UnlockWithPassword
  <2> SUFFICES ASSUME NEW i \in Ids, settings[i] # None
               PROVE  Present(i)' = Present(i)
    BY DEF SameSecrets
  <2>1. wrapped' = wrapped /\ wrapped # NoKey /\ session' = wrapped /\ usable'
    BY <1>0, <1>5 DEF UnlockWithPassword, StorageInv
  <2>2. settings'[i].secret = Unseal(settings[i].secret, usable', session')
    <3>1. settings' = UnsealAll(settings, usable', session')
      BY <1>5 DEF UnlockWithPassword
    <3> QED BY <1>0, <3>1, UnsealAllEach
  <2>3. settings[i].secret \in Field /\ Fit(settings[i].secret, wrapped, session)
    BY <1>0, FieldsFit
  <2>4. LET g == Unseal(settings[i].secret, usable', wrapped)
        IN  Recovered(g, wrapped) = Recovered(settings[i].secret, wrapped)
    BY <1>0, <2>1, <2>3, UnlockField
  <2>5. Present(i)' = Recovered(settings'[i].secret, wrapped')
    BY DEF Present, Recovered
  <2> QED BY <2>1, <2>2, <2>4, <2>5 DEF Present
<1>6. CASE Restart
  <2>1. file' = file /\ file # Torn
    BY <1>6 DEF Restart
  <2> QED BY <1>0, <2>1 DEF RestartLosesNothing, SameSecrets, Present, Recovered
<1>7. ASSUME NEW t \in Threads, Reading(t) PROVE SameSecrets
  BY <1>1, <1>7, ReadingReads DEF storage
<1>8. CASE UNCHANGED vars \/ WriteFile \/ Lock
  BY <1>1, <1>8 DEF vars, WriteFile, Lock, storage
<1> QED BY <1>2, <1>3, <1>4, <1>5, <1>6, <1>7, <1>8 DEF Next, Call, Reading

\* A session is locked by a restart only, and then has sealed everything.
LEMMA NextLocked ==
    ASSUME IInv, IInv', ~LockAllowed, LockedInv, [Next]_vars
    PROVE  LockedInv' /\ (Restart \/ (usable => usable'))
<1>0. StorageInv /\ StorageInv' /\ TornBlobs' /\ FileInv /\ RestartLosesNothing
  BY DEF IInv
<1>1. CASE UNCHANGED <<settings, usable>>
  BY <1>1 DEF LockedInv
<1>2. CASE UNCHANGED usable /\ file' = Torn
  BY <1>0, <1>2 DEF LockedInv, TornBlobs
<1>3. CASE usable'
  BY <1>3 DEF LockedInv
<1>4. CASE Restart
  <2>1. PICK read \in FileType :
           /\ file # Torn => read = file
           /\ read.wrapped # Machine
           /\ \A i \in Ids : read.profiles[i] # None =>
                 Sealed(read.profiles[i].secret, read.wrapped)
           /\ protected' = (read.wrapped # NoKey)
           /\ usable' = (read.wrapped = NoKey)
           /\ session' = NoKey /\ wrapped' = read.wrapped /\ keys' = keys
           /\ settings' = UnsealAll(read.profiles, usable', session')
           /\ file' = read
    BY <1>0, <1>4, RestartReads
  <2>2. read.profiles \in Profiles
    BY DEF FileType, Profiles
  <2>3. ASSUME ~usable', NEW i \in Ids, settings'[i] # None
        PROVE  settings'[i].secret.key # NoKey
    <3>1. read.profiles[i] # None
          /\ settings'[i].secret = Unseal(read.profiles[i].secret, usable', session')
      BY <2>1, <2>2, <2>3, UnsealAllEach
    <3>2. settings'[i].secret = read.profiles[i].secret
      BY <2>3, <3>1 DEF Unseal
    <3> QED BY <2>1, <2>3, <3>1, <3>2, VaultAssumption DEF Sealed, Machine, NoKey
  <2> QED BY <1>4, <2>3 DEF LockedInv
<1>5. ASSUME NEW t \in Threads, Reading(t)
      PROVE  LockedInv' /\ (Restart \/ (usable => usable'))
  BY <1>1, <1>5, ReadingReads DEF storage
<1>6. ASSUME NEW t \in Threads, SetProfiles(t) \/ DisableMasterPassword(t)
      PROVE  LockedInv' /\ (Restart \/ (usable => usable'))
  BY <1>2, <1>3, <1>6 DEF SetProfiles, DisableMasterPassword, Save, storage
<1>7. CASE \/ SaveSetting \/ EnableMasterPassword \/ UnlockWithPassword \/ Lock \/ WriteFile
           \/ UNCHANGED vars
  BY <1>1, <1>2, <1>3, <1>7
     DEF SaveSetting, EnableMasterPassword, UnlockWithPassword, Lock, WriteFile, Save, storage, vars
<1> QED BY <1>4, <1>5, <1>6, <1>7 DEF Next, Call, Reading

\* What is read shows the secret, unless it is hidden.
LEMMA ViewShows ==
    ASSUME StorageInv, Blobs, LockedInv, NEW i \in Ids, settings[i] # None
    PROVE  /\ Shows(ViewOf(settings[i]), i)
           /\ usable => ViewOf(settings[i]).secret = Present(i)
<1> DEFINE f == settings[i].secret
           v == ViewOf(settings[i])
<1>1. f \in Field /\ Fit(f, wrapped, session)
  BY FieldsFit
<1>2. v.hidden = (f.key # NoKey) /\ v.secret = IF f.key = NoKey THEN f.secret ELSE Empty
  BY DEF ViewOf
<1> HIDE DEF v
<1>3. usable => v.secret = Present(i)
  BY <1>1, <1>2, VaultAssumption
     DEF StorageInv, Fit, Present, Recovered, Field, Key, Machine, NoKey
<1>4. ~usable => v.hidden
  BY <1>2 DEF LockedInv
<1> QED BY <1>3, <1>4 DEF Shows, v

\* Locked or not is for the session to say.
LEMMA LockedMeans == StorageInv => (Locked <=> ~usable)
BY DEF StorageInv, Locked

\* A call whose profiles, and their secrets, stay the same.
LEMMA SecretStays ==
    ASSUME CallsInv, RequestInv, SameShape, SameSecrets, usable => usable',
           NEW t \in Threads, EditOf(t), SecretOf(t),
           pc'[t] = pc[t], job'[t] = job[t], list'[t] = list[t]
    PROVE  SecretOf(t)'
<1>1. pc[t] \in {"put", "mask", "lockcheck", "stored", "update", "remove", "set"} =>
          job[t].id \in Ids
  BY DEF CallsInv, RequestInv
<1>2. \A i \in Ids : Replaces(t, i)' = Replaces(t, i)
  BY DEF Replaces
<1>3. \A i \in Ids : settings[i] # None => Present(i)' = Present(i)
  BY DEF SameSecrets
<1>4. ASSUME job[t].asked # Same \/ (job[t].id \in Ids /\ settings[job[t].id] # None)
      PROVE  New(t)' = New(t)
  BY <1>4 DEF New, SameSecrets
<1>5. ASSUME pc[t] \in {"put", "mask", "lockcheck", "update"}
      PROVE  New(t)' = New(t)
  BY <1>1, <1>4, <1>5 DEF EditOf
<1>6. pc'[t] = "update" /\ ~job'[t].user => Shows(job[t].view, job[t].id)'
  <2> SUFFICES ASSUME pc[t] = "update", ~job[t].user
               PROVE  Shows(job[t].view, job[t].id)'
    OBVIOUS
  <2>1. Shows(job[t].view, job[t].id) /\ job[t].id \in Ids /\ settings[job[t].id] # None
    BY <1>1 DEF EditOf, SecretOf
  <2>2. Present(job[t].id)' = Present(job[t].id)
    BY <1>3, <2>1
  <2> QED BY Zenon, <2>1, <2>2 DEF Shows
<1>7. ASSUME pc'[t] = "set", NEW i \in Ids, list'[t][i] # None
      PROVE  IF Replaces(t, i)' THEN ~list'[t][i].hidden /\ list'[t][i].secret = New(t)'
             ELSE Shows(list[t][i], i)'
  <2>1. CASE Replaces(t, i)
    <3>1. ~list[t][i].hidden /\ list[t][i].secret = New(t)
      BY <1>7, <2>1 DEF SecretOf
    <3>2. job[t].asked # Same \/ settings[i] # None
      BY <1>7, <2>1 DEF EditOf
    <3>3. New(t)' = New(t)
      BY <1>4, <2>1, <3>2 DEF Replaces
    <3> QED BY <1>2, <2>1, <3>1, <3>3
  <2>2. CASE ~Replaces(t, i)
    <3>1. settings[i] # None
      BY <1>7, <2>2 DEF EditOf
    <3>2. Shows(list[t][i], i)
      BY <1>7, <2>2 DEF SecretOf
    <3>3. Present(i)' = Present(i)
      BY <1>3, <3>1
    <3>4. Shows(list[t][i], i)'
      BY Zenon, <3>2, <3>3 DEF Shows
    <3> QED BY <1>2, <2>2, <3>4
  <2> QED BY <2>1, <2>2
<1>8. pc'[t] \in {"put", "mask"} =>
          /\ ~job'[t].view.hidden
          /\ job'[t].view.secret = New(t)' \/ (job'[t].view.secret = Same /\ job'[t].asked = Same)
  BY <1>5 DEF SecretOf
<1>9. pc'[t] \in {"lockcheck", "update"} /\ job'[t].user =>
          ~job'[t].view.hidden /\ job'[t].view.secret = New(t)'
  BY <1>5 DEF SecretOf
<1>10. /\ pc'[t] # "stored"
       /\ pc'[t] \in {"put", "mask", "lockcheck", "update", "remove", "set"} /\ job'[t].user
             => usable'
  BY DEF SecretOf
<1> QED BY <1>6, <1>7, <1>8, <1>9, <1>10 DEF SecretOf

\* The steps of a call before it writes.
LEMMA ReadingSecrets ==
    ASSUME IInv, RequestInv, LockedInv, ~EditWhileLocked,
           NEW t \in Threads, EditOf(t), SecretOf(t), Reading(t)
    PROVE  SecretOf(t)'
<1>0. /\ StorageInv /\ CallsInv /\ Blobs /\ job[t] \in Job
      /\ UNCHANGED <<settings, usable, wrapped>>
  BY ReadingReads DEF IInv, CallsInv, Job, storage
<1>a. \A i \in Ids : Present(i)' = Present(i)
  BY <1>0 DEF Present, Recovered
<1>b. ASSUME NEW i \in Ids, settings[i] # None
      PROVE  /\ usable => ViewOf(settings[i]).secret = Present(i)
             /\ ViewOf(settings[i]).hidden
                   \/ (usable' /\ ViewOf(settings[i]).secret = Present(i)')
  BY <1>0, <1>a, <1>b, ViewShows DEF Shows
<1>c. ASSUME NEW i \in Ids, GetProfiles[i] # None
      PROVE  GetProfiles[i].hidden \/ (usable' /\ GetProfiles[i].secret = Present(i)')
  BY <1>0, <1>b, <1>c, ListShape DEF GetProfiles
<1>d. \A e : MayEdit(e) => usable
  BY <1>0, LockedMeans DEF MayEdit
<1>e. ASSUME job[t].id \in Ids, job'[t].id = job[t].id, job'[t].asked = job[t].asked
      PROVE  New(t)' = New(t)
  BY <1>a, <1>e DEF New
<1> USE DEF Goto
<1>1. CASE BeginProxied(t)
  <2>1. PICK i \in Ids :
           settings[i] # None /\ job' = [job EXCEPT ![t] = [NoJob EXCEPT !.id = i,
                                                            !.view = ViewOf(settings[i])]]
    BY <1>1 DEF BeginProxied
  <2> DEFINE j == [NoJob EXCEPT !.id = i, !.view = ViewOf(settings[i])]
  <2>2. j.id = i /\ j.view = ViewOf(settings[i]) /\ ~j.user
    BY DEF NoJob
  <2>3. job'[t] = j
    BY <1>0, <2>1 DEF CallsInv
  <2>4. pc'[t] = "update"
    BY <1>0, <1>1 DEF BeginProxied, CallsInv
  <2> HIDE DEF j
  <2> QED BY <1>b, <2>1, <2>2, <2>3, <2>4 DEF SecretOf, Shows
<1>2. CASE BeginEdit(t)
  <2>1. PICK i \in Ids, r \in Rules, s \in Secrets \cup {Same} :
           /\ settings[i] # None
           /\ job' = [job EXCEPT ![t] =
                [id |-> i, user |-> TRUE, asked |-> s,
                 view |-> [secret |-> IF s # Same THEN s
                                      ELSE IF ViewOf(settings[i]).secret = Empty
                                      THEN Empty ELSE Same,
                           hidden |-> FALSE, rule |-> r]]]
    BY <1>2 DEF BeginEdit
  <2>2. /\ job'[t].id = i /\ job'[t].user /\ job'[t].asked = s /\ ~job'[t].view.hidden
        /\ job'[t].view.secret = IF s # Same THEN s
                                 ELSE IF ViewOf(settings[i]).secret = Empty
                                 THEN Empty ELSE Same
    BY <1>0, <2>1 DEF CallsInv
  <2>3. pc'[t] = "put" /\ usable /\ usable'
    BY <1>0, <1>2, <1>d DEF BeginEdit, CallsInv
  <2>4. ViewOf(settings[i]).secret = Present(i)'
    BY <1>a, <1>b, <2>1, <2>3
  <2>5. New(t)' = IF s = Same THEN Present(i)' ELSE s
    BY <2>2 DEF New
  <2> QED BY <2>2, <2>3, <2>4, <2>5 DEF SecretOf
<1>3. CASE FillMasked(t)
  <2>0. PICK i \in Ids : i = job[t].id
    BY <1>0, <1>3 DEF FillMasked, CallsInv
  <2> DEFINE v == ViewOf(settings[i]).secret
  <2>1. /\ pc[t] = "mask" /\ job[t].view \in MaskedView /\ settings[i] # None
        /\ job[t].user /\ usable /\ usable'
    BY <1>0, <1>3, <2>0 DEF FillMasked, CallsInv, EditOf, SecretOf
  <2>2. pc'[t] = "lockcheck"
        /\ job' = IF job[t].view.secret = Same THEN [job EXCEPT ![t].view.secret = v] ELSE job
    BY <1>0, <1>3, <2>0, <2>1 DEF FillMasked, CallsInv, Reread
  <2>3. v = Present(i) /\ v \in Value
    BY <1>0, <1>b, <2>1, ViewIsView DEF View
  <2>4. ~job[t].view.hidden
        /\ (job[t].view.secret = New(t) \/ (job[t].view.secret = Same /\ job[t].asked = Same))
    BY <2>1 DEF SecretOf
  <2> HIDE DEF v
  <2>5. CASE job[t].view.secret = Same
    <3>1. job'[t] = [job[t] EXCEPT !.view.secret = v]
      BY <1>0, <2>2, <2>5 DEF CallsInv
    <3>2. /\ job'[t].id = i /\ job'[t].user /\ job'[t].asked = job[t].asked
          /\ job'[t].view.secret = v /\ ~job'[t].view.hidden
      BY <1>0, <2>1, <2>3, <2>0, <2>4, <3>1, FilledJob
    <3>3. job[t].asked = Same
      BY <1>0, <2>4, <2>5 DEF New, Job
    <3>4. New(t)' = Present(i)'
      BY <3>2, <3>3 DEF New
    <3> QED BY <1>a, <2>1, <2>2, <2>3, <3>2, <3>4 DEF SecretOf
  <2>6. CASE job[t].view.secret # Same
    <3>1. job' = job /\ job[t].view.secret = New(t)
      BY <2>2, <2>4, <2>6
    <3>2. New(t)' = New(t)
      BY <1>e, <2>0, <3>1
    <3> QED BY <2>1, <2>2, <2>4, <3>1, <3>2 DEF SecretOf
  <2> QED BY <2>5, <2>6
<1>4. CASE FillLocked(t)
  BY <1>4 DEF FillLocked, SecretOf
<1>10. CASE CheckLock(t)
  <2>1. /\ pc[t] = "lockcheck" /\ job[t].id \in Ids /\ job[t].user /\ usable /\ usable'
        /\ ~job[t].view.hidden /\ job[t].view.secret = New(t)
    BY <1>0, <1>10 DEF CheckLock, CallsInv, EditOf, SecretOf
  <2>2. pc'[t] = "update" /\ job' = job
    BY <1>0, <1>10, <2>1, LockedMeans DEF CheckLock, CallsInv
  <2>3. New(t)' = New(t)
    BY <1>e, <2>1, <2>2
  <2> QED BY <2>1, <2>2, <2>3 DEF SecretOf
<1>11. CASE FindProfile(t)
  <2>1. /\ pc[t] = "put" /\ job[t].id \in Ids /\ settings[job[t].id] # None
        /\ job[t].user /\ usable /\ usable' /\ ~job[t].view.hidden
        /\ job[t].view.secret = New(t) \/ (job[t].view.secret = Same /\ job[t].asked = Same)
    BY <1>0, <1>11 DEF FindProfile, CallsInv, EditOf, SecretOf
  <2>2. pc'[t] = "mask" /\ job' = job
    BY <1>0, <1>11, <2>1 DEF FindProfile, CallsInv
  <2>3. New(t)' = New(t)
    BY <1>e, <2>1, <2>2
  <2> QED BY <2>1, <2>2, <2>3 DEF SecretOf
<1>5. CASE UpdateProfile(t)
  <2>0. PICK i \in Ids : i = job[t].id
    BY <1>0, <1>5 DEF UpdateProfile, CallsInv
  <2>1. pc[t] = "update" /\ settings[i] # None
    BY <1>0, <1>5, <2>0 DEF UpdateProfile, CallsInv, EditOf
  <2>2. GetProfiles[i] # None
    BY <1>0, <2>1, ListShape
  <2>3. list'[t] = [GetProfiles EXCEPT ![i] = job[t].view] /\ job' = job /\ pc'[t] = "set"
    BY <1>0, <1>5, <2>0, <2>2 DEF UpdateProfile, CallsInv
  <2>4. list'[t][i] = job[t].view /\ \A k \in Ids \ {i} : list'[t][k] = GetProfiles[k]
    BY <2>1, <2>3 DEF GetProfiles
  <2>5. New(t)' = New(t)
    BY <1>e, <2>0, <2>3
  <2>6. job[t].user => usable' /\ ~job[t].view.hidden /\ job[t].view.secret = New(t)
    BY <1>0, <2>1 DEF SecretOf
  <2>7. ~job[t].user => job[t].view.hidden \/ (usable' /\ job[t].view.secret = Present(i)')
    BY <1>0, <1>a, <2>0, <2>1 DEF SecretOf, Shows
  <2>8. \A k \in Ids : Replaces(t, k)' <=> job[t].user /\ k = i
    BY <2>0, <2>3 DEF Replaces
  <2>9. ASSUME NEW k \in Ids, list'[t][k] # None
        PROVE  IF Replaces(t, k)' THEN ~list'[t][k].hidden /\ list'[t][k].secret = New(t)'
               ELSE Shows(list[t][k], k)'
    <3>1. CASE k # i
      BY <1>c, <2>4, <2>8, <2>9, <3>1 DEF Shows
    <3>2. CASE k = i
      BY <2>4, <2>5, <2>6, <2>7, <2>8, <3>2 DEF Shows
    <3> QED BY <3>1, <3>2
  <2> QED BY <2>3, <2>6, <2>9 DEF SecretOf
<1>6. CASE AddProfile(t)
  <2>1. PICK i \in Ids, r \in Rules, s \in Secrets :
           LET v == [secret |-> s, hidden |-> FALSE, rule |-> r]
           IN  /\ job' = [job EXCEPT ![t] = [id |-> i, user |-> TRUE, asked |-> s, view |-> v]]
               /\ list' = [list EXCEPT ![t] = [GetProfiles EXCEPT ![i] = v]]
    BY <1>6 DEF AddProfile
  <2> DEFINE v == [secret |-> s, hidden |-> FALSE, rule |-> r]
  <2>2. s # Same /\ ~v.hidden /\ v.secret = s
    BY VaultAssumption DEF Value
  <2>3. pc'[t] = "set" /\ usable'
    BY <1>0, <1>6, <1>d DEF AddProfile, CallsInv
  <2> HIDE DEF v
  <2>4. job'[t] = [id |-> i, user |-> TRUE, asked |-> s, view |-> v]
        /\ list'[t] = [GetProfiles EXCEPT ![i] = v]
    BY <1>0, <2>1 DEF CallsInv, v
  <2>5. list'[t][i] = v /\ \A k \in Ids \ {i} : list'[t][k] = GetProfiles[k]
    BY <2>4 DEF GetProfiles
  <2>6. New(t)' = s
    BY <2>2, <2>4 DEF New
  <2>7. \A k \in Ids : Replaces(t, k)' <=> k = i
    BY <2>4 DEF Replaces
  <2>8. ASSUME NEW k \in Ids, list'[t][k] # None
        PROVE  IF Replaces(t, k)' THEN ~list'[t][k].hidden /\ list'[t][k].secret = New(t)'
               ELSE Shows(list[t][k], k)'
    BY <1>c, <2>2, <2>5, <2>6, <2>7, <2>8 DEF Shows
  <2> QED BY <2>3, <2>8 DEF SecretOf
<1>7. CASE BeginDelete(t)
  <2>1. pc'[t] = "remove" /\ usable'
    BY <1>0, <1>7, <1>d DEF BeginDelete, CallsInv
  <2> QED BY <2>1 DEF SecretOf
<1>8. CASE RemoveProfile(t)
  <2>0. PICK i \in Ids : i = job[t].id
    BY <1>8 DEF RemoveProfile, RequestInv
  <2>1. pc[t] = "remove" /\ settings[i] # None /\ job[t].user /\ usable'
    BY <1>0, <1>8, <2>0 DEF RemoveProfile, RequestInv, EditOf, SecretOf
  <2>2. list'[t] = [GetProfiles EXCEPT ![i] = None] /\ job' = job /\ pc'[t] = "set"
    BY <1>0, <1>8, <2>0, <2>1 DEF RemoveProfile, CallsInv
  <2>3. list'[t][i] = None /\ \A k \in Ids \ {i} : list'[t][k] = GetProfiles[k]
    BY <2>1, <2>2 DEF GetProfiles
  <2>4. \A k \in Ids : Replaces(t, k)' <=> k = i
    BY <2>0, <2>1, <2>2 DEF Replaces
  <2>5. ASSUME NEW k \in Ids, list'[t][k] # None
        PROVE  ~Replaces(t, k)' /\ Shows(list[t][k], k)'
    BY <1>c, <2>3, <2>4, <2>5 DEF Shows
  <2> QED BY <2>1, <2>2, <2>5 DEF SecretOf
<1>9. CASE BeginDisable(t)
  BY <1>0, <1>9 DEF BeginDisable, CallsInv, SecretOf
<1> QED BY <1>1, <1>2, <1>3, <1>4, <1>5, <1>6, <1>7, <1>8, <1>9, <1>10, <1>11 DEF Reading

\* Writing the list gives the profile the secret its user has asked for, and
\* leaves the others theirs.
LEMMA SetKeepsSecrets ==
    ASSUME IInv, IInv', RequestInv, LockedInv, SecretsSurvive,
           NEW t \in Threads, EditOf(t), SecretOf(t), SetProfiles(t)
    PROVE  SecretsSurvive'
<1> SUFFICES ASSUME NEW i \in Ids, settings'[i] # None, wanted'[i] # None
             PROVE  Present(i)' = wanted'[i].secret
  BY DEF SecretsSurvive, Present, Recovered
<1> DEFINE ps == [k \in Ids |-> Stored(list[t], k)]
           old == wanted[job[t].id]
<1>0. /\ StorageInv' /\ Blobs /\ CallsInv /\ job[t] \in Job /\ job[t].id \in Ids
      /\ pc[t] = "set" /\ UNCHANGED <<usable, wrapped, session>>
  BY DEF IInv, CallsInv, Job, SetProfiles, RequestInv, storage
<1>1. ps \in Profiles /\ Save(ps) /\ ps[i] = Stored(list[t], i)
      /\ (ps[i] # None => Fit(ps[i].secret, wrapped', session'))
  BY <1>0, StoredFits DEF SetProfiles
<1>2. ps[i] # None /\ list[t][i] # None
  <2> HIDE DEF ps
  <2> QED BY <1>0, <1>1, SaveShape, StoredShape
<1>3. ps[i].secret = IF list[t][i].hidden /\ settings[i] # None
                     THEN settings[i].secret ELSE Clear(list[t][i].secret)
  BY <1>2 DEF Stored
<1> HIDE DEF ps
<1>4. \A s : Recovered(Clear(s), wrapped) = s /\ Clear(s).key = NoKey
  BY DEF Recovered, Clear
<1>5. wanted' = Asked(t) /\ wanted \in Requests
  BY DEF SetProfiles, RequestInv
<1>6. settings[i] # None /\ wanted[i] # None => Present(i) = wanted[i].secret
  BY DEF SecretsSurvive, Present
<1>7. CASE Replaces(t, i)
  <2>1. /\ i = job[t].id /\ job[t].user /\ job[t].view # None /\ usable
        /\ ~list[t][i].hidden /\ list[t][i].secret = New(t)
        /\ settings[i] = None => job[t].asked # Same
    BY <1>0, <1>2, <1>7 DEF Replaces, EditOf, SecretOf
  <2>2. Recovered(ps[i].secret, wrapped) = New(t)
    BY <1>3, <1>4, <2>1
  <2>3. Present(i)' = New(t)
    BY <1>0, <1>1, <1>2, <2>1, <2>2, SaveKeeps
  <2>4. ~(wanted[i] = None /\ job[t].asked = Same)
    BY <1>5, <2>1 DEF Asked
  <2>5. wanted'[i].secret = IF job[t].asked = Same THEN wanted[i].secret ELSE job[t].asked
    BY <1>5, <2>1, <2>4 DEF Asked, Requests
  <2>6. job[t].asked = Same => wanted[i] # None /\ settings[i] # None
    BY <2>1, <2>4
  <2> QED BY <1>6, <2>1, <2>3, <2>5, <2>6 DEF New
<1>8. CASE ~Replaces(t, i)
  <2>1. settings[i] # None /\ Shows(list[t][i], i)
    BY <1>0, <1>2, <1>8 DEF EditOf, SecretOf
  <2>2. wanted'[i] = wanted[i]
    BY <1>5, <1>8 DEF Asked, Replaces, Requests
  <2>3. CASE list[t][i].hidden
    <3>1. ps[i].secret = settings[i].secret
      BY <1>3, <2>1, <2>3
    <3>2. usable \/ ps[i].secret.key # NoKey
      BY <2>1, <3>1 DEF LockedInv
    <3> QED BY <1>0, <1>1, <1>2, <1>6, <2>1, <2>2, <3>1, <3>2, SaveKeeps DEF Present
  <2>4. CASE ~list[t][i].hidden
    <3>1. usable /\ ps[i].secret = Clear(Present(i))
      BY <1>3, <2>1, <2>4 DEF Shows
    <3>2. Recovered(ps[i].secret, wrapped) = Present(i)
      BY <1>4, <3>1
    <3> QED BY <1>0, <1>1, <1>2, <1>6, <2>1, <2>2, <3>1, <3>2, SaveKeeps
  <2> QED BY <2>3, <2>4
<1> QED BY <1>7, <1>8

LEMMA NextSecrets ==
    ASSUME SaveIsAtomic, ~EditWhileLocked, ~LockAllowed, IInv, IInv', RequestInv,
           EditInv, SecretInv, SecretsSurvive, Serial, [Next]_vars
    PROVE  SecretInv' /\ SecretsSurvive'
<1>0. CallsInv /\ LockedInv
  BY DEF IInv, SecretInv
<1>a. ASSUME NEW t \in Threads, pc'[t] \in {"idle", "disable"} PROVE SecretOf(t)'
  BY <1>a DEF SecretOf
<1>b. LockedInv' /\ (Restart \/ (usable => usable'))
  BY <1>0, NextLocked
<1>1. ASSUME NEW t \in Threads, SetProfiles(t) PROVE SecretInv' /\ SecretsSurvive'
  <2>1. SecretsSurvive'
    BY <1>1, SetKeepsSecrets DEF EditInv, SecretInv
  <2>2. \A s \in Threads : pc'[s] \in {"idle", "disable"}
    BY <1>0, <1>1 DEF SetProfiles, Goto, CallsInv, Serial
  <2> QED BY <1>a, <1>b, <2>1, <2>2 DEF SecretInv
<1>2. ASSUME \A t \in Threads : ~SetProfiles(t) PROVE SecretInv' /\ SecretsSurvive'
  <2>1. SameShape /\ SameSecrets
    BY <1>0, <1>2, OthersKeepShape, OthersKeepSecrets
  <2>2. UNCHANGED wanted
    BY <1>2 DEF Next, Call, BeginProxied, BeginEdit, FindProfile, FillMasked, CheckLock, FillLocked, UpdateProfile, AddProfile,
                BeginDelete, RemoveProfile, BeginDisable, DisableMasterPassword, WriteFile,
                SaveSetting, EnableMasterPassword, UnlockWithPassword, Lock, Restart, vars
  <2>3. SecretsSurvive'
    <3> SUFFICES ASSUME NEW i \in Ids, settings'[i] # None, wanted'[i] # None
                 PROVE  Present(i)' = wanted'[i].secret
      BY DEF SecretsSurvive, Present, Recovered
    <3>1. settings[i] # None /\ wanted[i] # None
      BY <2>1, <2>2 DEF SameShape
    <3>2. Present(i) = wanted[i].secret
      BY <3>1 DEF SecretsSurvive, Present
    <3> QED BY <2>1, <2>2, <3>1, <3>2 DEF SameSecrets
  <2>4. ASSUME NEW s \in Threads, ~Restart, pc'[s] = pc[s], job'[s] = job[s], list'[s] = list[s]
        PROVE  SecretOf(s)'
    BY <1>0, <1>b, <2>1, <2>4, SecretStays DEF EditInv, SecretInv
  <2>5. CASE Restart
    <3>1. \A t \in Threads : pc'[t] = "idle"
      BY <2>5 DEF Restart
    <3> QED BY <1>a, <1>b, <2>3, <3>1 DEF SecretInv
  <2>6. ASSUME NEW t \in Threads, Reading(t), ~Restart PROVE SecretInv'
    <3>1. SecretOf(t)'
      BY <1>0, <2>6, ReadingSecrets DEF EditInv, SecretInv
    <3>2. \A s \in Threads \ {t} : pc'[s] = pc[s] /\ job'[s] = job[s] /\ list'[s] = list[s]
      BY <1>0, <2>6
         DEF Reading, BeginProxied, BeginEdit, FindProfile, FillMasked, CheckLock, FillLocked, UpdateProfile, AddProfile,
             BeginDelete, RemoveProfile, BeginDisable, Goto, CallsInv
    <3> QED BY <1>b, <2>4, <2>6, <3>1, <3>2 DEF SecretInv
  <2>7. ASSUME NEW t \in Threads, DisableMasterPassword(t), ~Restart PROVE SecretInv'
    <3>1. pc'[t] = "idle" /\ UNCHANGED <<job, list>>
          /\ \A s \in Threads \ {t} : pc'[s] = pc[s]
      BY <1>0, <2>7 DEF DisableMasterPassword, Goto, CallsInv
    <3> QED BY <1>a, <1>b, <2>4, <2>7, <3>1 DEF SecretInv
  <2>8. ASSUME UNCHANGED calls, ~Restart PROVE SecretInv'
    <3>1. UNCHANGED <<pc, job, list>>
      BY <2>8 DEF calls
    <3> QED BY <1>b, <2>4, <2>8, <3>1 DEF SecretInv
  <2>9. ASSUME \/ WriteFile \/ SaveSetting \/ EnableMasterPassword \/ UnlockWithPassword \/ Lock
               \/ UNCHANGED vars,
               ~Restart
        PROVE  SecretInv'
    BY <2>8, <2>9
       DEF WriteFile, SaveSetting, EnableMasterPassword, UnlockWithPassword, Lock, vars
  <2> QED BY <1>2, <2>3, <2>5, <2>6, <2>7, <2>9 DEF Next, Call, Reading
<1> QED BY <1>1, <1>2

\* While calls that write profiles do not overlap and no save is cut short, a
\* secret is lost only by a session that is locked: when no client shows
\* profiles before the password was given, and none locks a session that is in
\* use, every profile has the secret its user last gave it, in the clear or as
\* a blob that the password opens (SecretsSurvive).
THEOREM SecretsStay ==
    SaveIsAtomic /\ ~EditWhileLocked /\ ~LockAllowed => (Spec /\ []Serial => []SecretsSurvive)
<1> SUFFICES ASSUME SaveIsAtomic, ~EditWhileLocked, ~LockAllowed
             PROVE  Spec /\ []Serial => []SecretsSurvive
  OBVIOUS
<1>1. Init => EditInv /\ EditsSurvive /\ SecretInv /\ SecretsSurvive
  BY DEF Init, EditInv, EditOf, EditsSurvive, SecretInv, SecretOf, LockedInv, SecretsSurvive,
         NoProfiles
<1>2. IInv /\ IInv' /\ RequestInv /\ EditInv /\ EditsSurvive /\ SecretInv /\ SecretsSurvive
          /\ Serial /\ [Next]_vars
          => EditInv' /\ EditsSurvive' /\ SecretInv' /\ SecretsSurvive'
  BY NextEdits, NextSecrets
<1> QED BY <1>1, <1>2, Invariance, RequestsTyped, PTL DEF Spec
=============================================================================
