-------------------------------- MODULE Vault --------------------------------
(***************************************************************************)
(* The settings of the engine: the API-key profiles in settings.json, whose *)
(* sensitive fields are encrypted at rest (core/src/settings_manager.cpp,   *)
(* core/src/secure_storage_linux.cpp), and the calls that read and write    *)
(* them (core/src/engine_app.cpp): the control API and every proxied        *)
(* request, each on a thread of its own.                                    *)
(*                                                                         *)
(* A profile is abstracted to one sensitive field, "secret" (api_key,       *)
(* keywords and regex_patterns are treated alike), and one other, "rule".   *)
(* Every SettingsManager call is one step under its mutex; what a handler   *)
(* does between two of them is where other threads come in.                 *)
(***************************************************************************)
EXTENDS Integers, FiniteSets

CONSTANTS
    Ids,            \* profile ids
    Threads,        \* connection threads of the control and proxy servers
    Secrets,        \* values of the sensitive field
    Rules,          \* values of the rest of a profile
    Empty,          \* the empty string or list
    Same,           \* in a PUT: the masked key, "unchanged"
    None,           \* no profile
    Torn,           \* settings.json between truncation and write
    Edits,          \* SUBSET {"add", "put", "delete"}: what clients do
    EditWhileLocked,\* do clients show and save profiles of a locked session
    LockAllowed,    \* does a client ever lock the session (the GUI on quit)
    SaveIsAtomic,   \* TRUE: the engine never dies inside a save
    MaxKeys         \* how often the master password is enabled

NoKey == -1         \* not encrypted; no session key
Machine == 0        \* the machine key
Key == -1..MaxKeys  \* 1, 2, ...: session keys, one for every enabling

Value == Secrets \cup {Empty}
Field == [key : Key, secret : Value]
Profile == [secret : Field, rule : Rules]
View == [secret : Value, hidden : BOOLEAN, rule : Rules]

ASSUME VaultAssumption ==
    /\ None \notin Profile \cup View \cup [secret : Secrets, rule : Rules]
    /\ Same \notin Value
    /\ Empty \notin Secrets
    /\ EditWhileLocked \in BOOLEAN /\ LockAllowed \in BOOLEAN
    /\ SaveIsAtomic \in BOOLEAN
    /\ MaxKeys \in Nat
    /\ Torn \notin [profiles : [Ids -> Profile \cup {None}], wrapped : Key]

VARIABLES
    settings,   \* settings_["profiles"] in memory
    protected,  \* SecureStorage.masterPasswordEnabled_
    usable,     \* SecureStorage.initialized_: the session is unlocked
    session,    \* aesKey_
    wrapped,    \* the key inside wrappedKey_, which the password unwraps
    keys,       \* how many session keys were generated
    file,       \* settings.json
    pc,         \* where each thread is
    job,        \* what its call is about: an id and a profile
    list,       \* its copy of all profiles (GetProfiles)
    wanted      \* history: what the user last asked each profile to be

storage == <<protected, usable, session, wrapped, keys>>
calls == <<pc, job, list>>
vars == <<settings, storage, file, calls, wanted>>

NoProfiles == [i \in Ids |-> None]
NoJob == [id |-> None, user |-> FALSE, asked |-> Same, view |-> None]

Init ==
    /\ settings = NoProfiles
    /\ protected = FALSE /\ usable = TRUE
    /\ session = NoKey /\ wrapped = NoKey /\ keys = 0
    /\ file = [profiles |-> NoProfiles, wrapped |-> NoKey]
    /\ pc = [t \in Threads |-> "idle"]
    /\ job = [t \in Threads |-> NoJob]
    /\ list = [t \in Threads |-> NoProfiles]
    /\ wanted = NoProfiles

-----------------------------------------------------------------------------
(* Encryption *)

Clear(s) == [key |-> NoKey, secret |-> s]

\* Slip: the machine key is used whatever the mode.
SealByMachine(f, use, prot, ses) ==
    IF f.key # NoKey THEN f
    ELSE [key |-> Machine, secret |-> IF use THEN f.secret ELSE Empty]

\* A field that is a string is encrypted with the key of the mode the storage
\* is in; a storage that is locked yields an empty blob.
Seal(f, use, prot, ses) ==
    IF f.key # NoKey THEN f
    ELSE IF ~use THEN [key |-> Machine, secret |-> Empty]
    ELSE [key |-> IF prot THEN ses ELSE Machine, secret |-> f.secret]

\* Decryption leaves a blob it cannot read as it is.
Unseal(f, use, ses) ==
    IF use /\ (f.secret = Empty \/ f.key \in {Machine, ses}) THEN Clear(f.secret) ELSE f

SealAll(ps, use, prot, ses) ==
    [i \in Ids |-> IF ps[i] = None THEN None
                   ELSE [ps[i] EXCEPT !.secret = Seal(@, use, prot, ses)]]
UnsealAll(ps, use, ses) ==
    [i \in Ids |-> IF ps[i] = None THEN None
                   ELSE [ps[i] EXCEPT !.secret = Unseal(@, use, ses)]]

\* ApiKeyProfile::FromJson: a blob reads as an empty value that is flagged.
ViewOf(p) ==
    IF p = None THEN None
    ELSE [secret |-> IF p.secret.key = NoKey THEN p.secret.secret ELSE Empty,
          hidden |-> p.secret.key # NoKey,
          rule |-> p.rule]
GetProfiles == [i \in Ids |-> ViewOf(settings[i])]

Locked == protected /\ ~usable
MutexFree == file # Torn

\* SaveSettings with profiles ps: encrypt in place, truncate the file (which is
\* written by WriteFile, the mutex still held), decrypt in place.
Save(ps) ==
    /\ MutexFree
    /\ settings' = UnsealAll(SealAll(ps, usable', protected', session'),
                             usable', session')
    /\ file' = Torn

\* Slip: profiles that are still encrypted are left out of the file.
WriteFileReadable ==
    /\ file = Torn
    /\ file' = [profiles |-> [i \in Ids |->
                    IF settings[i] # None /\ settings[i].secret.key # NoKey THEN None
                    ELSE SealAll(settings, usable, protected, session)[i]],
                wrapped |-> wrapped]
    /\ UNCHANGED <<settings, storage, calls, wanted>>

WriteFile ==
    /\ file = Torn
    /\ file' = [profiles |-> SealAll(settings, usable, protected, session),
                wrapped |-> wrapped]
    /\ UNCHANGED <<settings, storage, calls, wanted>>

-----------------------------------------------------------------------------
(* Handlers that write profiles *)

\* The clients ask for the password first (Gate), or do not.
MayEdit(edit) == edit \in Edits /\ (EditWhileLocked \/ ~Locked)

Goto(t, s) == pc' = [pc EXCEPT ![t] = s]

\* HandleProxyRequest copies the profile of its port ...
BeginProxied(t) ==
    /\ pc[t] = "idle" /\ MutexFree
    /\ \E i \in Ids :
        /\ settings[i] # None
        /\ job' = [job EXCEPT ![t] = [NoJob EXCEPT !.id = i,
                                                   !.view = ViewOf(settings[i])]]
    /\ Goto(t, "update")
    /\ UNCHANGED <<settings, storage, file, list, wanted>>

\* A client shows a profile (GET /profiles), and saves it with another rule
\* and, perhaps, another secret.  It sends back what it was shown: the mask,
\* or nothing at all when the secret was hidden.
BeginEdit(t) ==
    /\ pc[t] = "idle" /\ MutexFree
    /\ MayEdit("put")
    /\ \E i \in Ids, r \in Rules, s \in Secrets \cup {Same} :
        /\ settings[i] # None
        /\ job' = [job EXCEPT ![t] =
             [id |-> i, user |-> TRUE, asked |-> s,
              view |-> [secret |-> IF s # Same THEN s
                                   ELSE IF ViewOf(settings[i]).secret = Empty
                                   THEN Empty ELSE Same,
                        hidden |-> FALSE, rule |-> r]]]
    /\ Goto(t, "put")
    /\ UNCHANGED <<settings, storage, file, list, wanted>>

\* ApiPutProfile: a profile that is gone is answered with 404.
FindProfile(t) ==
    /\ pc[t] = "put" /\ MutexFree
    /\ \/ /\ settings[job[t].id] = None
          /\ job' = [job EXCEPT ![t] = NoJob]
          /\ Goto(t, "idle")
       \/ /\ settings[job[t].id] # None
          /\ Goto(t, "mask")
          /\ UNCHANGED job
    /\ UNCHANGED <<settings, storage, file, list, wanted>>

\* GetProfileById(id)->apiKey: without its flag, and, when another call has
\* deleted the profile meanwhile, whatever the empty optional yields.
Reread(i) == IF settings[i] = None THEN Value ELSE {ViewOf(settings[i]).secret}

\* Slip: the mask is taken for a key.
FillMaskedNot(t) ==
    /\ pc[t] = "mask" /\ MutexFree
    /\ Goto(t, "lockcheck")
    /\ UNCHANGED <<settings, storage, file, job, list, wanted>>

\* The mask means the stored key.
FillMasked(t) ==
    /\ pc[t] = "mask" /\ MutexFree
    /\ \/ /\ job[t].view.secret # Same
          /\ UNCHANGED job
       \/ /\ job[t].view.secret = Same
          /\ \E s \in Reread(job[t].id) : job' = [job EXCEPT ![t].view.secret = s]
    /\ Goto(t, "lockcheck")
    /\ UNCHANGED <<settings, storage, file, list, wanted>>

CheckLock(t) ==
    /\ pc[t] = "lockcheck" /\ MutexFree
    /\ Goto(t, IF Locked THEN "stored" ELSE "update")
    /\ UNCHANGED <<settings, storage, file, job, list, wanted>>

\* Locked: the stored profile's secret instead.
FillLocked(t) ==
    /\ pc[t] = "stored" /\ MutexFree
    /\ \E s \in Reread(job[t].id) : job' = [job EXCEPT ![t].view.secret = s]
    /\ Goto(t, "update")
    /\ UNCHANGED <<settings, storage, file, list, wanted>>

\* UpdateProfile: all profiles are read, and one of them replaced ...
UpdateProfile(t) ==
    LET i == job[t].id
    IN  /\ pc[t] = "update" /\ MutexFree
        /\ list' = [list EXCEPT ![t] =
                      IF GetProfiles[i] = None THEN GetProfiles
                      ELSE [GetProfiles EXCEPT ![i] = job[t].view]]
        /\ Goto(t, "set")
        /\ UNCHANGED <<settings, storage, file, job, wanted>>

\* ApiPostProfile: AddProfile reads all profiles and appends one.
AddProfile(t) ==
    /\ pc[t] = "idle" /\ MutexFree
    /\ MayEdit("add")
    /\ \E i \in Ids, r \in Rules, s \in Secrets :
        LET v == [secret |-> s, hidden |-> FALSE, rule |-> r]
        IN  /\ settings[i] = None /\ wanted[i] = None
            /\ \A u \in Threads : list[u][i] = None
            /\ job' = [job EXCEPT ![t] = [id |-> i, user |-> TRUE, asked |-> s,
                                          view |-> v]]
            /\ list' = [list EXCEPT ![t] = [GetProfiles EXCEPT ![i] = v]]
    /\ Goto(t, "set")
    /\ UNCHANGED <<settings, storage, file, wanted>>

\* CmdProfilesDelete looks at the list first: the last profile stays.
BeginDelete(t) ==
    /\ pc[t] = "idle" /\ MutexFree
    /\ MayEdit("delete")
    /\ \E i \in Ids :
        /\ settings[i] # None
        /\ Cardinality({j \in Ids : settings[j] # None}) > 1
        /\ job' = [job EXCEPT ![t] = [NoJob EXCEPT !.id = i, !.user = TRUE]]
    /\ Goto(t, "remove")
    /\ UNCHANGED <<settings, storage, file, list, wanted>>

\* ApiDeleteProfile: RemoveProfile reads all profiles but one.
RemoveProfile(t) ==
    LET i == job[t].id
    IN  /\ pc[t] = "remove" /\ MutexFree
        /\ \/ /\ settings[i] = None
              /\ job' = [job EXCEPT ![t] = NoJob]
              /\ Goto(t, "idle")
              /\ UNCHANGED list
           \/ /\ settings[i] # None
              /\ list' = [list EXCEPT ![t] = [GetProfiles EXCEPT ![i] = None]]
              /\ Goto(t, "set")
              /\ UNCHANGED job
        /\ UNCHANGED <<settings, storage, file, wanted>>

\* Slip: an unreadable secret is stored as the empty string it was read as.
StoredAsRead(l, i) ==
    IF l[i] = None THEN None ELSE [rule |-> l[i].rule, secret |-> Clear(l[i].secret)]

\* What SetProfiles stores for profile i of list l: the old field instead of an
\* empty one that stands for a blob nobody could read.
Stored(l, i) ==
    IF l[i] = None THEN None
    ELSE [rule |-> l[i].rule,
          secret |-> IF l[i].hidden /\ settings[i] # None
                     THEN settings[i].secret ELSE Clear(l[i].secret)]

\* What the user has asked for, once the call of thread t has been served.
Asked(t) ==
    LET j == job[t]
        old == wanted[j.id]
    IN  IF ~j.user THEN wanted
        ELSE IF j.view = None THEN [wanted EXCEPT ![j.id] = None]
        ELSE IF old = None /\ j.asked = Same THEN wanted
        ELSE [wanted EXCEPT ![j.id] =
                [secret |-> IF j.asked = Same THEN old.secret ELSE j.asked,
                 rule |-> j.view.rule]]

\* ... and all of them are written.
SetProfiles(t) ==
    /\ pc[t] = "set"
    /\ UNCHANGED storage
    /\ Save([i \in Ids |-> Stored(list[t], i)])
    /\ wanted' = Asked(t)
    /\ job' = [job EXCEPT ![t] = NoJob]
    /\ list' = [list EXCEPT ![t] = NoProfiles]
    /\ Goto(t, "idle")

\* SetStartOnBoot, SetLoggingEnabled, SetAppLanguage, SetOnnxProvider.
SaveSetting ==
    /\ UNCHANGED storage
    /\ Save(settings)
    /\ UNCHANGED <<calls, wanted>>

-----------------------------------------------------------------------------
(* Master password *)

EnableMasterPassword ==
    /\ ~protected
    /\ keys < MaxKeys
    /\ keys' = keys + 1
    /\ session' = keys + 1 /\ wrapped' = keys + 1
    /\ protected' = TRUE /\ usable' = TRUE
    /\ Save(settings)
    /\ UNCHANGED <<calls, wanted>>

\* ApiPutSetting refuses while the session is locked; the call is a later one.
BeginDisable(t) ==
    /\ pc[t] = "idle" /\ MutexFree
    /\ ~Locked
    /\ Goto(t, "disable")
    /\ UNCHANGED <<settings, storage, file, job, list, wanted>>

DisableMasterPassword(t) ==
    /\ pc[t] = "disable"
    /\ protected' = FALSE /\ usable' = TRUE
    /\ session' = NoKey /\ wrapped' = NoKey
    /\ UNCHANGED keys
    /\ Save(settings)
    /\ Goto(t, "idle")
    /\ UNCHANGED <<job, list, wanted>>

UnlockWithPassword ==
    /\ MutexFree
    /\ protected
    /\ session' = wrapped /\ usable' = TRUE
    /\ settings' = UnsealAll(settings, usable', session')
    /\ UNCHANGED <<protected, wrapped, keys, file, calls, wanted>>

\* Lock: the flag is cleared; what is decrypted in memory stays decrypted.
Lock ==
    /\ LockAllowed
    /\ MutexFree
    /\ protected
    /\ usable' = FALSE
    /\ UNCHANGED <<settings, protected, session, wrapped, keys, file, calls, wanted>>

\* The engine dies or is stopped, and loads the file again.  A file that does
\* not parse is copied aside, as it is, and the settings start empty.
Restart ==
    LET read == IF file = Torn THEN [profiles |-> NoProfiles, wrapped |-> NoKey]
                ELSE file
    IN  /\ SaveIsAtomic => file # Torn
        /\ protected' = (read.wrapped # NoKey)
        /\ usable' = (read.wrapped = NoKey)
        /\ session' = NoKey /\ wrapped' = read.wrapped
        /\ settings' = UnsealAll(read.profiles, usable', session')
        /\ file' = read
        /\ pc' = [t \in Threads |-> "idle"]
        /\ job' = [t \in Threads |-> NoJob]
        /\ list' = [t \in Threads |-> NoProfiles]
        /\ UNCHANGED <<keys, wanted>>

Call(t) ==
    \/ BeginProxied(t) \/ BeginEdit(t)
    \/ FindProfile(t) \/ FillMasked(t) \/ CheckLock(t) \/ FillLocked(t)
    \/ UpdateProfile(t) \/ AddProfile(t) \/ BeginDelete(t) \/ RemoveProfile(t)
    \/ SetProfiles(t) \/ BeginDisable(t) \/ DisableMasterPassword(t)

Next ==
    \/ \E t \in Threads : Call(t)
    \/ WriteFile \/ SaveSetting
    \/ EnableMasterPassword \/ UnlockWithPassword \/ Lock
    \/ Restart

Spec == Init /\ [][Next]_vars

-----------------------------------------------------------------------------
(* Properties *)

FileType == [profiles : [Ids -> Profile \cup {None}], wrapped : Key]

\* Types, and the ranges of the keys; what is listed or stored is never the mask
\* of a key (ApiPutProfile fills in the stored one).
TypeOK ==
    /\ settings \in [Ids -> Profile \cup {None}]
    /\ protected \in BOOLEAN /\ usable \in BOOLEAN
    /\ session \in Key /\ wrapped \in Key /\ keys \in 0..MaxKeys
    /\ file \in FileType \cup {Torn}
    /\ pc \in [Threads -> {"idle", "put", "mask", "lockcheck", "stored",
                           "update", "remove", "set", "disable"}]
    /\ list \in [Threads -> [Ids -> View \cup {None}]]
    /\ \A t \in Threads : job[t].id \in Ids \cup {None}
    /\ wanted \in [Ids -> [secret : Secrets, rule : Rules] \cup {None}]

\* The value a field still stands for: what the machine key, or the key that
\* the master password unwraps, makes of it.
Recovered(f, w) ==
    IF f.key \in {NoKey, Machine, w} THEN f.secret ELSE Empty

\* No sequence of saves, locks, unlocks and restarts loses a secret the user
\* has stored and not replaced.
SecretsSurvive ==
    \A i \in Ids : settings[i] # None /\ wanted[i] # None =>
        Recovered(settings[i].secret, wrapped) = wanted[i].secret

\* Every profile is what the user last asked it to be, and no other exists.
EditsSurvive ==
    \A i \in Ids :
        /\ settings[i] = None <=> wanted[i] = None
        /\ settings[i] # None => settings[i].rule = wanted[i].rule

\* Whenever no save is under way a restart would lose nothing of what is in
\* memory: the file has every profile, and every secret can be read from it.
RestartLosesNothing ==
    file # Torn =>
        /\ file.wrapped = wrapped
        /\ \A i \in Ids :
            /\ file.profiles[i] = None <=> settings[i] = None
            /\ settings[i] # None =>
                /\ file.profiles[i].rule = settings[i].rule
                /\ Recovered(file.profiles[i].secret, file.wrapped) =
                       Recovered(settings[i].secret, wrapped)

\* With a master password enabled the file holds nothing that the machine key
\* alone would decrypt; without, nothing that needs the password.
SealedAtRest ==
    file # Torn => \A i \in Ids :
        file.profiles[i] # None /\ file.profiles[i].secret.secret # Empty =>
            file.profiles[i].secret.key =
                IF file.wrapped = NoKey THEN Machine ELSE file.wrapped

\* Profiles never all disappear: the last one cannot be deleted.
LastProfileStays ==
    [][settings # NoProfiles => settings' # NoProfiles]_vars
=============================================================================
