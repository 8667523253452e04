--------------------------- MODULE ProfileProofs ---------------------------
(***************************************************************************)
(* Theorems about Profile, for any number of users and of requests that    *)
(* register, sign in and edit at the same time.                            *)
(***************************************************************************)
EXTENDS Profile, AuthProofs

USE ProfileAssumption DEF ProfileAssumption

(* A PUT under way has a user; one that will replace the user document has  *)
(* the address that the document still has, because nothing changes it; and *)
(* one that will replace the settings has them as they are, unless it is    *)
(* behind.                                                                  *)
EditorsInv ==
    \A e \in Editors :
        /\ edit[e].pc # "idle" => edit[e].user \in Users
        /\ edit[e].pc = "replaceUser" => /\ edit[e].email = users[edit[e].user]
                                         /\ edit[e].email # None
                                         /\ edit[e].name \in Names
        /\ edit[e].pc = "upsert" /\ e \notin behind => edit[e].base = GetSettings(edit[e].user)

(* A PUT comes after the insert of its user, so that a registration names   *)
(* none whose name a PUT has written.                                       *)
RenamedInv == \A u \in renamed : users[u] # None

ProfileInv ==
    /\ ProfileTypeOK
    /\ AuthInv
    /\ EditorsInv /\ RenamedInv
    /\ EditsKept

-----------------------------------------------------------------------------
(* Profile and AuthService *)

(* The other steps of AuthService leave addresses and settings alone.       *)
LEMMA AuthStepsKeep == AuthSteps => UNCHANGED <<users, settings>>
  BY DEF AuthSteps, RegisterStart, LoginStart, RefreshStart, LogoutStart, RegisterFind,
         LoginFind, Issue, RefreshFind, RefreshUser, RefreshRevoke, RevokeAllBegin,
         RevokeOne, RevokeAllEnd, LogoutFind, LogoutRevoke, Fail, Expire, TtlDelete, storeVars

LEMMA AuthStepsAreSteps == AuthSteps => Next
  BY DEF AuthSteps, Next, Serve

(* The whole user document that a PUT writes back has the address it had:   *)
(* to AuthService the replacement is no step at all (UpdateProfile).        *)
LEMMA ReplaceKeepsAddresses ==
    ASSUME ProfileInv, NEW e \in Editors, UpdateProfileReplace(e)
    PROVE  users' = users
<1>1. edit[e].user \in Users /\ edit[e].email = users[edit[e].user]
  BY DEF ProfileInv, EditorsInv, UpdateProfileReplace
<1>2. users \in [Users -> Emails \cup {None}]
  BY DEF ProfileInv, AuthInv, TypeOK
<1> QED
  BY <1>1, <1>2 DEF UpdateProfileReplace

(* Every step but the upsert of settings, which AuthService knows of as a   *)
(* registration's only, is a step of AuthService or leaves it alone.        *)
LEMMA StepIsAuthStep ==
    ASSUME ProfileInv, [ProfileNext]_userVars,
           \A e \in Editors : ~UpdateSettingsUpsert(e)
    PROVE  [Next]_vars
<1>1. CASE AuthSteps
  BY <1>1, AuthStepsAreSteps
<1>2. ASSUME NEW p \in Procs, NEW n \in Names \cup {BadName}, RegisterNamed(p, n) PROVE Next
  BY <1>2 DEF RegisterNamed, Next, Serve
<1>3. ASSUME NEW p \in Procs, RegisterSeeds(p) PROVE Next
  BY <1>3 DEF RegisterSeeds, Next, Serve
<1>4. ASSUME NEW e \in Editors, NEW u \in Users, NEW n, UpdateProfileRead(e, u, n)
      PROVE  UNCHANGED vars
  BY <1>4 DEF UpdateProfileRead
<1>5. ASSUME NEW e \in Editors, NEW u \in Users, NEW cur, NEW zone,
             UpdateSettingsRead(e, u, cur, zone)
      PROVE  UNCHANGED vars
  BY <1>5 DEF UpdateSettingsRead
<1>6. ASSUME NEW e \in Editors, UpdateProfileReplace(e) PROVE UNCHANGED vars
  BY <1>6, ReplaceKeepsAddresses DEF UpdateProfileReplace, vars, storeVars
<1>7. ASSUME NEW e \in Editors, EditFails(e) PROVE UNCHANGED vars
  BY <1>7 DEF EditFails
<1>8. CASE UNCHANGED userVars
  BY <1>8 DEF userVars
<1> QED
  BY <1>1, <1>2, <1>3, <1>4, <1>5, <1>6, <1>7, <1>8 DEF ProfileNext, AccountSteps, EditSteps

(* The upsert adds to the set of users with settings and changes nothing    *)
(* else that AuthService has, so that its invariant holds next to edits.    *)
LEMMA AuthInvStep == ProfileInv /\ [ProfileNext]_userVars => AuthInv'
<1> SUFFICES ASSUME ProfileInv, [ProfileNext]_userVars
             PROVE  AuthInv'
  OBVIOUS
<1>1. ASSUME NEW e \in Editors, UpdateSettingsUpsert(e) PROVE AuthInv'
  <2>1. edit[e].user \in Users
    BY <1>1 DEF ProfileInv, EditorsInv, UpdateSettingsUpsert
  <2> USE <1>1 DEF UpdateSettingsUpsert, requestVars, historyVars, ProfileInv, AuthInv
  <2>2. TypeOK'
    BY <2>1 DEF TypeOK
  <2>3. LocalsInv'
    BY DEF LocalsInv
  <2>4. EmailUnique' /\ StaleInv'
    BY DEF EmailUnique, StaleInv
  <2>5. ContainmentInv' /\ ContainmentUpToInFlight'
    BY DEF ContainmentInv, ContainmentUpToInFlight, Rotating
  <2> QED
    BY <2>2, <2>3, <2>4, <2>5
<1>2. CASE \A e \in Editors : ~UpdateSettingsUpsert(e)
  BY <1>2, StepIsAuthStep, StepInv DEF ProfileInv
<1> QED
  BY <1>1, <1>2

-----------------------------------------------------------------------------
(* The steps *)

(* Every step keeps the types: fields are checked before they are stored,   *)
(* and a user document is inserted with its name (UpdateSettings, Register).*)
LEMMA ProfileTypeStep == ProfileInv /\ [ProfileNext]_userVars => ProfileTypeOK'
<1> SUFFICES ASSUME ProfileInv, [ProfileNext]_userVars
             PROVE  ProfileTypeOK'
  OBVIOUS
<1>0. TypeOK'
  BY AuthInvStep DEF AuthInv
<1> USE <1>0 DEF ProfileInv, ProfileTypeOK, Edits, Prefs, Resting, Defaults
<1>1. CASE AuthSteps
  BY <1>1, AuthStepsKeep DEF AuthSteps, profileVars
<1>2. ASSUME NEW p \in Procs, NEW n \in Names \cup {BadName}, RegisterNamed(p, n) PROVE ProfileTypeOK'
  <2>0. RegisterCreate(p) /\ UNCHANGED <<prefs, edit, renamed, wanted, behind, clobbered>>
    BY <1>2 DEF RegisterNamed
  <2>1. CASE users' = users
    BY <1>2, <2>0, <2>1 DEF RegisterNamed
  <2>2. CASE ~(users' = users)
    <3>1. PICK u \in Users : InsertUser(u, email[p]) /\ user' = [user EXCEPT ![p] = u]
      BY <2>0, <2>2 DEF RegisterCreate
    <3>2. user'[p] = u
      BY <3>1 DEF AuthInv, TypeOK
    <3>3. name' = [name EXCEPT ![u] = n]
      BY <1>2, <2>2, <3>2 DEF RegisterNamed
    <3>4. \A v \in Users : users'[v] # None => name'[v] # None
      BY <3>1, <3>3 DEF InsertUser, TypeOK
    <3>5. u \notin renamed
      BY <3>1 DEF InsertUser, RenamedInv
    <3> QED
      BY <2>0, <3>3, <3>4, <3>5
  <2> QED
    BY <2>1, <2>2
<1>3. ASSUME NEW p \in Procs, RegisterSeeds(p) PROVE ProfileTypeOK'
  <2>1. user[p] \in Users
    BY <1>3 DEF RegisterSeeds, RegisterSeed, AuthInv, LocalsInv, TypeOK
  <2> QED
    BY <1>3, <2>1 DEF RegisterSeeds, RegisterSeed, Readers
<1>4. ASSUME NEW e \in Editors, NEW u \in Users, NEW n \in Names \cup {BadName},
             UpdateProfileRead(e, u, n)
      PROVE  ProfileTypeOK'
  BY <1>4 DEF UpdateProfileRead, vars, storeVars, TypeOK
<1>5. ASSUME NEW e \in Editors, NEW u \in Users, NEW cur \in Currencies \cup {BadCurrency, None},
             NEW zone \in Zones \cup {BadZone, None}, UpdateSettingsRead(e, u, cur, zone)
      PROVE  ProfileTypeOK'
  BY <1>5 DEF UpdateSettingsRead, ValidSettings, GetSettings, vars, storeVars
<1>6. ASSUME NEW e \in Editors, UpdateProfileReplace(e) PROVE ProfileTypeOK'
  BY <1>6, ReplaceKeepsAddresses DEF UpdateProfileReplace, EditorsInv
<1>7. ASSUME NEW e \in Editors, UpdateSettingsUpsert(e) PROVE ProfileTypeOK'
  BY <1>7 DEF UpdateSettingsUpsert, Merged, Given, Readers, EditorsInv
<1>8. ASSUME NEW e \in Editors, EditFails(e) PROVE ProfileTypeOK'
  BY <1>8 DEF EditFails, vars, storeVars
<1>9. CASE UNCHANGED userVars
  BY <1>9 DEF userVars, profileVars, vars, storeVars
<1> QED
  BY <1>1, <1>2, <1>3, <1>4, <1>5, <1>6, <1>7, <1>8, <1>9 DEF ProfileNext, AccountSteps, EditSteps

(* A PUT that is not behind holds the settings as they are: whoever writes  *)
(* them puts all other readers behind (Readers).                            *)
LEMMA EditorsStep == ProfileInv /\ [ProfileNext]_userVars => EditorsInv'
<1> SUFFICES ASSUME ProfileInv, [ProfileNext]_userVars
             PROVE  EditorsInv'
  OBVIOUS
<1> USE DEF ProfileInv, ProfileTypeOK, EditorsInv, GetSettings, Edits, Prefs, Resting, Defaults
<1>1. CASE AuthSteps
  BY <1>1, AuthStepsKeep DEF AuthSteps, profileVars
<1>2. ASSUME NEW p \in Procs, NEW n \in Names \cup {BadName}, RegisterNamed(p, n) PROVE EditorsInv'
  BY <1>2 DEF RegisterNamed, RegisterCreate, InsertUser, AuthInv, TypeOK
<1>3. ASSUME NEW p \in Procs, RegisterSeeds(p) PROVE EditorsInv'
  BY <1>3 DEF RegisterSeeds, RegisterSeed, Readers
<1>4. ASSUME NEW e \in Editors, NEW u \in Users, NEW n \in Names \cup {BadName},
             UpdateProfileRead(e, u, n)
      PROVE  EditorsInv'
  BY <1>4 DEF UpdateProfileRead, vars, storeVars
<1>5. ASSUME NEW e \in Editors, NEW u \in Users, NEW cur, NEW zone,
             UpdateSettingsRead(e, u, cur, zone)
      PROVE  EditorsInv'
  BY <1>5 DEF UpdateSettingsRead, vars, storeVars
<1>6. ASSUME NEW e \in Editors, UpdateProfileReplace(e) PROVE EditorsInv'
  BY <1>6, ReplaceKeepsAddresses DEF UpdateProfileReplace
<1>7. ASSUME NEW e \in Editors, UpdateSettingsUpsert(e) PROVE EditorsInv'
  BY <1>7 DEF UpdateSettingsUpsert, Readers
<1>8. ASSUME NEW e \in Editors, EditFails(e) PROVE EditorsInv'
  BY <1>8 DEF EditFails, vars, storeVars
<1>9. CASE UNCHANGED userVars
  BY <1>9 DEF userVars, profileVars, vars, storeVars
<1> QED
  BY <1>1, <1>2, <1>3, <1>4, <1>5, <1>6, <1>7, <1>8, <1>9 DEF ProfileNext, AccountSteps, EditSteps

(* Nothing removes a user (userRepository). *)
LEMMA RenamedStep == ProfileInv /\ [ProfileNext]_userVars => RenamedInv'
<1> SUFFICES ASSUME ProfileInv, [ProfileNext]_userVars
             PROVE  RenamedInv'
  OBVIOUS
<1> USE DEF ProfileInv, ProfileTypeOK, RenamedInv
<1>1. CASE AuthSteps
  BY <1>1, AuthStepsKeep DEF AuthSteps, profileVars
<1>2. ASSUME NEW p \in Procs, NEW n, RegisterNamed(p, n) PROVE RenamedInv'
  BY <1>2 DEF RegisterNamed, RegisterCreate, InsertUser, AuthInv, TypeOK
<1>3. ASSUME NEW p \in Procs, RegisterSeeds(p) PROVE RenamedInv'
  BY <1>3 DEF RegisterSeeds, RegisterSeed
<1>4. ASSUME NEW e \in Editors, NEW u \in Users, NEW n, UpdateProfileRead(e, u, n)
      PROVE  RenamedInv'
  BY <1>4 DEF UpdateProfileRead, vars, storeVars
<1>5. ASSUME NEW e \in Editors, NEW u \in Users, NEW cur, NEW zone,
             UpdateSettingsRead(e, u, cur, zone)
      PROVE  RenamedInv'
  BY <1>5 DEF UpdateSettingsRead, vars, storeVars
<1>6. ASSUME NEW e \in Editors, UpdateProfileReplace(e) PROVE RenamedInv'
  BY <1>6, ReplaceKeepsAddresses DEF UpdateProfileReplace, EditorsInv
<1>7. ASSUME NEW e \in Editors, UpdateSettingsUpsert(e) PROVE RenamedInv'
  BY <1>7 DEF UpdateSettingsUpsert
<1>8. ASSUME NEW e \in Editors, EditFails(e) PROVE RenamedInv'
  BY <1>8 DEF EditFails, vars, storeVars
<1>9. CASE UNCHANGED userVars
  BY <1>9 DEF userVars, profileVars, vars, storeVars
<1> QED
  BY <1>1, <1>2, <1>3, <1>4, <1>5, <1>6, <1>7, <1>8, <1>9 DEF ProfileNext, AccountSteps, EditSteps

(* A write by a PUT that is not behind leaves what the last PUTs wanted, and*)
(* so does a seed that finds no settings yet (Merged, RegisterSeeds).       *)
LEMMA EditsKeptStep == ProfileInv /\ [ProfileNext]_userVars => EditsKept'
<1> SUFFICES ASSUME ProfileInv, [ProfileNext]_userVars
             PROVE  EditsKept'
  OBVIOUS
<1> USE DEF ProfileInv, ProfileTypeOK, EditsKept, GetSettings, Prefs, Defaults
<1>1. CASE AuthSteps
  BY <1>1, AuthStepsKeep DEF AuthSteps, profileVars
<1>2. ASSUME NEW p \in Procs, NEW n \in Names \cup {BadName}, RegisterNamed(p, n) PROVE EditsKept'
  BY <1>2 DEF RegisterNamed, RegisterCreate
<1>3. ASSUME NEW p \in Procs, RegisterSeeds(p) PROVE EditsKept'
  BY <1>3 DEF RegisterSeeds, RegisterSeed
<1>4. ASSUME NEW e \in Editors, NEW u \in Users, NEW n, UpdateProfileRead(e, u, n)
      PROVE  EditsKept'
  BY <1>4 DEF UpdateProfileRead, vars, storeVars
<1>5. ASSUME NEW e \in Editors, NEW u \in Users, NEW cur, NEW zone,
             UpdateSettingsRead(e, u, cur, zone)
      PROVE  EditsKept'
  BY <1>5 DEF UpdateSettingsRead, vars, storeVars
<1>6. ASSUME NEW e \in Editors, UpdateProfileReplace(e) PROVE EditsKept'
  BY <1>6 DEF UpdateProfileReplace
<1>7. ASSUME NEW e \in Editors, UpdateSettingsUpsert(e) PROVE EditsKept'
  <2> DEFINE u == edit[e].user
  <2>1. u \in Users
    BY <1>7 DEF UpdateSettingsUpsert, EditorsInv
  <2>2. \A v \in Users : v # u => /\ prefs'[v] = prefs[v] /\ wanted'[v] = wanted[v]
                                  /\ v \in settings' <=> v \in settings
    BY <1>7 DEF UpdateSettingsUpsert
  <2>3. CASE e \in behind
    BY <1>7, <2>1, <2>2, <2>3 DEF UpdateSettingsUpsert
  <2>4. CASE e \notin behind
    <3>1. edit[e].base = GetSettings(u)
      BY <1>7, <2>4 DEF UpdateSettingsUpsert, EditorsInv
    <3>2. u \in settings' /\ prefs'[u] = Merged(edit[e])
      BY <1>7, <2>1 DEF UpdateSettingsUpsert
    <3>3. wanted'[u] = [currency |-> Given(edit[e].currency, wanted[u].currency),
                        timezone |-> Given(edit[e].timezone, wanted[u].timezone)]
      BY <1>7, <2>1, ZenonT(60) DEF UpdateSettingsUpsert
    <3>4. clobbered' = clobbered
      BY <1>7, <2>4 DEF UpdateSettingsUpsert
    <3> QED
      BY <2>1, <2>2, <3>1, <3>2, <3>3, <3>4 DEF Merged, Given
  <2> QED
    BY <2>3, <2>4
<1>8. ASSUME NEW e \in Editors, EditFails(e) PROVE EditsKept'
  BY <1>8 DEF EditFails, vars, storeVars
<1>9. CASE UNCHANGED userVars
  BY <1>9 DEF userVars, profileVars, vars, storeVars
<1> QED
  BY <1>1, <1>2, <1>3, <1>4, <1>5, <1>6, <1>7, <1>8, <1>9 DEF ProfileNext, AccountSteps, EditSteps

-----------------------------------------------------------------------------
(* The results *)

LEMMA ProfileInitInv == ProfileInit => ProfileInv
<1> SUFFICES ASSUME ProfileInit PROVE ProfileInv
  OBVIOUS
<1>1. AuthInv
  BY InitInv DEF ProfileInit
<1>2. ProfileTypeOK
  BY <1>1 DEF ProfileInit, ProfileTypeOK, AuthInv, Init, InitWith, Prefs, Edits, Resting, Defaults
<1>3. EditorsInv /\ RenamedInv /\ EditsKept
  BY DEF ProfileInit, EditorsInv, RenamedInv, EditsKept, GetSettings, Resting
<1> QED
  BY <1>1, <1>2, <1>3 DEF ProfileInv

LEMMA ProfileCorrect == ProfileSpec => []ProfileInv
<1>1. ProfileInv /\ [ProfileNext]_userVars => ProfileInv'
  BY AuthInvStep, ProfileTypeStep, EditorsStep, RenamedStep, EditsKeptStep
     DEF ProfileInv
<1> QED
  BY <1>1, ProfileInitInv, PTL DEF ProfileSpec

(* Only what passed the checks of the PUTs is stored, except the name that  *)
(* an account was registered with, until a PUT replaces it; and every       *)
(* account has a name (Register, UpdateProfile, UpdateSettings).            *)
THEOREM StoredIsChecked == ProfileSpec => []ProfileTypeOK
<1>1. ProfileInv => ProfileTypeOK
  BY DEF ProfileInv
<1> QED
  BY <1>1, ProfileCorrect, PTL

(* With any number of editors and registrations, a field keeps what the     *)
(* last PUT that named it put there, unless a write went over one that its  *)
(* request had not seen (UpdateSettings).                                   *)
THEOREM EditsAreKept == ProfileSpec => []EditsKept
<1>1. ProfileInv => EditsKept
  BY DEF ProfileInv
<1> QED
  BY <1>1, ProfileCorrect, PTL

(* Edits of the profile do not disturb authentication, although they write  *)
(* the user document as a whole (UpdateProfile, userRepository.Update).     *)
THEOREM EditsLeaveAuthAlone ==
    ProfileSpec => [](EmailUnique /\ ReplayRefused /\ ContainmentUpToInFlight)
<1>1. ProfileInv => EmailUnique /\ ReplayRefused /\ ContainmentUpToInFlight
  BY StaleAreRefused DEF ProfileInv, AuthInv
<1> QED
  BY <1>1, ProfileCorrect, PTL

=============================================================================
