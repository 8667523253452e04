------------------------------ MODULE Profile ------------------------------
(***************************************************************************)
(* user-service: the name and the settings of a user, read and changed     *)
(* under /users/me (internal/service/user_service.go, internal/handler/    *)
(* user_handler.go, internal/repository), next to registrations, logins    *)
(* and refreshes.                                                          *)
(*                                                                         *)
(* Both PUTs read a whole document, change it in memory and replace it:    *)
(* one step for each call.  The settings document is written by            *)
(* registration too, which is under way while its user may sign in.        *)
(***************************************************************************)
EXTENDS AuthService

CONSTANTS
    Editors,              \* request goroutines of the two PUTs
    Names, BadName,       \* names, and one that is blank or too long
    Currencies, Usd, BadCurrency,
    Zones, Utc, BadZone

ASSUME ProfileAssumption ==
    /\ Usd \in Currencies /\ Utc \in Zones
    /\ BadName \notin Names /\ BadCurrency \notin Currencies /\ BadZone \notin Zones
    /\ None \notin Names \cup Currencies \cup Zones /\ None # BadName

VARIABLES
    name,     \* [Users -> Names \cup {BadName, None}]: in the user document
    prefs,    \* [Users -> Prefs]: the settings document of u \in settings
    edit,     \* [Editors -> Edits]: the local variables of a PUT
    (* history, read by properties only *)
    renamed,  \* users whose name a PUT has written
    wanted,   \* [Users -> Prefs]: what the last PUT that named a field put there
    behind,   \* requests on settings that were written since they read them
    clobbered \* users whose settings were written by a request that was behind

profileVars == <<name, prefs, edit, renamed, wanted, behind, clobbered>>
userVars == <<vars, profileVars>>

Prefs == [currency : Currencies, timezone : Zones]

(* an omitted field of the body is None *)
Edits == [pc : {"idle", "replaceUser", "upsert"}, user : Users \cup {None},
          name : Names \cup {None}, currency : Currencies \cup {None},
          timezone : Zones \cup {None}, email : Emails \cup {None}, base : Prefs]

Defaults == [currency |-> Usd, timezone |-> Utc]

Resting == [pc |-> "idle", user |-> None, name |-> None, currency |-> None,
            timezone |-> None, email |-> None, base |-> Defaults]

ProfileInit ==
    /\ Init
    /\ name = [u \in Users |-> None]
    /\ prefs = [u \in Users |-> Defaults]
    /\ edit = [e \in Editors |-> Resting]
    /\ renamed = {}
    /\ wanted = [u \in Users |-> Defaults]
    /\ behind = {}
    /\ clobbered = {}

(* RequireIdentity: the user of an access token, which was issued with a    *)
(* refresh token and outlives its revocation                                *)
SignedIn(u) == \E t \in given : owner[t] = u

(* the goroutines that have read the settings of u and not yet written them *)
Readers(u) == {e \in Editors : edit[e].pc = "upsert" /\ edit[e].user = u}

-----------------------------------------------------------------------------
(* PUT /users/me *)

(* the name is trimmed and checked; then FindByID *)
UpdateProfileRead(e, u, n) ==
    /\ edit[e].pc = "idle" /\ SignedIn(u)
    /\ n # BadName
    /\ users[u] # None
    /\ edit' = [edit EXCEPT ![e] = [Resting EXCEPT !.pc = "replaceUser", !.user = u,
                                                   !.name = n, !.email = users[u]]]
    /\ UNCHANGED <<vars, name, prefs, renamed, wanted, behind, clobbered>>

(* ReplaceOne of the whole user document as it was read, with the new name *)
UpdateProfileReplace(e) ==
    LET u == edit[e].user IN
    /\ edit[e].pc = "replaceUser"
    /\ users' = [users EXCEPT ![u] = edit[e].email]
    /\ name' = [name EXCEPT ![u] = edit[e].name]
    /\ renamed' = renamed \cup {u}
    /\ edit' = [edit EXCEPT ![e] = Resting]
    /\ UNCHANGED <<settings, tokens, owner, expired, requestVars, given, historyVars,
                   prefs, wanted, behind, clobbered>>

-----------------------------------------------------------------------------
(* GET and PUT /users/me/settings *)

(* the document, or the defaults when there is none *)
GetSettings(u) == IF u \in settings THEN prefs[u] ELSE Defaults

(* The currency is checked and the timezone is not. *)
ValidSettingsMutant(cur, zone) == cur # BadCurrency

(* currencyPattern and LoadLocation; an empty field passes *)
ValidSettings(cur, zone) == cur # BadCurrency /\ zone # BadZone

UpdateSettingsRead(e, u, cur, zone) ==
    /\ edit[e].pc = "idle" /\ SignedIn(u)
    /\ ValidSettings(cur, zone)
    /\ edit' = [edit EXCEPT ![e] = [Resting EXCEPT !.pc = "upsert", !.user = u,
                       !.currency = cur, !.timezone = zone, !.base = GetSettings(u)]]
    /\ UNCHANGED <<vars, name, prefs, renamed, wanted, behind, clobbered>>

Given(field, otherwise) == IF field # None THEN field ELSE otherwise

(* The fields of the body on top of the defaults. *)
MergedMutant(r) == [currency |-> Given(r.currency, Usd), timezone |-> Given(r.timezone, Utc)]

(* the fields of the body on top of what was read *)
Merged(r) == [currency |-> Given(r.currency, r.base.currency),
              timezone |-> Given(r.timezone, r.base.timezone)]

(* ReplaceOne with upsert; the unique index keeps it one document *)
UpdateSettingsUpsert(e) ==
    LET u == edit[e].user IN
    /\ edit[e].pc = "upsert"
    /\ settings' = settings \cup {u}
    /\ prefs' = [prefs EXCEPT ![u] = Merged(edit[e])]
    /\ wanted' = [wanted EXCEPT ![u].currency = Given(edit[e].currency, @),
                                ![u].timezone = Given(edit[e].timezone, @)]
    /\ behind' = (behind \cup Readers(u)) \ {e}
    /\ clobbered' = IF e \in behind THEN clobbered \cup {u} ELSE clobbered
    /\ edit' = [edit EXCEPT ![e] = Resting]
    /\ UNCHANGED <<users, tokens, owner, expired, requestVars, given, historyVars, name,
                   renamed>>

(* a call fails without effect *)
EditFails(e) ==
    /\ edit[e].pc # "idle"
    /\ edit' = [edit EXCEPT ![e] = Resting]
    /\ behind' = behind \ {e}
    /\ UNCHANGED <<vars, name, prefs, renamed, wanted, clobbered>>

-----------------------------------------------------------------------------
(* Registration writes both documents *)

(* Register stores the name of the body as it comes: the check of its       *)
(* length does not trim it, so that it may be one that the PUT refuses      *)
RegisterNamed(p, n) ==
    /\ RegisterCreate(p)
    /\ name' = IF users' # users THEN [name EXCEPT ![user'[p]] = n] ELSE name
    /\ UNCHANGED <<prefs, edit, renamed, wanted, behind, clobbered>>

(* The seed is an Upsert too: a user who signed in and changed the settings *)
(* before it is back to the defaults.                                       *)
RegisterSeeds(p) ==
    /\ RegisterSeed(p)
    /\ prefs' = [prefs EXCEPT ![user[p]] = Defaults]
    /\ behind' = behind \cup Readers(user[p])
    /\ clobbered' = IF user[p] \in settings THEN clobbered \cup {user[p]} ELSE clobbered
    /\ UNCHANGED <<name, edit, renamed, wanted>>

(* all other steps of AuthService *)
AuthSteps ==
    /\ \/ \E p \in Procs, a \in Emails : RegisterStart(p, a) \/ LoginStart(p, a)
       \/ \E p \in Procs, t \in Tokens : RefreshStart(p, t) \/ LogoutStart(p, t)
       \/ \E p \in Procs :
             \/ RegisterFind(p) \/ LoginFind(p) \/ Issue(p)
             \/ RefreshFind(p) \/ RefreshUser(p) \/ RefreshRevoke(p)
             \/ RevokeAllBegin(p) \/ RevokeOne(p) \/ RevokeAllEnd(p)
             \/ LogoutFind(p) \/ LogoutRevoke(p) \/ Fail(p)
       \/ \E t \in Tokens : Expire(t) \/ TtlDelete(t)
    /\ UNCHANGED profileVars

AccountSteps ==
    \/ AuthSteps
    \/ \E p \in Procs, n \in Names \cup {BadName} : RegisterNamed(p, n)
    \/ \E p \in Procs : RegisterSeeds(p)

EditSteps ==
    \E e \in Editors :
       \/ \E u \in Users, n \in Names \cup {BadName} : UpdateProfileRead(e, u, n)
       \/ \E u \in Users, cur \in Currencies \cup {BadCurrency, None},
             zone \in Zones \cup {BadZone, None} : UpdateSettingsRead(e, u, cur, zone)
       \/ UpdateProfileReplace(e) \/ UpdateSettingsUpsert(e) \/ EditFails(e)

ProfileNext == AccountSteps \/ EditSteps

ProfileSpec == ProfileInit /\ [][ProfileNext]_userVars

-----------------------------------------------------------------------------
(* Properties *)

(* What is stored has passed the checks of the PUTs, but for the name that  *)
(* an account was registered with: that one is there, unchecked, until a    *)
(* PUT replaces it, and a PUT never puts back a name that it would refuse,  *)
(* although it writes the user document as a whole (Register,               *)
(* UpdateProfile).  UpdateSettings checks its two fields one by one and     *)
(* writes them, and what it had read, as one document.                      *)
ProfileTypeOK ==
    /\ TypeOK
    /\ name \in [Users -> Names \cup {BadName, None}]
    /\ \A u \in Users : users[u] # None => name[u] # None
    /\ \A u \in renamed : name[u] \in Names
    /\ renamed \in SUBSET Users
    /\ prefs \in [Users -> Prefs]
    /\ edit \in [Editors -> Edits]
    /\ wanted \in [Users -> Prefs]
    /\ behind \in SUBSET Editors
    /\ clobbered \in SUBSET Users

(* A field that a PUT left out keeps its value, and one that it named has   *)
(* what the last PUT put there (README: "PUT merges only the fields         *)
(* provided, leaving the rest untouched"): with or without a settings       *)
(* document, after failed seeds and failed calls.  The only exceptions are  *)
(* writes by a request that read the document before another write of it,   *)
(* and a registration that seeds the settings after the user has changed    *)
(* them.                                                                    *)
EditsKept ==
    \A u \in Users : GetSettings(u) # wanted[u] => u \in clobbered

=============================================================================
