---------------------------- MODULE ProfileStore ----------------------------
(***************************************************************************)
(* The user's configuration as several interface processes share it        *)
(* (crates/client/src/profiles.rs, configuration.rs, credentials.rs and    *)
(* private_fs.rs): three metadata documents behind one lock file, the      *)
(* system's keyring behind one lock file for each profile, the login       *)
(* registration of the desktop, and the files profiles are exported to.    *)
(*                                                                         *)
(* Every operation is a process's walk over the steps at which another     *)
(* process can come in between: waiting for a lock, reading the document   *)
(* under it, replacing the file, syncing the directory.  A process can be  *)
(* killed at every step; the system then releases its locks, and what it   *)
(* had not renamed into place is lost.                                     *)
(***************************************************************************)
EXTENDS Naturals, Sequences, Functions, TLC

CONSTANTS
    Procs,          \* interface processes of one user
    Ids, Names,     \* profile identifiers and display names
    None,           \* Rust's None
    MaxRevision,    \* the largest revision, u64::MAX in the code
    MaxOperations,  \* bound: operations that are started
    MaxCrashes      \* bound: processes that are killed

ASSUME StoreAssumption == MaxRevision \in Nat /\ MaxOperations \in Nat /\ MaxCrashes \in Nat

\* The lock files of metadata, use and login are not those of a profile.
ASSUME NameAssumption ==
    /\ Ids \cap {"metadata", "use", "login"} = {}
    /\ None \notin Procs \cup Ids \cup {"metadata", "use", "login"}
    /\ None \notin [seed : Nat, counter : Nat] /\ None \notin [previous : BOOLEAN]

\* What a keyring holds for a profile, of Purpose::ALL the two kinds that differ.
Purposes == {"Password", "TokenSeed"}

VARIABLES
    profiles,     \* profiles.json: its revision and the profiles it lists
    settings,     \* settings.json: its revision and start_at_login
    pins,         \* certificate-pins.json: its revision and the pinned fingerprint of a host
    keyring,      \* for each profile and purpose the saved secret, or None
    registered,   \* the desktop starts at login
    session,      \* the profile the service's slot is in use for, or None
    exported,     \* an export's destination: its content and its number of links
    lock,         \* who holds metadata, use, login and each profile's credentials
    at,           \* where each process is in its operation
    started, crashes, births,  \* history: operations, kills, secrets and profiles made
    doubt,        \* history: somebody was told, or killed before it could be told
    responses     \* history: the one-time passwords sent to a server, by seed and counter

docVars == <<profiles, settings, pins>>
history == <<started, crashes, births>>
vars == <<docVars, keyring, registered, session, exported, lock, at, history, doubt, responses>>

Locks == {"metadata", "use", "login"} \cup Ids
Idle  == [op |-> "idle", step |-> "idle"]
Request(op, step, id, arg) ==
    [op |-> op, step |-> step, id |-> id, arg |-> arg, base |-> None, old |-> None, doc |-> None]
Secret(n) == [seed |-> n, counter |-> 0]

\* What create, duplicate and import_json number it, whatever its id was before.
Fresh(name, born) == [born |-> born, rev |-> 1, name |-> name]

\* A profile with its secrets, as its creation and the first use left it.
Init ==
    \E i \in Ids, n \in Names :
    /\ profiles = [rev |-> 1, list |-> [x \in {i} |-> Fresh(n, 0)]]
    /\ settings = [rev |-> 0, login |-> FALSE] /\ pins = [rev |-> 0, pin |-> None]
    /\ keyring = [x \in Ids |-> [u \in Purposes |-> IF x = i THEN Secret(0) ELSE None]]
    /\ registered = FALSE /\ session = None /\ exported = [by |-> None, links |-> 0]
    /\ lock = [l \in Locks |-> None] /\ at = [p \in Procs |-> Idle]
    /\ started = 0 /\ crashes = 0 /\ births = 0 /\ doubt = FALSE /\ responses = <<>>

Doing(p, op, step) == at[p].op = op /\ at[p].step = step
Held(p)       == {l \in Locks : lock[l] = p}
Free(p, ls)   == lock' = [l \in Locks |-> IF l \in ls /\ lock[l] = p THEN None ELSE lock[l]]
Take(p, l)    == lock[l] = None /\ lock' = [lock EXCEPT ![l] = p]
Goes(p, step) == at' = [at EXCEPT ![p].step = step]
Ends(p)       == at' = [at EXCEPT ![p] = Idle] /\ Free(p, Locks)

----------------------------------------------------------------------------
(* Metadata under its lock: ProfileStore                                   *)

\* list, settings and pins hold the lock while they read one document.
Readable == lock["metadata"] = None

Loaded(p, base, step) == at' = [at EXCEPT ![p].base = base, ![p].step = step]

\* The versions an interface shows, and hands back with what its user changed.
Load(p) ==
    /\ at[p].step = "load" /\ Readable
    /\ \/ at[p].op = "pin" /\ Loaded(p, pins.rev, "lock")
       \/ at[p].op = "settings" /\ Loaded(p, settings.rev, "login")
       \/ /\ at[p].id \in DOMAIN profiles.list
          /\ Loaded(p, profiles.list[at[p].id], IF at[p].op = "update" THEN "lock" ELSE "use")
    /\ UNCHANGED <<docVars, keyring, registered, session, exported, lock, history, doubt, responses>>

\* Fault: the lock of a file each opened for itself excludes nobody.
LockMetadataShared(p) ==
    /\ at[p].step = "lock" /\ Goes(p, "read")
    /\ UNCHANGED <<lock, docVars, keyring, registered, session, exported, history, doubt, responses>>

LockMetadata(p) ==
    /\ at[p].step = "lock" /\ Take(p, "metadata") /\ Goes(p, "read")
    /\ UNCHANGED <<docVars, keyring, registered, session, exported, history, doubt, responses>>

\* validate_profiles
Distinct(list) == \A i, j \in DOMAIN list : list[i].name = list[j].name => i = j

Stale(actual, expected) == actual # expected
Exhausted(rev) == rev = MaxRevision

Proposes(p, step, doc, old) == at' = [at EXCEPT ![p].doc = doc, ![p].old = old, ![p].step = step]

Refuses(p) == at' = [at EXCEPT ![p].step = "refused"]

\* create, duplicate and import_json: all of the new profiles or none.
Add(p) ==
    LET new  == DOMAIN at[p].arg
        list == [i \in new \cup DOMAIN profiles.list |->
                    IF i \in new THEN Fresh(at[p].arg[i], births + 1) ELSE profiles.list[i]]
    IN  /\ Doing(p, "add", "read")
        /\ IF /\ new \cap DOMAIN profiles.list = {} /\ Distinct(list)
              /\ ~Exhausted(profiles.rev)
             THEN /\ births' = births + 1
                  /\ Proposes(p, "write", [rev |-> profiles.rev + 1, list |-> list], profiles)
             ELSE Refuses(p) /\ UNCHANGED births
        /\ UNCHANGED <<docVars, keyring, registered, session, exported, lock, started, crashes, doubt, responses>>

Update(p) ==
    LET i == at[p].id
        list == [profiles.list EXCEPT ![i].rev = @ + 1, ![i].name = at[p].arg]
    IN  /\ Doing(p, "update", "read")
        /\ IF /\ i \in DOMAIN profiles.list /\ ~Stale(profiles.list[i].rev, at[p].base.rev)
              /\ ~Exhausted(profiles.list[i].rev) /\ Distinct(list) /\ ~Exhausted(profiles.rev)
             THEN Proposes(p, "write", [rev |-> profiles.rev + 1, list |-> list], profiles)
             ELSE Refuses(p)
        /\ UNCHANGED <<docVars, keyring, registered, session, exported, lock, history, doubt, responses>>

\* The next revision is known to exist before the first secret is deleted.
Remove(p) ==
    LET i == at[p].id
    IN  /\ Doing(p, "remove", "read")
        /\ IF /\ i \in DOMAIN profiles.list /\ ~Stale(profiles.list[i].rev, at[p].base.rev)
              /\ ~Exhausted(profiles.rev)
             THEN Proposes(p, "erase",
                           [rev |-> profiles.rev + 1,
                            list |-> Restrict(profiles.list, DOMAIN profiles.list \ {i})], profiles)
             ELSE Refuses(p)
        /\ UNCHANGED <<docVars, keyring, registered, session, exported, lock, history, doubt, responses>>

SaveSettings(p) ==
    /\ Doing(p, "settings", "read")
    /\ IF Stale(settings.rev, at[p].base) \/ Exhausted(settings.rev)
         THEN Refuses(p)
         ELSE Proposes(p, "write", [rev |-> settings.rev + 1, login |-> at[p].arg], settings)
    /\ UNCHANGED <<docVars, keyring, registered, session, exported, lock, history, doubt, responses>>

SavePin(p) ==
    /\ Doing(p, "pin", "read")
    /\ IF Stale(pins.rev, at[p].base) \/ Exhausted(pins.rev)
         THEN Refuses(p)
         ELSE Proposes(p, "write", [rev |-> pins.rev + 1, pin |-> p], pins)
    /\ UNCHANGED <<docVars, keyring, registered, session, exported, lock, history, doubt, responses>>

\* atomic_write with overwrite: the temporary file is renamed into place.
Replace(p) ==
    /\ at[p].step = "write" /\ Goes(p, "sync")
    /\ profiles' = IF at[p].op \in {"add", "update", "remove"} THEN at[p].doc ELSE profiles
    /\ settings' = IF at[p].op = "settings" THEN at[p].doc ELSE settings
    /\ pins'     = IF at[p].op = "pin" THEN at[p].doc ELSE pins
    /\ UNCHANGED <<keyring, registered, session, exported, lock, history, doubt, responses>>

Sync(p) ==
    /\ at[p].step = "sync" /\ Ends(p)
    /\ UNCHANGED <<docVars, keyring, registered, session, exported, history, doubt, responses>>

----------------------------------------------------------------------------
(* Profiles in use: reserve_profile, remove_profile and the service        *)

LockUse(p) ==
    /\ at[p].step = "use" /\ Take(p, "use")
    /\ Goes(p, IF at[p].op = "remove" THEN "ask" ELSE "check")
    /\ UNCHANGED <<docVars, keyring, registered, session, exported, history, doubt, responses>>

\* The service's snapshot names the profile of a session that is not over.
Ask(p) ==
    /\ Doing(p, "remove", "ask")
    /\ IF session = at[p].id THEN Refuses(p) ELSE Goes(p, "lock")
    /\ UNCHANGED <<docVars, keyring, registered, session, exported, lock, history, doubt, responses>>

\* Fault: the guard is dropped when the profile has been compared.
CheckUnguarded(p) ==
    /\ Doing(p, "reserve", "check") /\ Readable
    /\ IF at[p].id \in DOMAIN profiles.list /\ profiles.list[at[p].id] = at[p].base
         THEN Goes(p, "send") /\ Free(p, {"use"}) ELSE Refuses(p) /\ UNCHANGED lock
    /\ UNCHANGED <<docVars, keyring, registered, session, exported, history, doubt, responses>>

\* The profile the interface connects with is still the stored one.
Check(p) ==
    /\ Doing(p, "reserve", "check") /\ Readable
    /\ IF at[p].id \in DOMAIN profiles.list /\ profiles.list[at[p].id] = at[p].base
         THEN Goes(p, "send") ELSE Refuses(p)
    /\ UNCHANGED <<docVars, keyring, registered, session, exported, lock, history, doubt, responses>>

\* A Reserve that was sent is handled although nobody waits for the answer.
Handled(p) == session' \in IF session = None THEN {None, at[p].id} ELSE {session}

\* The service's answer to Reserve, or none in time; the guard is held up to here.
Reserved(p) ==
    /\ Doing(p, "reserve", "send")
    /\ \/ session = None /\ session' = at[p].id /\ Goes(p, "using") /\ Free(p, {"use"})
       \/ Handled(p) /\ Ends(p)
    /\ UNCHANGED <<docVars, keyring, registered, exported, history, doubt, responses>>

\* The session ends, or the service drops one whose interface is gone.
SessionEnds ==
    /\ session # None /\ session' = None
    /\ \/ \E p \in Procs : at[p].step = "using" /\ Ends(p)
       \/ (\A p \in Procs : at[p].step # "using") /\ UNCHANGED <<at, lock>>
    /\ UNCHANGED <<docVars, keyring, registered, exported, history, doubt, responses>>

----------------------------------------------------------------------------
(* Secrets: credentials.rs.  The lock of a profile's secrets is taken for  *)
(* one call, for the removal of all of them, or for a HOTP transaction.    *)

\* save_blocking and delete_blocking
SaveSecret(p) ==
    /\ Doing(p, "secret", "credentials") /\ lock[at[p].id] = None
    /\ births' = births + 1
    /\ \E s \in {None, Secret(births + 1)} : keyring' = [keyring EXCEPT ![at[p].id][at[p].arg] = s]
    /\ Ends(p)
    /\ UNCHANGED <<docVars, registered, session, exported, started, crashes, doubt, responses>>

\* delete_profile_blocking, under the metadata lock of the removal.
LockErase(p) ==
    /\ Doing(p, "remove", "erase") /\ Take(p, at[p].id)
    /\ at' = [at EXCEPT ![p].step = "erasing", ![p].arg = keyring[at[p].id]]
    /\ UNCHANGED <<docVars, keyring, registered, session, exported, history, doubt, responses>>

\* Fault: the metadata is replaced first and the secrets go later.
EraseLater(p) ==
    /\ Doing(p, "remove", "erasing") /\ Goes(p, "write") /\ Free(p, {at[p].id})
    /\ UNCHANGED <<keyring, docVars, registered, session, exported, history, doubt, responses>>

Erase(p) ==
    LET i == at[p].id
        left == {u \in Purposes : keyring[i][u] # None}
    IN  /\ Doing(p, "remove", "erasing")
        /\ IF left = {} THEN Goes(p, "write") /\ Free(p, {i}) /\ UNCHANGED keyring
           ELSE /\ \E u \in left : keyring' = [keyring EXCEPT ![i][u] = None]
                /\ UNCHANGED <<at, lock>>
        /\ UNCHANGED <<docVars, registered, session, exported, history, doubt, responses>>

\* Fault: the lock covers the read of the seed only.
HotpBeginUnlocked(p) ==
    LET seed == keyring[at[p].id]["TokenSeed"]
    IN  /\ Doing(p, "hotp", "credentials") /\ lock[at[p].id] = None /\ UNCHANGED lock
        /\ at' = [at EXCEPT ![p] = IF seed = None THEN Idle ELSE [@ EXCEPT !.step = "commit", !.base = seed]]
        /\ UNCHANGED <<docVars, keyring, registered, session, exported, history, doubt, responses>>

\* HotpTransaction::begin: the seed is read again under the lock.
HotpBegin(p) ==
    LET seed == keyring[at[p].id]["TokenSeed"]
    IN  /\ Doing(p, "hotp", "credentials") /\ lock[at[p].id] = None
        /\ IF seed = None THEN Ends(p)
           ELSE Take(p, at[p].id) /\ at' = [at EXCEPT ![p].step = "commit", ![p].base = seed]
        /\ UNCHANGED <<docVars, keyring, registered, session, exported, history, doubt, responses>>

\* HotpTransaction::commit with the counter the library has advanced; a write
\* that fails may have happened, and it aborts the authentication, as a
\* transaction that is dropped does.
HotpCommit(p) ==
    LET next == [keyring EXCEPT ![at[p].id]["TokenSeed"] = [at[p].base EXCEPT !.counter = @ + 1]]
    IN  /\ Doing(p, "hotp", "commit")
        /\ \/ keyring' = next /\ Goes(p, "answer") /\ Free(p, {at[p].id})
           \/ keyring' \in {keyring, next} /\ Ends(p)
        /\ UNCHANGED <<docVars, registered, session, exported, history, doubt, responses>>

\* The library sends the response it computed between the two calls.
HotpAnswer(p) ==
    /\ Doing(p, "hotp", "answer") /\ responses' = Append(responses, at[p].base) /\ Ends(p)
    /\ UNCHANGED <<docVars, keyring, registered, session, exported, history, doubt>>

----------------------------------------------------------------------------
(* The login registration follows the settings: configuration::save_settings *)

LockLogin(p) ==
    /\ at[p].step = "login" /\ Take(p, "login") /\ Goes(p, "before")
    /\ UNCHANGED <<docVars, keyring, registered, session, exported, history, doubt, responses>>

\* Fault: the document's lock is kept from the first look to the save.
BeforeLocked(p) ==
    /\ Doing(p, "settings", "before") /\ Take(p, "metadata")
    /\ IF at[p].arg = settings.login THEN Goes(p, "lock")
       ELSE at' = [at EXCEPT ![p].step = "register", ![p].old = [previous |-> registered]]
    /\ UNCHANGED <<docVars, keyring, registered, session, exported, history, doubt, responses>>

\* The registration is looked up, and changed, only when the setting changes.
Before(p) ==
    /\ Doing(p, "settings", "before") /\ Readable
    /\ IF Stale(settings.rev, at[p].base) THEN Refuses(p) /\ UNCHANGED lock
       ELSE IF at[p].arg = settings.login THEN Goes(p, "lock") /\ UNCHANGED lock
       ELSE \/ at' = [at EXCEPT ![p].step = "register", ![p].old = [previous |-> registered]] /\ UNCHANGED lock
            \/ Ends(p)
    /\ UNCHANGED <<docVars, keyring, registered, session, exported, history, doubt, responses>>

\* set_login_enabled; when it fails nobody looks how far it came.
Register(p) ==
    /\ Doing(p, "settings", "register")
    /\ \/ registered' = at[p].arg /\ at' = [at EXCEPT ![p].step = "lock", ![p].id = at[p].old] /\ UNCHANGED <<lock, doubt>>
       \/ registered' \in {registered, at[p].arg} /\ Ends(p) /\ doubt' = TRUE
    /\ UNCHANGED <<docVars, keyring, session, exported, history, responses>>

\* Fault: the error is returned at once.
RollbackForgets(p) ==
    /\ Doing(p, "settings", "rollback") /\ Ends(p) /\ UNCHANGED <<registered, doubt>>
    /\ UNCHANGED <<docVars, keyring, session, exported, history, responses>>

\* The settings were not saved: the registration goes back to what it was,
\* unless somebody else has changed it meanwhile.
Rollback(p) ==
    /\ Doing(p, "settings", "rollback") /\ Ends(p)
    /\ \/ registered = at[p].arg /\ registered' = at[p].id.previous /\ UNCHANGED doubt
       \/ registered # at[p].arg /\ UNCHANGED registered /\ doubt' = TRUE
       \/ UNCHANGED registered /\ doubt' = TRUE
    /\ UNCHANGED <<docVars, keyring, session, exported, history, responses>>

\* The user changes the login items of the system.
UserRegisters ==
    /\ ~doubt /\ registered' = ~registered /\ doubt' = TRUE
    /\ UNCHANGED <<docVars, keyring, session, exported, lock, at, history, responses>>

----------------------------------------------------------------------------
(* Exports: atomic_write, with and without overwrite                       *)

\* A file with a second link, or another owner or access list, is not private.
Shared(file) == file.links > 1

\* The destination is opened first: it must be private, and absent without --force.
OpenExport(p) ==
    /\ Doing(p, "export", "open") /\ Readable
    /\ IF Shared(exported) \/ (exported.links = 1 /\ ~at[p].arg) THEN Refuses(p) ELSE Goes(p, "publish")
    /\ UNCHANGED <<docVars, keyring, registered, session, exported, lock, history, doubt, responses>>

\* rename, or hard_link that fails when the name is taken.
Publish(p) ==
    /\ Doing(p, "export", "publish")
    /\ \/ at[p].arg /\ exported' = [by |-> p, links |-> 1] /\ Goes(p, "sync")
       \/ ~at[p].arg /\ exported.links = 0 /\ exported' = [by |-> p, links |-> 2] /\ Goes(p, "unlink")
       \/ ~at[p].arg /\ exported.links > 0 /\ UNCHANGED exported /\ Refuses(p)
    /\ UNCHANGED <<docVars, keyring, registered, session, lock, history, doubt, responses>>

\* On Windows the temporary file is moved, unless the name is taken.
PublishMoves(p) ==
    /\ Doing(p, "export", "publish") /\ ~at[p].arg /\ exported.links = 0
    /\ exported' = [by |-> p, links |-> 1] /\ Goes(p, "sync")
    /\ UNCHANGED <<docVars, keyring, registered, session, lock, history, doubt, responses>>

Unlink(p) ==
    /\ Doing(p, "export", "unlink") /\ Goes(p, "sync")
    /\ exported' = IF exported.by = p THEN [exported EXCEPT !.links = 1] ELSE exported
    /\ UNCHANGED <<docVars, keyring, registered, session, lock, history, doubt, responses>>

----------------------------------------------------------------------------
(* Processes                                                               *)

\* The changes a user can ask an interface for.
Requests ==
    {Request("add", "lock", None, e) : e \in UNION {[d -> Names] : d \in (SUBSET Ids) \ {{}}}}
    \cup {Request("update", "load", i, n) : i \in Ids, n \in Names}
    \cup {Request(op, "load", i, None) : op \in {"remove", "reserve"}, i \in Ids}
    \cup {Request("settings", "load", None, b) : b \in BOOLEAN}
    \cup {Request("pin", "load", None, None)}
    \cup {Request("secret", "credentials", i, u) : i \in Ids, u \in Purposes}
    \cup {Request("hotp", "credentials", i, None) : i \in Ids}
    \cup {Request("export", "open", None, force) : force \in BOOLEAN}

Starts(p) ==
    /\ at[p] = Idle /\ started < MaxOperations /\ started' = started + 1
    /\ \E r \in Requests :
         /\ r.id # None => r.id \in DOMAIN profiles.list
         /\ at' = [at EXCEPT ![p] = r]
    /\ UNCHANGED <<docVars, keyring, registered, session, exported, lock, crashes, births, doubt, responses>>

\* Disk, keyring, service and lock errors, the ten seconds a lock is tried for,
\* and refusals: the guards are dropped.  A save of settings that has changed
\* the registration goes on to undo that.
MayFail == {"load", "lock", "read", "write", "sync", "use", "ask", "check", "erase", "erasing",
            "credentials", "login", "before", "open", "publish", "refused"}
Undoes(p) == at[p].op = "settings" /\ at[p].step \in {"lock", "read", "write", "sync", "refused"} /\ at[p].id # None
Fails(p) ==
    /\ at[p].step \in MayFail
    /\ IF Undoes(p) THEN Goes(p, "rollback") /\ Free(p, {"metadata"}) ELSE Ends(p)
    /\ doubt' = (doubt \/ Doing(p, "settings", "sync"))
    /\ UNCHANGED <<docVars, keyring, registered, session, exported, history, responses>>

Crashes(p) ==
    /\ at[p] # Idle /\ crashes < MaxCrashes /\ crashes' = crashes + 1 /\ Ends(p)
    /\ IF Doing(p, "reserve", "send") THEN Handled(p) ELSE UNCHANGED session
    /\ doubt' = (doubt \/ at[p].op = "settings")
    /\ UNCHANGED <<docVars, keyring, registered, exported, started, births, responses>>

Steps(p) ==
    \/ Load(p) \/ LockMetadata(p) \/ Add(p) \/ Update(p) \/ Remove(p) \/ SaveSettings(p) \/ SavePin(p)
    \/ Replace(p) \/ Sync(p) \/ LockUse(p) \/ Ask(p) \/ Check(p) \/ Reserved(p)
    \/ SaveSecret(p) \/ LockErase(p) \/ Erase(p) \/ HotpBegin(p) \/ HotpCommit(p) \/ HotpAnswer(p)
    \/ LockLogin(p) \/ Before(p) \/ Register(p) \/ Rollback(p)
    \/ OpenExport(p) \/ Publish(p) \/ PublishMoves(p) \/ Unlink(p)

Next ==
    \/ \E p \in Procs : Starts(p) \/ Steps(p) \/ Fails(p) \/ Crashes(p)
    \/ SessionEnds \/ UserRegisters

Spec == Init /\ [][Next]_vars

----------------------------------------------------------------------------
(* Properties                                                              *)

Replacing(p) == at[p].step = "write" /\ at'[p].step = "sync"
Target(p) == CASE at[p].op = "settings" -> settings [] at[p].op = "pin" -> pins [] OTHER -> profiles

\* Nobody's work is replaced unseen: a document is replaced by the process that
\* read this very version of it, a profile is changed or removed only from the
\* version its author was shown (as long as it is the same profile, not one
\* imported under an id that was removed), and an exported file without --force
\* never takes the place of one that is there, whoever came in between the check
\* and the rename (profiles.rs stale and lock; private_fs.rs atomic_write).
NothingOverwritten ==
    [][/\ \A p \in Procs : Replacing(p) =>
             /\ at[p].old = Target(p)
             /\ at[p].op \in {"update", "remove"} =>
                  LET now == profiles.list[at[p].id]
                  IN  at[p].base.born = now.born => at[p].base = now
             /\ at[p].op \in {"settings", "pin"} => at[p].base = Target(p).rev
       /\ \A p \in Procs : exported'.by = p /\ exported'.by # exported.by /\ exported.links > 0 => at[p].arg
      ]_vars

\* The profile of a session an interface has reserved stays in the store until
\* the session is over: a removal and a reservation exclude each other from the
\* comparison with the stored profile to the service's answer
\* (configuration.rs reserve_profile, remove_profile).
InUseKept == \A p \in Procs : at[p].step = "using" => at[p].id \in DOMAIN profiles.list

\* No response of a counter-based token is computed twice from one counter,
\* whatever processes authenticate at once, fail and are killed: the response
\* leaves the process after the advanced counter is in the keyring
\* (credentials.rs HotpTransaction).
HotpOnce == \A j, k \in DOMAIN responses : responses[j] = responses[k] => j = k

\* The desktop starts at login exactly if the settings say so, unless a save
\* reported that it could not restore the registration, or was killed, the user
\* changed the system's login items, or the save failed after the file had been
\* replaced (configuration.rs save_settings).
LoginAgrees == ~doubt /\ lock["login"] = None => registered = settings.login

\* A profile's metadata goes only after every secret that was in the keyring
\* when its removal began: no secret is left behind that no profile owns, except
\* one that another interface saves while the removal is under way
\* (profiles.rs remove, credentials.rs delete_profile_blocking).
RemovalErases ==
    [][\A p \in Procs, u \in Purposes :
        Replacing(p) /\ at[p].op = "remove" /\ at[p].arg[u] # None =>
            keyring[at[p].id][u] = None \/ keyring[at[p].id][u].seed # at[p].arg[u].seed]_vars

\* Whose lock a process waits for.
Wanted(p) ==
    CASE at[p].step \in {"load", "lock", "check", "before", "open"} -> "metadata"
      [] at[p].step \in {"use", "login"} -> at[p].step
      [] at[p].step \in {"erase", "credentials"} -> at[p].id
      [] OTHER -> None
Blocker(p) == IF Wanted(p) = None THEN None ELSE lock[Wanted(p)]

\* Operations never wait for one another, or for themselves, in a circle:
\* metadata, credentials, use and login locks are taken in one order
\* (profiles.rs remove, configuration.rs lock, credentials.rs lock_profile).
NoCircularWait == \A ps \in (SUBSET Procs) \ {{}} : \E p \in ps : Blocker(p) \notin ps

============================================================================
