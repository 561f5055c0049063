------------------------- MODULE ProfileStoreProofs -------------------------
(***************************************************************************)
(* Proofs about the shared configuration, for any number of interface      *)
(* processes, profiles and names, of operations and of kills.              *)
(*                                                                         *)
(* Everything rests on who holds which lock where: StoreInv says for each  *)
(* process which locks its position implies and which positions a lock     *)
(* implies, and what the process may rely on while it holds them.          *)
(***************************************************************************)
EXTENDS ProfileStore, TLAPS

Versions == [born : Nat, rev : Nat, name : Names]
Catalog(c) == c.rev \in Nat /\ DOMAIN c.list \subseteq Ids /\ \A i \in DOMAIN c.list : c.list[i] \in Versions
Secrets  == [seed : Nat, counter : Nat]
DocOps   == {"add", "update", "remove", "settings", "pin"}

\* Every operation goes through its own steps.
Walks(p) ==
    \/ at[p] = Idle
    \/ /\ DOMAIN at[p] = {"op", "step", "id", "arg", "base", "old", "doc"}
       /\ \/ at[p].op = "add" /\ at[p].step \in {"lock", "read", "write", "sync", "refused"}
          \/ at[p].op \in {"update", "pin"} /\ at[p].step \in {"load", "lock", "read", "write", "sync", "refused"}
          \/ at[p].op = "remove" /\ at[p].step \in {"load", "use", "ask", "lock", "read", "erase", "erasing", "write", "sync", "refused"}
          \/ at[p].op = "reserve" /\ at[p].step \in {"load", "use", "check", "send", "using", "refused"}
          \/ at[p].op = "settings" /\ at[p].step \in {"load", "login", "before", "register", "lock", "read", "write", "sync", "refused", "rollback"}
          \/ at[p].op = "secret" /\ at[p].step = "credentials"
          \/ at[p].op = "hotp" /\ at[p].step \in {"credentials", "commit", "answer"}
          \/ at[p].op = "export" /\ at[p].step \in {"open", "publish", "unlink", "sync", "refused"}

\* What an operation was given, and has read.
Given(p) ==
    /\ at[p].op \in {"update", "remove", "reserve", "secret", "hotp"} => at[p].id \in Ids
    /\ at[p].op \in {"update", "remove", "reserve"} /\ at[p].step # "load" => at[p].base \in Versions
    /\ at[p].op = "update" => at[p].arg \in Names
    /\ at[p].op = "add" => DOMAIN at[p].arg \subseteq Ids /\ \A i \in DOMAIN at[p].arg : at[p].arg[i] \in Names
    /\ at[p].op = "settings" => at[p].arg \in BOOLEAN /\ at[p].id \in {None} \cup [previous : BOOLEAN]
    /\ \/ at[p].op = "pin"
       \/ at[p].op = "settings" /\ at[p].step \in {"load", "login", "before", "register"}
       => at[p].id = None
    /\ at[p].op = "settings" /\ at[p].step = "register" => at[p].old \in [previous : BOOLEAN]
    /\ at[p].op = "settings" /\ at[p].step = "rollback" => at[p].id # None
    /\ at[p].op = "remove" /\ at[p].step \in {"erasing", "write"} => at[p].arg \in [Purposes -> Secrets \cup {None}]
    /\ at[p].op = "secret" => at[p].arg \in Purposes
    /\ at[p].op = "hotp" /\ at[p].step \in {"commit", "answer"} => at[p].base \in Secrets

\* The locks a position implies.
Locking(p) ==
    /\ at[p].op \in DocOps /\ at[p].step \in {"read", "erase", "erasing", "write", "sync"} => lock["metadata"] = p
    /\ at[p].op = "remove" /\ at[p].step \in {"ask", "lock", "read", "erase", "erasing", "write", "sync"} => lock["use"] = p
    /\ at[p].op = "reserve" /\ at[p].step \in {"check", "send"} => lock["use"] = p
    /\ at[p].op = "settings" /\ at[p].step \notin {"load", "login"} => lock["login"] = p
    /\ Doing(p, "remove", "erasing") \/ Doing(p, "hotp", "commit") => lock[at[p].id] = p

\* The positions a lock implies.
Holding(p) ==
    /\ lock["metadata"] = p => at[p].step \in {"read", "erase", "erasing", "write", "sync", "refused"}
    /\ lock["use"] = p => \/ at[p].op = "remove" /\ at[p].step \notin {"load", "use"}
                          \/ at[p].op = "reserve" /\ at[p].step \in {"check", "send", "refused"}
    /\ lock["login"] = p => at[p].op = "settings" /\ at[p].step \notin {"load", "login"}
    /\ \A i \in Ids : lock[i] = p => at[p].id = i /\ (Doing(p, "remove", "erasing") \/ Doing(p, "hotp", "commit"))

\* The version of a profile that an interface was shown is an older one, or the
\* one that is stored, unless another profile has come in under its id.
Shown(p) ==
    at[p].op \in {"update", "remove", "reserve"} /\ at[p].step # "load" =>
        /\ at[p].base.born <= births
        /\ at[p].id \in DOMAIN profiles.list /\ profiles.list[at[p].id].born = at[p].base.born =>
             at[p].base.rev < profiles.list[at[p].id].rev \/ at[p].base = profiles.list[at[p].id]

\* What is about to replace a document was made from it, and from nothing older.
New(p) == DOMAIN at[p].doc.list \ DOMAIN profiles.list
Proposal(p) ==
    at[p].op \in DocOps /\ at[p].step \in {"erase", "erasing", "write"} =>
        /\ at[p].old = Target(p)
        /\ at[p].op = "add" =>
             /\ Catalog(at[p].doc)
             /\ \A i \in DOMAIN profiles.list : i \in DOMAIN at[p].doc.list /\ at[p].doc.list[i] = profiles.list[i]
             /\ \A i \in New(p) : /\ at[p].doc.list[i].born <= births
                                  /\ \A q \in Procs : at[q].op \in {"update", "remove", "reserve"} /\ at[q].step # "load" =>
                                                         at[q].base.born # at[p].doc.list[i].born
        /\ at[p].op = "update" =>
             /\ Catalog(at[p].doc) /\ DOMAIN at[p].doc.list = DOMAIN profiles.list
             /\ \A i \in DOMAIN profiles.list : i # at[p].id => at[p].doc.list[i] = profiles.list[i]
             /\ at[p].doc.list[at[p].id].born = profiles.list[at[p].id].born
             /\ at[p].doc.list[at[p].id].rev = profiles.list[at[p].id].rev + 1
        /\ at[p].op = "remove" =>
             /\ Catalog(at[p].doc) /\ DOMAIN at[p].doc.list = DOMAIN profiles.list \ {at[p].id}
             /\ \A i \in DOMAIN at[p].doc.list : at[p].doc.list[i] = profiles.list[i]
        /\ at[p].op \in {"update", "remove"} =>
             at[p].id \in DOMAIN profiles.list /\ profiles.list[at[p].id].rev = at[p].base.rev
        /\ at[p].op = "settings" => at[p].doc \in [rev : Nat, login : {at[p].arg}] /\ at[p].base = settings.rev
        /\ at[p].op = "pin" => at[p].doc \in [rev : Nat, pin : Procs] /\ at[p].base = pins.rev

\* A profile is reserved or removed, never both at once.
Using(p) ==
    /\ at[p].step = "using" => session = at[p].id /\ at[p].id \in DOMAIN profiles.list
    /\ at[p].step = "using" => \A q \in Procs : at[q].step = "using" => q = p
    /\ Doing(p, "reserve", "send") => at[p].id \in DOMAIN profiles.list
    /\ at[p].op = "remove" /\ at[p].step \in {"lock", "read", "erase", "erasing", "write"} => session # at[p].id

\* A secret that was used is behind the one in the keyring.
Behind(s) ==
    /\ s.seed <= births
    /\ \A i \in Ids : keyring[i]["TokenSeed"] # None /\ keyring[i]["TokenSeed"].seed = s.seed =>
                         s.counter < keyring[i]["TokenSeed"].counter
Spent == \A k \in 1..Len(responses) : Behind(responses[k])
Counting(p) ==
    /\ Doing(p, "hotp", "commit") => keyring[at[p].id]["TokenSeed"] = at[p].base
    /\ Doing(p, "hotp", "answer") =>
         /\ Behind(at[p].base)
         /\ \A k \in 1..Len(responses) : responses[k] # at[p].base
         /\ \A q \in Procs : Doing(q, "hotp", "answer") /\ at[q].base = at[p].base => q = p
    /\ at[p].op = "remove" /\ at[p].step \in {"erasing", "write"} =>
         \A u \in Purposes : at[p].arg[u] # None =>
            /\ at[p].arg[u].seed <= births
            /\ at[p].step = "write" /\ keyring[at[p].id][u] # None => keyring[at[p].id][u].seed # at[p].arg[u].seed

\* Where the login registration stands while a save of the settings holds its lock.
Agree == registered = settings.login
Registering(p) ==
    ~doubt /\ at[p].op = "settings" =>
        /\ at[p].step \in {"before", "register"} => Agree
        /\ at[p].step = "register" => at[p].old = [previous |-> registered]
        /\ at[p].step \in {"lock", "read", "write", "sync", "refused"} /\ at[p].id = None => Agree
        /\ at[p].step \in {"lock", "read", "write", "sync"} /\ at[p].id = None => at[p].arg = settings.login
        /\ at[p].step = "sync" => registered = at[p].arg /\ at[p].arg = settings.login
        /\ at[p].step \in {"lock", "read", "write", "refused", "rollback"} /\ at[p].id # None =>
             registered = at[p].arg /\ at[p].id.previous = settings.login

Local(p) ==
    /\ Walks(p) /\ Given(p) /\ Locking(p) /\ Holding(p) /\ Shown(p) /\ Proposal(p) /\ Using(p) /\ Counting(p)
    /\ Registering(p)

StoreTypes ==
    /\ Catalog(profiles) /\ settings \in [rev : Nat, login : BOOLEAN] /\ pins \in [rev : Nat, pin : Procs \cup {None}]
    /\ keyring \in [Ids -> [Purposes -> Secrets \cup {None}]]
    /\ registered \in BOOLEAN /\ doubt \in BOOLEAN /\ session \in Ids \cup {None}
    /\ lock \in [Locks -> Procs \cup {None}] /\ DOMAIN at = Procs
    /\ births \in Nat /\ responses \in Seq(Secrets)

Common ==
    /\ \A i \in DOMAIN profiles.list : profiles.list[i].born <= births
    /\ \A i \in Ids, u \in Purposes : keyring[i][u] # None => keyring[i][u].seed <= births
    /\ \A i, j \in Ids : /\ keyring[i]["TokenSeed"] # None /\ keyring[j]["TokenSeed"] # None
                         /\ keyring[i]["TokenSeed"].seed = keyring[j]["TokenSeed"].seed
                         => i = j
    /\ Spent /\ HotpOnce /\ LoginAgrees

StoreInv == StoreTypes /\ Common /\ \A p \in Procs : Local(p)
----------------------------------------------------------------------------
(* What a step of one process leaves to the others                         *)

\* The record of a process after Goes, and those of the others.
LEMMA Moved ==
  ASSUME StoreInv, NEW p \in Procs, at[p] # Idle, NEW s, Goes(p, s)
  PROVE  /\ DOMAIN at' = Procs /\ at'[p].step = s /\ DOMAIN at'[p] = DOMAIN at[p]
         /\ at'[p].op = at[p].op /\ at'[p].id = at[p].id /\ at'[p].arg = at[p].arg
         /\ at'[p].base = at[p].base /\ at'[p].old = at[p].old /\ at'[p].doc = at[p].doc
         /\ \A q \in Procs \ {p} : at'[q] = at[q]
BY DEF StoreInv, StoreTypes, Local, Walks, Goes

\* Locks are taken when nobody holds them, and a process frees its own only.
LEMMA Taken ==
  ASSUME StoreInv, NEW p \in Procs, NEW l \in Locks, Take(p, l)
  PROVE  /\ lock' \in [Locks -> Procs \cup {None}] /\ lock'[l] = p
         /\ \A m \in Locks : m # l => lock'[m] = lock[m]
         /\ \A m \in Locks, q \in Procs \ {p} : lock'[m] = q <=> lock[m] = q
BY NameAssumption DEF StoreInv, StoreTypes, Take

\* The locks a process gives back are free, and no other lock changes.
LEMMA Freed ==
  ASSUME StoreInv, NEW p \in Procs, NEW ls, Free(p, ls)
  PROVE  /\ lock' \in [Locks -> Procs \cup {None}]
         /\ \A m \in Locks : IF m \in ls /\ lock[m] = p THEN lock'[m] = None ELSE lock'[m] = lock[m]
         /\ \A m \in Locks, q \in Procs \ {p} : lock'[m] = q <=> lock[m] = q
BY NameAssumption DEF StoreInv, StoreTypes, Free

\* A process that ends is idle and holds no lock, and no other process changes.
LEMMA Ended ==
  ASSUME StoreInv, NEW p \in Procs, Ends(p)
  PROVE  /\ DOMAIN at' = Procs /\ at'[p] = Idle /\ \A q \in Procs \ {p} : at'[q] = at[q]
         /\ lock' \in [Locks -> Procs \cup {None}]
         /\ \A m \in Locks : lock'[m] # p /\ (lock[m] # p => lock'[m] = lock[m]) /\ (lock[m] = p => lock'[m] = None)
         /\ \A m \in Locks, q \in Procs \ {p} : lock'[m] = q <=> lock[m] = q
<1>1. /\ DOMAIN at' = Procs /\ at'[p] = Idle /\ \A q \in Procs \ {p} : at'[q] = at[q]
  BY DEF StoreInv, StoreTypes, Ends
<1>2. /\ lock' \in [Locks -> Procs \cup {None}]
      /\ \A m \in Locks : IF lock[m] = p THEN lock'[m] = None ELSE lock'[m] = lock[m]
      /\ \A m \in Locks, q \in Procs \ {p} : lock'[m] = q <=> lock[m] = q
  BY Freed DEF Ends
<1> QED BY <1>1, <1>2, NameAssumption

\* An idle process relies on nothing.
LEMMA IdleLocal ==
  ASSUME NEW p \in Procs, at'[p] = Idle, \A m \in Locks : lock'[m] # p
  PROVE  Local(p)'
<1>1. at'[p].op = "idle" /\ at'[p].step = "idle"
  BY DEF Idle
<1>2. "metadata" \in Locks /\ "use" \in Locks /\ "login" \in Locks /\ Ids \subseteq Locks
  BY DEF Locks
<1>3. (Walks(p) /\ Given(p) /\ Locking(p) /\ Holding(p))'
  BY <1>1, <1>2 DEF Walks, Given, Locking, Holding, Doing, DocOps
<1>4. (Shown(p) /\ Proposal(p) /\ Using(p) /\ Counting(p) /\ Registering(p))'
  BY <1>1 DEF Shown, Proposal, Using, Counting, Registering, Doing, DocOps
<1> QED BY <1>3, <1>4 DEF Local

\* Positions and locks of a process that stands still.
LEMMA OtherStands ==
  ASSUME NEW q \in Procs, Local(q), at'[q] = at[q], \A m \in Locks : lock'[m] = q <=> lock[m] = q
  PROVE  (Walks(q) /\ Given(q) /\ Locking(q) /\ Holding(q))'
<1>1. "metadata" \in Locks /\ "use" \in Locks /\ "login" \in Locks /\ Ids \subseteq Locks
  BY DEF Locks
<1>2. Walks(q)' /\ Given(q)'
  BY DEF Local, Walks, Given
<1>3. Locking(q)'
  BY <1>1 DEF Local, Locking, Given, Doing
<1>4. Holding(q)'
  BY <1>1 DEF Local, Holding, Doing
<1> QED BY <1>2, <1>3, <1>4

\* What it was shown and proposes, while the documents stay and nobody reads.
LEMMA OtherProposes ==
  ASSUME NEW p \in Procs, NEW q \in Procs, q # p, Local(q), at'[q] = at[q], \A r \in Procs \ {p} : at'[r] = at[r],
         UNCHANGED docVars, births \in Nat, births' \in Nat, births <= births',
         \A i \in DOMAIN profiles.list : profiles.list[i].born <= births, Catalog(profiles),
         \/ lock["metadata"] = None
         \/ at'[p].op \in {"update", "remove", "reserve"} /\ at'[p].step # "load" =>
               at[p].op \in {"update", "remove", "reserve"} /\ at[p].step # "load" /\ at'[p].base = at[p].base
  PROVE  (Shown(q) /\ Proposal(q))'
<1> USE DEF docVars
<1>1. Shown(q)'
  BY DEF Local, Shown, Given, Versions
<1>2. CASE lock["metadata"] = None
  BY <1>1, <1>2, NameAssumption DEF Local, Locking, Proposal
<1>3. CASE lock["metadata"] # None
  <2>1. Proposal(q)'
    BY <1>3 DEF Local, Proposal, New, Target, Catalog, Versions
  <2> QED BY <1>1, <2>1
<1> QED BY <1>2, <1>3

\* The session and the profiles it rests on.
LEMMA OtherUses ==
  ASSUME NEW p \in Procs, NEW q \in Procs, q # p, Local(q), at'[q] = at[q], \A r \in Procs \ {p} : at'[r] = at[r],
         UNCHANGED <<profiles, session>>, at'[p].step = "using" => at[p].step = "using"
  PROVE  Using(q)'
BY DEF Local, Using, Doing

\* The counters of its token, and the secrets it erases.
LEMMA OtherCounts ==
  ASSUME NEW p \in Procs, NEW q \in Procs, q # p, Local(q), at'[q] = at[q], \A r \in Procs \ {p} : at'[r] = at[r],
         UNCHANGED <<keyring, responses>>, births \in Nat, births' \in Nat, births <= births',
         keyring \in [Ids -> [Purposes -> Secrets \cup {None}]],
         Doing(p, "hotp", "answer")' => Doing(p, "hotp", "answer") /\ at'[p].base = at[p].base
  PROVE  Counting(q)'
<1>1. ASSUME Doing(q, "hotp", "answer") PROVE Behind(at[q].base)'
  <2>1. Behind(at[q].base) /\ at[q].base \in Secrets /\ at'[q].base = at[q].base
    BY <1>1 DEF Local, Counting, Given, Doing
  <2> QED BY <2>1 DEF Behind, Secrets
<1>2. ASSUME Doing(q, "hotp", "answer") PROVE \A r \in Procs : Doing(r, "hotp", "answer")' /\ at'[r].base = at'[q].base => r = q
  BY <1>2 DEF Local, Counting, Doing
<1>3. ASSUME at[q].op = "remove", at[q].step \in {"erasing", "write"}
      PROVE  \A u \in Purposes : at[q].arg[u] # None => at[q].arg[u].seed <= births'
  <2>1. at[q].arg \in [Purposes -> Secrets \cup {None}]
    BY <1>3 DEF Local, Given
  <2> QED BY <1>3, <2>1 DEF Local, Counting, Secrets
<1>4. Doing(q, "hotp", "answer")' <=> Doing(q, "hotp", "answer")
  BY DEF Doing
<1> QED BY <1>1, <1>2, <1>3, <1>4 DEF Local, Counting, Doing

\* The registration.
LEMMA OtherRegisters ==
  ASSUME NEW q \in Procs, Local(q), at'[q] = at[q], UNCHANGED <<registered, settings>>, doubt => doubt'
  PROVE  Registering(q)'
BY DEF Local, Registering, Agree

\* The state that a step leaves alone beside the process and its locks.
frame == <<docVars, keyring, registered, session, responses>>

\* What the invariant says of the shared files depends on these alone.
LEMMA SharedKeeps ==
  ASSUME StoreInv, UNCHANGED frame, births' \in Nat, births <= births', doubt' \in BOOLEAN,
         lock' \in [Locks -> Procs \cup {None}], DOMAIN at' = Procs
  PROVE  StoreTypes' /\ (LoginAgrees' => Common')
<1> USE DEF frame, docVars
<1>1. StoreTypes'
  BY DEF StoreInv, StoreTypes, Catalog
<1>2. \A i \in DOMAIN profiles.list : profiles.list[i].born <= births'
  BY DEF StoreInv, StoreTypes, Common, Catalog, Versions
<1>3. \A i \in Ids, u \in Purposes : keyring[i][u] # None => keyring[i][u].seed <= births'
  BY DEF StoreInv, StoreTypes, Common, Secrets
<1>4. ASSUME NEW k \in 1..Len(responses) PROVE Behind(responses[k])'
  <2>0. responses[k] \in Secrets
    BY DEF StoreInv, StoreTypes
  <2>1. Behind(responses[k]) /\ births \in Nat
    BY DEF StoreInv, StoreTypes, Common, Spent
  <2>2. responses[k].seed <= births'
    BY <2>0, <2>1 DEF Behind, Secrets
  <2>3. responses'[k] = responses[k] /\ keyring' = keyring
    OBVIOUS
  <2> QED BY <2>1, <2>2, <2>3 DEF Behind
<1>5. Spent'
  BY <1>4 DEF Spent
<1> QED BY <1>1, <1>2, <1>3, <1>5 DEF StoreInv, Common, HotpOnce

\* A step of one process that changes no document, secret, registration or
\* session, reads no
\* profile that another is about to write, and answers nothing, leaves the others where they are.
LEMMA StepKeeps ==
  ASSUME StoreInv, NEW p \in Procs, UNCHANGED frame, births' \in Nat, births <= births', doubt' \in BOOLEAN, doubt => doubt',
         DOMAIN at' = Procs, \A q \in Procs \ {p} : at'[q] = at[q],
         lock' \in [Locks -> Procs \cup {None}], \A m \in Locks, q \in Procs \ {p} : lock'[m] = q <=> lock[m] = q,
         \/ lock["metadata"] = None
         \/ at'[p].op \in {"update", "remove", "reserve"} /\ at'[p].step # "load" =>
               at[p].op \in {"update", "remove", "reserve"} /\ at[p].step # "load" /\ at'[p].base = at[p].base,
         at'[p].step = "using" => at[p].step = "using",
         Doing(p, "hotp", "answer")' => Doing(p, "hotp", "answer") /\ at'[p].base = at[p].base,
         Local(p)', LoginAgrees'
  PROVE  StoreInv'
<1>1. StoreTypes' /\ Common'
  BY SharedKeeps
<1>2. ASSUME NEW q \in Procs, q # p PROVE Local(q)'
  <2>1. Local(q) /\ at'[q] = at[q]
    BY <1>2 DEF StoreInv
  <2>2. (Walks(q) /\ Given(q) /\ Locking(q) /\ Holding(q))'
    BY <1>2, <2>1, OtherStands
  <2>3. (Shown(q) /\ Proposal(q))'
    BY <1>2, <2>1, OtherProposes DEF StoreInv, StoreTypes, Common, frame
  <2>4. Using(q)'
    BY <1>2, <2>1, OtherUses DEF frame, docVars
  <2>5. Counting(q)'
    BY <1>2, <2>1, OtherCounts DEF StoreInv, StoreTypes, frame
  <2>6. Registering(q)'
    BY <1>2, <2>1, OtherRegisters DEF frame, docVars
  <2> QED BY <2>2, <2>3, <2>4, <2>5, <2>6 DEF Local
<1> QED BY <1>1, <1>2 DEF StoreInv

\* The same for an operation that is over.
LEMMA EndKeeps ==
  ASSUME StoreInv, NEW p \in Procs, UNCHANGED frame, births' \in Nat, births <= births', doubt' \in BOOLEAN, doubt => doubt',
         Ends(p), doubt' \/ lock["login"] # p \/ Agree
  PROVE  StoreInv'
<1>1. /\ DOMAIN at' = Procs /\ at'[p] = Idle /\ \A q \in Procs \ {p} : at'[q] = at[q]
      /\ lock' \in [Locks -> Procs \cup {None}]
      /\ \A m \in Locks : lock'[m] # p /\ (lock[m] # p => lock'[m] = lock[m])
      /\ \A m \in Locks, q \in Procs \ {p} : lock'[m] = q <=> lock[m] = q
  BY Ended
<1>2. Local(p)'
  BY <1>1, IdleLocal
<1>3. LoginAgrees'
  BY <1>1 DEF LoginAgrees, Locks, frame, docVars, Agree, StoreInv, Common
<1>4. at'[p].op = "idle" /\ at'[p].step = "idle"
  BY <1>1 DEF Idle
<1> QED BY <1>1, <1>2, <1>3, <1>4, StepKeeps DEF Doing

\* An operation begins.
LEMMA StartsKeeps == ASSUME StoreInv, NEW p \in Procs, Starts(p) PROVE StoreInv'
<1>1. PICK r \in Requests : (r.id # None => r.id \in DOMAIN profiles.list) /\ at' = [at EXCEPT ![p] = r]
  BY DEF Starts
<1>2. /\ at[p] = Idle /\ DOMAIN at' = Procs /\ at'[p] = r /\ \A q \in Procs \ {p} : at'[q] = at[q]
      /\ UNCHANGED <<lock, births, doubt>> /\ UNCHANGED frame
  BY <1>1 DEF Starts, StoreInv, StoreTypes, frame
<1>3. /\ DOMAIN r = {"op", "step", "id", "arg", "base", "old", "doc"}
      /\ \/ r.op = "add" /\ r.step = "lock" /\ DOMAIN r.arg \subseteq Ids /\ \A i \in DOMAIN r.arg : r.arg[i] \in Names
         \/ r.op = "update" /\ r.step = "load" /\ r.id \in Ids /\ r.arg \in Names
         \/ r.op \in {"remove", "reserve"} /\ r.step = "load" /\ r.id \in Ids
         \/ r.op = "settings" /\ r.step = "load" /\ r.arg \in BOOLEAN /\ r.id = None
         \/ r.op = "pin" /\ r.step = "load" /\ r.id = None
         \/ r.op = "secret" /\ r.step = "credentials" /\ r.id \in Ids /\ r.arg \in Purposes
         \/ r.op = "hotp" /\ r.step = "credentials" /\ r.id \in Ids
         \/ r.op = "export" /\ r.step = "open"
  BY DEF Requests, Request
<1>4. \A m \in Locks : lock[m] # p
  <2>1. Holding(p) /\ at[p].step = "idle" /\ at[p].op = "idle"
    BY <1>2 DEF StoreInv, Local, Idle
  <2> QED BY <2>1 DEF Holding, Locks, Doing
<1>5. Local(p)'
  <2>1. Walks(p)' /\ Given(p)'
    BY <1>2, <1>3 DEF Walks, Given
  <2>2. Locking(p)' /\ Holding(p)'
    BY <1>2, <1>3, <1>4 DEF Locking, Holding, Locks, Doing
  <2>3. Shown(p)' /\ Proposal(p)' /\ Using(p)' /\ Counting(p)' /\ Registering(p)'
    BY <1>2, <1>3 DEF Shown, Proposal, Using, Counting, Registering, Doing
  <2> QED BY <2>1, <2>2, <2>3 DEF Local
<1>6. LoginAgrees'
  BY <1>2 DEF StoreInv, Common, LoginAgrees, frame, docVars
<1>7. births \in Nat /\ doubt \in BOOLEAN /\ lock \in [Locks -> Procs \cup {None}]
  BY DEF StoreInv, StoreTypes
<1> QED BY <1>2, <1>3, <1>5, <1>6, <1>7, StepKeeps DEF Doing

\* A step to another position of the same operation, after the documents it has read.
LEMMA MoveKeeps ==
  ASSUME StoreInv, NEW p \in Procs, at[p] # Idle, at[p].step # "load", NEW s, s \notin {"using", "answer"}, Goes(p, s),
         UNCHANGED <<frame, births, doubt>>, lock' \in [Locks -> Procs \cup {None}],
         \A m \in Locks, q \in Procs \ {p} : lock'[m] = q <=> lock[m] = q,
         lock'["login"] = None => lock["login"] = None, Local(p)'
  PROVE  StoreInv'
<1>1. /\ DOMAIN at' = Procs /\ at'[p].step = s /\ at'[p].op = at[p].op /\ at'[p].base = at[p].base
      /\ \A q \in Procs \ {p} : at'[q] = at[q]
  BY Moved
<1>2. LoginAgrees'
  BY DEF LoginAgrees, StoreInv, Common, frame, docVars
<1>3. births \in Nat /\ births' \in Nat /\ births <= births' /\ doubt' \in BOOLEAN
  BY DEF StoreInv, StoreTypes
<1> QED BY <1>1, <1>2, <1>3, StepKeeps DEF Doing

\* An operation is refused; what it holds is freed when it returns.
LEMMA RefusesKeeps ==
  ASSUME StoreInv, NEW p \in Procs, at[p].step \in {"read", "ask", "check", "before", "open", "publish"}, Refuses(p),
         UNCHANGED <<frame, births, doubt, lock>>
  PROVE  StoreInv'
<1>1. Goes(p, "refused") /\ at[p] # Idle
  BY DEF Refuses, Goes, Idle
<1>2. /\ at'[p].step = "refused" /\ DOMAIN at'[p] = DOMAIN at[p]
      /\ at'[p].op = at[p].op /\ at'[p].id = at[p].id /\ at'[p].arg = at[p].arg /\ at'[p].base = at[p].base
  BY <1>1, Moved
<1>3. Local(p) /\ lock \in [Locks -> Procs \cup {None}]
  BY DEF StoreInv, StoreTypes
<1>4. (Walks(p) /\ Given(p))'
  BY <1>1, <1>2, <1>3 DEF Local, Walks, Given
<1>5. (Locking(p) /\ Holding(p))'
  BY <1>1, <1>2, <1>3 DEF Local, Walks, Locking, Holding, Doing, DocOps
<1>6. (Shown(p) /\ Proposal(p) /\ Using(p) /\ Counting(p))'
  BY <1>2, <1>3 DEF Local, Shown, Proposal, Using, Counting, Doing, frame, docVars
<1>7. Registering(p)'
  BY <1>1, <1>2, <1>3 DEF Local, Walks, Given, Registering, Agree, frame, docVars
<1> QED BY <1>1, <1>3, <1>4, <1>5, <1>6, <1>7, MoveKeeps DEF Local

\* The versions an interface shows are read when nobody is about to replace them.
LEMMA LoadKeeps == ASSUME StoreInv, NEW p \in Procs, Load(p) PROVE StoreInv'
<1>1. /\ Local(p) /\ at[p].step = "load" /\ lock["metadata"] = None /\ Catalog(profiles) /\ births \in Nat
      /\ lock \in [Locks -> Procs \cup {None}] /\ DOMAIN at = Procs /\ doubt \in BOOLEAN
      /\ UNCHANGED <<frame, lock, births, doubt>>
  BY DEF StoreInv, StoreTypes, Load, Readable, history, frame
<1>2. PICK b, s :
        /\ Loaded(p, b, s)
        /\ \/ at[p].op = "pin" /\ s = "lock"
           \/ at[p].op = "settings" /\ s = "login"
           \/ /\ at[p].id \in DOMAIN profiles.list /\ b = profiles.list[at[p].id]
              /\ s = IF at[p].op = "update" THEN "lock" ELSE "use"
  BY DEF Load
<1>3. /\ DOMAIN at' = Procs /\ at'[p].step = s /\ DOMAIN at'[p] = DOMAIN at[p]
      /\ at'[p].op = at[p].op /\ at'[p].id = at[p].id /\ at'[p].arg = at[p].arg /\ at'[p].base = b
      /\ \A q \in Procs \ {p} : at'[q] = at[q]
  BY <1>1, <1>2 DEF Local, Walks, Loaded, Idle
<1>4. \/ at[p].op = "pin" /\ s = "lock"
      \/ at[p].op = "settings" /\ s = "login"
      \/ /\ at[p].op \in {"update", "remove", "reserve"} /\ at[p].id \in DOMAIN profiles.list
         /\ b = profiles.list[at[p].id] /\ b \in Versions /\ b.born <= births
         /\ s = IF at[p].op = "update" THEN "lock" ELSE "use"
  BY <1>1, <1>2, NameAssumption DEF StoreInv, Common, Local, Walks, Given, Idle, Catalog
<1>5. (Walks(p) /\ Given(p))'
  BY <1>1, <1>3, <1>4 DEF Local, Walks, Given, Idle
<1>6. (Locking(p) /\ Holding(p))'
  BY <1>1, <1>3, <1>4 DEF Local, Locking, Holding, Doing, DocOps
<1>7. (Shown(p) /\ Proposal(p) /\ Using(p) /\ Counting(p) /\ Registering(p))'
  BY <1>1, <1>3, <1>4 DEF Shown, Proposal, Using, Counting, Registering, Doing, frame, docVars
<1>8. LoginAgrees'
  BY <1>1 DEF StoreInv, Common, LoginAgrees, frame, docVars
<1>9. at'[p].step # "using" /\ ~Doing(p, "hotp", "answer")'
  BY <1>3, <1>4 DEF Doing
<1> QED BY <1>1, <1>3, <1>5, <1>6, <1>7, <1>8, <1>9, StepKeeps DEF Local

\* The metadata lock is taken.
LEMMA LockMetadataKeeps == ASSUME StoreInv, NEW p \in Procs, LockMetadata(p) PROVE StoreInv'
<1>1. /\ Local(p) /\ at[p].step = "lock" /\ at[p] # Idle /\ Goes(p, "read") /\ Take(p, "metadata") /\ "metadata" \in Locks
      /\ UNCHANGED <<frame, births, doubt>> /\ "login" \in Locks /\ "login" # "metadata"
  BY DEF StoreInv, LockMetadata, history, frame, Idle, Locks
<1>2. /\ at'[p].step = "read" /\ DOMAIN at'[p] = DOMAIN at[p]
      /\ at'[p].op = at[p].op /\ at'[p].id = at[p].id /\ at'[p].arg = at[p].arg /\ at'[p].base = at[p].base
  BY <1>1, Moved
<1>3. /\ lock' \in [Locks -> Procs \cup {None}] /\ lock'["metadata"] = p
      /\ \A m \in Locks : m # "metadata" => lock'[m] = lock[m]
      /\ \A m \in Locks, q \in Procs \ {p} : lock'[m] = q <=> lock[m] = q
  BY <1>1, Taken
<1>4. (Walks(p) /\ Given(p))'
  BY <1>1, <1>2 DEF Local, Walks, Given
<1>5. (Locking(p) /\ Holding(p))'
  <2>1. lock'["use"] = lock["use"] /\ lock'["login"] = lock["login"] /\ \A i \in Ids : lock'[i] = lock[i] /\ i # "metadata"
    BY <1>3, NameAssumption DEF Locks
  <2>2. Locking(p)'
    BY <1>1, <1>2, <1>3, <2>1 DEF Local, Walks, Given, Locking, Doing, DocOps
  <2>3. Holding(p)'
    BY <1>1, <1>2, <1>3, <2>1 DEF Local, Holding, Doing
  <2> QED BY <2>2, <2>3
<1>6. (Shown(p) /\ Proposal(p) /\ Using(p) /\ Counting(p))'
  BY <1>1, <1>2 DEF Local, Shown, Proposal, Using, Counting, Doing, frame, docVars
<1>7. Registering(p)'
  BY <1>1, <1>2 DEF Local, Registering, Agree, frame, docVars
<1> QED BY <1>1, <1>3, <1>4, <1>5, <1>6, <1>7, MoveKeeps DEF Local

\* The profile is in no session: the removal goes on.
LEMMA AskedKeeps ==
  ASSUME StoreInv, NEW p \in Procs, Doing(p, "remove", "ask"), Goes(p, "lock"), UNCHANGED <<frame, births, doubt, lock>>,
         session # at[p].id
  PROVE  StoreInv'
<1>1. /\ at[p] # Idle /\ at'[p].step = "lock" /\ at'[p].op = "remove" /\ at'[p].base = at[p].base
      /\ DOMAIN at'[p] = DOMAIN at[p] /\ at'[p].id = at[p].id /\ at'[p].arg = at[p].arg
  BY Moved DEF Doing, Idle
<1>2. Local(p) /\ lock \in [Locks -> Procs \cup {None}] /\ at[p].op = "remove" /\ at[p].step = "ask"
  BY DEF StoreInv, StoreTypes, Doing
<1>3. (Walks(p) /\ Given(p))'
  BY <1>1, <1>2 DEF Local, Walks, Given
<1>4. (Locking(p) /\ Holding(p))'
  BY <1>1, <1>2 DEF Local, Locking, Holding, Doing, DocOps
<1>5. (Shown(p) /\ Proposal(p) /\ Using(p) /\ Counting(p))'
  BY <1>1, <1>2 DEF Local, Shown, Proposal, Using, Counting, Doing, frame, docVars
<1>6. Registering(p)'
  BY <1>1, <1>2 DEF Local, Registering, Given, Agree, frame, docVars
<1> QED BY <1>1, <1>2, <1>3, <1>4, <1>5, <1>6, MoveKeeps DEF Local

\* The stored profile is the one to connect with: Reserve is sent.
LEMMA CheckedKeeps ==
  ASSUME StoreInv, NEW p \in Procs, Doing(p, "reserve", "check"), Goes(p, "send"), UNCHANGED <<frame, births, doubt, lock>>,
         at[p].id \in DOMAIN profiles.list
  PROVE  StoreInv'
<1>1. /\ at[p] # Idle /\ at'[p].step = "send" /\ at'[p].op = "reserve" /\ at'[p].base = at[p].base
      /\ DOMAIN at'[p] = DOMAIN at[p] /\ at'[p].id = at[p].id /\ at'[p].arg = at[p].arg
  BY Moved DEF Doing, Idle
<1>2. Local(p) /\ lock \in [Locks -> Procs \cup {None}] /\ at[p].op = "reserve" /\ at[p].step = "check"
  BY DEF StoreInv, StoreTypes, Doing
<1>3. (Walks(p) /\ Given(p))'
  BY <1>1, <1>2 DEF Local, Walks, Given
<1>4. (Locking(p) /\ Holding(p))'
  BY <1>1, <1>2 DEF Local, Locking, Holding, Doing, DocOps
<1>5. (Shown(p) /\ Proposal(p) /\ Using(p) /\ Counting(p))'
  BY <1>1, <1>2 DEF Local, Shown, Proposal, Using, Counting, Doing, frame, docVars
<1>6. Registering(p)'
  BY <1>1, <1>2 DEF Local, Registering, Given, Agree, frame, docVars
<1> QED BY <1>1, <1>2, <1>3, <1>4, <1>5, <1>6, MoveKeeps DEF Local

\* The setting stays as it is: nothing is registered.
LEMMA UnregisteredKeeps ==
  ASSUME StoreInv, NEW p \in Procs, Doing(p, "settings", "before"), Goes(p, "lock"), UNCHANGED <<frame, births, doubt, lock>>,
         at[p].arg = settings.login
  PROVE  StoreInv'
<1>1. /\ at[p] # Idle /\ at'[p].step = "lock" /\ at'[p].op = "settings" /\ at'[p].base = at[p].base
      /\ DOMAIN at'[p] = DOMAIN at[p] /\ at'[p].id = at[p].id /\ at'[p].arg = at[p].arg
  BY Moved DEF Doing, Idle
<1>2. Local(p) /\ lock \in [Locks -> Procs \cup {None}] /\ at[p].op = "settings" /\ at[p].step = "before"
  BY DEF StoreInv, StoreTypes, Doing
<1>3. (Walks(p) /\ Given(p))'
  BY <1>1, <1>2 DEF Local, Walks, Given
<1>4. (Locking(p) /\ Holding(p))'
  BY <1>1, <1>2 DEF Local, Locking, Holding, Doing, DocOps
<1>5. (Shown(p) /\ Proposal(p) /\ Using(p) /\ Counting(p))'
  BY <1>1, <1>2 DEF Local, Shown, Proposal, Using, Counting, Doing, frame, docVars
<1>6. Registering(p)'
  BY <1>1, <1>2 DEF Local, Registering, Given, Agree, frame, docVars
<1> QED BY <1>1, <1>2, <1>3, <1>4, <1>5, <1>6, MoveKeeps DEF Local

\* An export whose destination is private.
LEMMA OpenedKeeps ==
  ASSUME StoreInv, NEW p \in Procs, Doing(p, "export", "open"), Goes(p, "publish"), UNCHANGED <<frame, births, doubt, lock>>
  PROVE  StoreInv'
<1>1. /\ at[p] # Idle /\ at'[p].step = "publish" /\ at'[p].op = "export" /\ at'[p].base = at[p].base
      /\ DOMAIN at'[p] = DOMAIN at[p] /\ at'[p].id = at[p].id /\ at'[p].arg = at[p].arg
  BY Moved DEF Doing, Idle
<1>2. Local(p) /\ lock \in [Locks -> Procs \cup {None}] /\ at[p].op = "export" /\ at[p].step = "open"
  BY DEF StoreInv, StoreTypes, Doing
<1>3. (Walks(p) /\ Given(p))'
  BY <1>1, <1>2 DEF Local, Walks, Given
<1>4. (Locking(p) /\ Holding(p))'
  BY <1>1, <1>2 DEF Local, Locking, Holding, Doing, DocOps
<1>5. (Shown(p) /\ Proposal(p) /\ Using(p) /\ Counting(p))'
  BY <1>1, <1>2 DEF Local, Shown, Proposal, Using, Counting, Doing, frame, docVars
<1>6. Registering(p)'
  BY <1>1, <1>2 DEF Local, Registering, Given, Agree, frame, docVars
<1> QED BY <1>1, <1>2, <1>3, <1>4, <1>5, <1>6, MoveKeeps DEF Local

\* An export whose file is in place.
LEMMA MovedKeeps ==
  ASSUME StoreInv, NEW p \in Procs, Doing(p, "export", "publish"), Goes(p, "sync"), UNCHANGED <<frame, births, doubt, lock>>
  PROVE  StoreInv'
<1>1. /\ at[p] # Idle /\ at'[p].step = "sync" /\ at'[p].op = "export" /\ at'[p].base = at[p].base
      /\ DOMAIN at'[p] = DOMAIN at[p] /\ at'[p].id = at[p].id /\ at'[p].arg = at[p].arg
  BY Moved DEF Doing, Idle
<1>2. Local(p) /\ lock \in [Locks -> Procs \cup {None}] /\ at[p].op = "export" /\ at[p].step = "publish"
  BY DEF StoreInv, StoreTypes, Doing
<1>3. (Walks(p) /\ Given(p))'
  BY <1>1, <1>2 DEF Local, Walks, Given
<1>4. (Locking(p) /\ Holding(p))'
  BY <1>1, <1>2 DEF Local, Locking, Holding, Doing, DocOps
<1>5. (Shown(p) /\ Proposal(p) /\ Using(p) /\ Counting(p))'
  BY <1>1, <1>2 DEF Local, Shown, Proposal, Using, Counting, Doing, frame, docVars
<1>6. Registering(p)'
  BY <1>1, <1>2 DEF Local, Registering, Given, Agree, frame, docVars
<1> QED BY <1>1, <1>2, <1>3, <1>4, <1>5, <1>6, MoveKeeps DEF Local

\* An export whose file has a second link.
LEMMA LinkedKeeps ==
  ASSUME StoreInv, NEW p \in Procs, Doing(p, "export", "publish"), Goes(p, "unlink"), UNCHANGED <<frame, births, doubt, lock>>
  PROVE  StoreInv'
<1>1. /\ at[p] # Idle /\ at'[p].step = "unlink" /\ at'[p].op = "export" /\ at'[p].base = at[p].base
      /\ DOMAIN at'[p] = DOMAIN at[p] /\ at'[p].id = at[p].id /\ at'[p].arg = at[p].arg
  BY Moved DEF Doing, Idle
<1>2. Local(p) /\ lock \in [Locks -> Procs \cup {None}] /\ at[p].op = "export" /\ at[p].step = "publish"
  BY DEF StoreInv, StoreTypes, Doing
<1>3. (Walks(p) /\ Given(p))'
  BY <1>1, <1>2 DEF Local, Walks, Given
<1>4. (Locking(p) /\ Holding(p))'
  BY <1>1, <1>2 DEF Local, Locking, Holding, Doing, DocOps
<1>5. (Shown(p) /\ Proposal(p) /\ Using(p) /\ Counting(p))'
  BY <1>1, <1>2 DEF Local, Shown, Proposal, Using, Counting, Doing, frame, docVars
<1>6. Registering(p)'
  BY <1>1, <1>2 DEF Local, Registering, Given, Agree, frame, docVars
<1> QED BY <1>1, <1>2, <1>3, <1>4, <1>5, <1>6, MoveKeeps DEF Local

\* An export whose temporary name is gone.
LEMMA UnlinkedKeeps ==
  ASSUME StoreInv, NEW p \in Procs, Doing(p, "export", "unlink"), Goes(p, "sync"), UNCHANGED <<frame, births, doubt, lock>>
  PROVE  StoreInv'
<1>1. /\ at[p] # Idle /\ at'[p].step = "sync" /\ at'[p].op = "export" /\ at'[p].base = at[p].base
      /\ DOMAIN at'[p] = DOMAIN at[p] /\ at'[p].id = at[p].id /\ at'[p].arg = at[p].arg
  BY Moved DEF Doing, Idle
<1>2. Local(p) /\ lock \in [Locks -> Procs \cup {None}] /\ at[p].op = "export" /\ at[p].step = "unlink"
  BY DEF StoreInv, StoreTypes, Doing
<1>3. (Walks(p) /\ Given(p))'
  BY <1>1, <1>2 DEF Local, Walks, Given
<1>4. (Locking(p) /\ Holding(p))'
  BY <1>1, <1>2 DEF Local, Locking, Holding, Doing, DocOps
<1>5. (Shown(p) /\ Proposal(p) /\ Using(p) /\ Counting(p))'
  BY <1>1, <1>2 DEF Local, Shown, Proposal, Using, Counting, Doing, frame, docVars
<1>6. Registering(p)'
  BY <1>1, <1>2 DEF Local, Registering, Given, Agree, frame, docVars
<1> QED BY <1>1, <1>2, <1>3, <1>4, <1>5, <1>6, MoveKeeps DEF Local

\* The guard of the profiles in use is taken.
LEMMA LockUseKeeps == ASSUME StoreInv, NEW p \in Procs, LockUse(p) PROVE StoreInv'
<1>1. PICK s \in {"ask", "check"} :
        /\ Local(p) /\ at[p].step = "use" /\ at[p] # Idle /\ Goes(p, s) /\ Take(p, "use")
        /\ UNCHANGED <<frame, births, doubt>> /\ {"use", "login"} \subseteq Locks
        /\ s = IF at[p].op = "remove" THEN "ask" ELSE "check"
  BY DEF StoreInv, LockUse, history, frame, Idle, Locks
<1>2. /\ at'[p].step = s /\ DOMAIN at'[p] = DOMAIN at[p]
      /\ at'[p].op = at[p].op /\ at'[p].id = at[p].id /\ at'[p].arg = at[p].arg /\ at'[p].base = at[p].base
  BY <1>1, Moved
<1>3. /\ lock' \in [Locks -> Procs \cup {None}] /\ lock'["use"] = p
      /\ \A m \in Locks : m # "use" => lock'[m] = lock[m]
      /\ \A m \in Locks, q \in Procs \ {p} : lock'[m] = q <=> lock[m] = q
  BY <1>1, Taken
<1>4. (Walks(p) /\ Given(p))'
  BY <1>1, <1>2 DEF Local, Walks, Given
<1>5. (Locking(p) /\ Holding(p))'
  <2>1. \A m \in {"metadata", "use", "login"} : m # "use" => lock'[m] = lock[m]
    BY <1>3 DEF Locks
  <2>2. \A i \in Ids : lock'[i] = lock[i]
    BY <1>3, NameAssumption DEF Locks
  <2>3. Locking(p)'
    BY <1>1, <1>2, <1>3, <2>1, <2>2 DEF Local, Walks, Locking, Doing, DocOps
  <2>4. Holding(p)'
    BY <1>1, <1>2, <1>3, <2>1, <2>2 DEF Local, Walks, Holding, Doing
  <2> QED BY <2>3, <2>4
<1>6. (Shown(p) /\ Proposal(p) /\ Using(p) /\ Counting(p))'
  BY <1>1, <1>2 DEF Local, Walks, Shown, Proposal, Using, Counting, Doing, frame, docVars
<1>7. lock'["login"] = None => lock["login"] = None
  BY <1>3, <1>1, NameAssumption
<1>8. Registering(p)'
  BY <1>1, <1>2 DEF Local, Walks, Given, Registering, Agree, frame, docVars, Take, StoreInv, Common, LoginAgrees
<1> QED BY <1>1, <1>3, <1>4, <1>5, <1>6, <1>7, <1>8, MoveKeeps DEF Local

\* The lock of the login registration is taken: it agrees with the settings.
LEMMA LockLoginKeeps == ASSUME StoreInv, NEW p \in Procs, LockLogin(p) PROVE StoreInv'
<1>1. PICK s \in {"before"} :
        /\ Local(p) /\ at[p].step = "login" /\ at[p] # Idle /\ Goes(p, s) /\ Take(p, "login")
        /\ UNCHANGED <<frame, births, doubt>> /\ {"login", "login"} \subseteq Locks
        /\ s = "before"
  BY DEF StoreInv, LockLogin, history, frame, Idle, Locks
<1>2. /\ at'[p].step = s /\ DOMAIN at'[p] = DOMAIN at[p]
      /\ at'[p].op = at[p].op /\ at'[p].id = at[p].id /\ at'[p].arg = at[p].arg /\ at'[p].base = at[p].base
  BY <1>1, Moved
<1>3. /\ lock' \in [Locks -> Procs \cup {None}] /\ lock'["login"] = p
      /\ \A m \in Locks : m # "login" => lock'[m] = lock[m]
      /\ \A m \in Locks, q \in Procs \ {p} : lock'[m] = q <=> lock[m] = q
  BY <1>1, Taken
<1>4. (Walks(p) /\ Given(p))'
  BY <1>1, <1>2 DEF Local, Walks, Given
<1>5. (Locking(p) /\ Holding(p))'
  <2>1. \A m \in {"metadata", "use", "login"} : m # "login" => lock'[m] = lock[m]
    BY <1>3 DEF Locks
  <2>2. \A i \in Ids : lock'[i] = lock[i]
    BY <1>3, NameAssumption DEF Locks
  <2>3. Locking(p)'
    BY <1>1, <1>2, <1>3, <2>1, <2>2 DEF Local, Walks, Locking, Doing, DocOps
  <2>4. Holding(p)'
    BY <1>1, <1>2, <1>3, <2>1, <2>2 DEF Local, Walks, Holding, Doing
  <2> QED BY <2>3, <2>4
<1>6. (Shown(p) /\ Proposal(p) /\ Using(p) /\ Counting(p))'
  BY <1>1, <1>2 DEF Local, Walks, Shown, Proposal, Using, Counting, Doing, frame, docVars
<1>7. lock'["login"] = None => lock["login"] = None
  BY <1>3, <1>1, NameAssumption
<1>8. Registering(p)'
  BY <1>1, <1>2 DEF Local, Walks, Given, Registering, Agree, frame, docVars, Take, StoreInv, Common, LoginAgrees
<1> QED BY <1>1, <1>3, <1>4, <1>5, <1>6, <1>7, <1>8, MoveKeeps DEF Local

\* A process asks for an operation.
LEMMA AskKeeps == ASSUME StoreInv, NEW p \in Procs, Ask(p) PROVE StoreInv'
BY AskedKeeps, RefusesKeeps DEF Ask, Doing, history, frame

\* A process checks what its operation asks for.
LEMMA CheckKeeps == ASSUME StoreInv, NEW p \in Procs, Check(p) PROVE StoreInv'
BY CheckedKeeps, RefusesKeeps DEF Check, Doing, history, frame

\* The file of an export is created, never overwritten.
LEMMA OpenExportKeeps == ASSUME StoreInv, NEW p \in Procs, OpenExport(p) PROVE StoreInv'
BY OpenedKeeps, RefusesKeeps DEF OpenExport, Doing, history, frame

\* With and without overwrite, and on Windows.
LEMMA PublishKeeps == ASSUME StoreInv, NEW p \in Procs, Publish(p) \/ PublishMoves(p) PROVE StoreInv'
BY MovedKeeps, LinkedKeeps, RefusesKeeps DEF Publish, PublishMoves, Doing, history, frame

\* The temporary name of a written file is removed.
LEMMA UnlinkKeeps == ASSUME StoreInv, NEW p \in Procs, Unlink(p) PROVE StoreInv'
BY UnlinkedKeeps DEF Unlink, history, frame

\* The operation that was read under the metadata lock, and what it proposes.
LEMMA Proposed ==
  ASSUME StoreInv, NEW p \in Procs, at[p].step = "read", NEW s, NEW doc, NEW old, Proposes(p, s, doc, old)
  PROVE  /\ DOMAIN at' = Procs /\ at'[p].step = s /\ DOMAIN at'[p] = DOMAIN at[p] /\ at'[p].doc = doc /\ at'[p].old = old
         /\ at'[p].op = at[p].op /\ at'[p].id = at[p].id /\ at'[p].arg = at[p].arg /\ at'[p].base = at[p].base
         /\ \A q \in Procs \ {p} : at'[q] = at[q]
BY DEF StoreInv, StoreTypes, Local, Walks, Idle, Proposes

\* What is proposed is judged by what it was made from.
LEMMA ProposesKeeps ==
  ASSUME StoreInv, NEW p \in Procs, at[p].step = "read", at[p].op \in DocOps, NEW doc, NEW old,
         NEW s, s = IF at[p].op = "remove" THEN "erase" ELSE "write",
         Proposes(p, s, doc, old), UNCHANGED <<frame, lock, doubt>>, births' \in Nat, births <= births',
         Proposal(p)'
  PROVE  StoreInv'
<1>1. /\ DOMAIN at' = Procs /\ at'[p].step = s /\ DOMAIN at'[p] = DOMAIN at[p] /\ at'[p].doc = doc /\ at'[p].old = old
      /\ at'[p].op = at[p].op /\ at'[p].id = at[p].id /\ at'[p].arg = at[p].arg /\ at'[p].base = at[p].base
      /\ \A q \in Procs \ {p} : at'[q] = at[q]
  BY Proposed
<1>2. Local(p) /\ lock \in [Locks -> Procs \cup {None}] /\ births \in Nat /\ doubt \in BOOLEAN
  BY DEF StoreInv, StoreTypes
<1>3. (Walks(p) /\ Given(p))'
  <2>1. Walks(p)'
    <3>1. at[p] # Idle /\ s \in {"erase", "write"}
      BY DEF Idle
    <3> QED BY <1>1, <1>2, <3>1 DEF Local, Walks, DocOps
  <2>2. Given(p)'
    BY <1>1, <1>2 DEF Local, Given, DocOps
  <2> QED BY <2>1, <2>2
<1>4. (Locking(p) /\ Holding(p))'
  BY <1>1, <1>2 DEF Local, Walks, Locking, Holding, Doing, DocOps
<1>5. (Using(p) /\ Counting(p))'
  BY <1>1, <1>2 DEF Local, Using, Counting, Doing, DocOps, frame, docVars
<1>6. Shown(p)'
  BY <1>1, <1>2 DEF Local, Shown, Given, Versions, DocOps, frame, docVars
<1>7. Registering(p)'
  BY <1>1, <1>2 DEF Local, Registering, Agree, frame, docVars, DocOps
<1>8. LoginAgrees'
  BY DEF StoreInv, Common, LoginAgrees, frame, docVars
<1>9. at'[p].step # "using" /\ ~Doing(p, "hotp", "answer")'
  BY <1>1 DEF Doing
<1> QED BY <1>1, <1>2, <1>3, <1>4, <1>5, <1>6, <1>7, <1>8, <1>9, StepKeeps DEF Local

\* New profiles are numbered as no profile anybody was shown.
LEMMA AddKeeps == ASSUME StoreInv, NEW p \in Procs, Add(p) PROVE StoreInv'
<1> DEFINE new  == DOMAIN at[p].arg
           list == [i \in new \cup DOMAIN profiles.list |->
                       IF i \in new THEN Fresh(at[p].arg[i], births + 1) ELSE profiles.list[i]]
           doc  == [rev |-> profiles.rev + 1, list |-> list]
<1>1. /\ Local(p) /\ at[p].op = "add" /\ at[p].step = "read" /\ births \in Nat /\ Catalog(profiles)
      /\ UNCHANGED <<frame, lock, doubt>>
  BY DEF StoreInv, StoreTypes, Add, Doing, frame
<1>2. CASE Refuses(p) /\ UNCHANGED births
  BY <1>1, <1>2, RefusesKeeps DEF frame
<1>3. CASE births' = births + 1 /\ Proposes(p, "write", doc, profiles) /\ new \cap DOMAIN profiles.list = {}
  <2>1. /\ at'[p].step = "write" /\ at'[p].op = "add" /\ at'[p].doc = doc /\ at'[p].old = profiles
        /\ \A q \in Procs \ {p} : at'[q] = at[q]
    BY <1>1, <1>3, Proposed
  <2>2. DOMAIN at[p].arg \subseteq Ids /\ \A i \in DOMAIN at[p].arg : at[p].arg[i] \in Names
    BY <1>1 DEF Local, Given
  <2>3. /\ DOMAIN list = DOMAIN at[p].arg \cup DOMAIN profiles.list
        /\ \A i \in DOMAIN profiles.list : list[i] = profiles.list[i]
        /\ \A i \in DOMAIN at[p].arg : list[i] = Fresh(at[p].arg[i], births + 1)
    BY <1>3
  <2>4. \A i \in DOMAIN at[p].arg : Fresh(at[p].arg[i], births + 1) \in Versions
    BY <1>1, <2>2 DEF Fresh, Versions
  <2>5. Catalog(doc)
    BY <1>1, <2>2, <2>3, <2>4 DEF Catalog
  <2>6. \A q \in Procs : at[q].op \in {"update", "remove", "reserve"} /\ at[q].step # "load" => at[q].base.born # births + 1
    BY <1>1 DEF StoreInv, Local, Shown, Given, Versions
  <2>7. Proposal(p)'
    <3>1. at'[p].old = Target(p)' /\ Catalog(doc) /\ profiles' = profiles
      BY <1>1, <2>1, <2>5 DEF Target, frame, docVars
    <3>2. ASSUME NEW i \in New(p)'
          PROVE  /\ doc.list[i].born <= births'
                 /\ \A q \in Procs : at'[q].op \in {"update", "remove", "reserve"} /\ at'[q].step # "load" =>
                                        at'[q].base.born # doc.list[i].born
      <4>1. i \in DOMAIN at[p].arg
        <5>1. doc.list = list
          OBVIOUS
        <5> HIDE DEF doc, list
        <5>2. i \in DOMAIN list /\ i \notin DOMAIN profiles.list
          BY <2>1, <3>1, <5>1 DEF New
        <5> QED BY <2>3, <5>2
      <4>2. doc.list[i].born = births + 1
        BY <2>3, <4>1 DEF Fresh
      <4> QED BY <1>1, <1>3, <2>1, <2>6, <4>2
    <3>3. \A i \in DOMAIN profiles'.list : i \in DOMAIN doc.list /\ doc.list[i] = profiles'.list[i]
      BY <2>3, <3>1
    <3> HIDE DEF doc
    <3> QED BY <2>1, <3>1, <3>2, <3>3 DEF Proposal, DocOps
  <2>8. births' \in Nat /\ births <= births'
    BY <1>1, <1>3
  <2> QED BY <1>1, <1>3, <2>7, <2>8, ProposesKeeps DEF DocOps
<1> QED BY <1>2, <1>3 DEF Add

\* A profile is changed from the version its author was shown.
LEMMA UpdateKeeps == ASSUME StoreInv, NEW p \in Procs, Update(p) PROVE StoreInv'
<1> DEFINE i    == at[p].id
           list == [profiles.list EXCEPT ![i].rev = @ + 1, ![i].name = at[p].arg]
           doc  == [rev |-> profiles.rev + 1, list |-> list]
<1>1. /\ Local(p) /\ at[p].op = "update" /\ at[p].step = "read" /\ births \in Nat /\ Catalog(profiles)
      /\ UNCHANGED <<frame, lock, doubt, births>>
  BY DEF StoreInv, StoreTypes, Update, Doing, frame, history
<1>2. CASE Refuses(p)
  BY <1>1, <1>2, RefusesKeeps
<1>3. CASE Proposes(p, "write", doc, profiles) /\ i \in DOMAIN profiles.list /\ profiles.list[i].rev = at[p].base.rev
  <2>1. /\ at'[p].step = "write" /\ at'[p].op = "update" /\ at'[p].doc = doc /\ at'[p].old = profiles
        /\ at'[p].id = i /\ at'[p].base = at[p].base /\ profiles' = profiles
    BY <1>1, <1>3, Proposed DEF frame, docVars
  <2>2. at[p].arg \in Names /\ profiles.list[i] \in Versions
    BY <1>1, <1>3 DEF Local, Given, Catalog
  <2>3. DOMAIN list = DOMAIN profiles.list /\ \A j \in DOMAIN profiles.list : j # i => list[j] = profiles.list[j]
    OBVIOUS
  <2>4. list[i] \in Versions /\ list[i].born = profiles.list[i].born /\ list[i].rev = profiles.list[i].rev + 1
    BY <1>3, <2>2 DEF Versions
  <2>5. Catalog(doc)
    <3>1. doc.list = list /\ doc.rev = profiles.rev + 1
      OBVIOUS
    <3> HIDE DEF doc, list
    <3> QED BY <1>1, <2>3, <2>4, <3>1 DEF Catalog
  <2>6. doc.list = list
    OBVIOUS
  <2> HIDE DEF doc, list, i
  <2>7. Proposal(p)'
    BY <1>3, <2>1, <2>3, <2>4, <2>5, <2>6 DEF Proposal, Target, DocOps
  <2> QED BY <1>1, <1>3, <2>7, ProposesKeeps DEF DocOps
<1> QED BY <1>2, <1>3 DEF Update, Stale

\* A profile is removed from the version its author was shown.
LEMMA RemoveKeeps == ASSUME StoreInv, NEW p \in Procs, Remove(p) PROVE StoreInv'
<1> DEFINE i    == at[p].id
           list == Restrict(profiles.list, DOMAIN profiles.list \ {i})
           doc  == [rev |-> profiles.rev + 1, list |-> list]
<1>1. /\ Local(p) /\ at[p].op = "remove" /\ at[p].step = "read" /\ births \in Nat /\ Catalog(profiles)
      /\ UNCHANGED <<frame, lock, doubt, births>>
  BY DEF StoreInv, StoreTypes, Remove, Doing, frame, history
<1>2. CASE Refuses(p)
  BY <1>1, <1>2, RefusesKeeps
<1>3. CASE Proposes(p, "erase", doc, profiles) /\ i \in DOMAIN profiles.list /\ profiles.list[i].rev = at[p].base.rev
  <2>1. /\ at'[p].step = "erase" /\ at'[p].op = "remove" /\ at'[p].doc = doc /\ at'[p].old = profiles
        /\ at'[p].id = i /\ at'[p].base = at[p].base /\ profiles' = profiles
    BY <1>1, <1>3, Proposed DEF frame, docVars
  <2>2. DOMAIN list = DOMAIN profiles.list \ {i} /\ \A j \in DOMAIN profiles.list \ {i} : list[j] = profiles.list[j]
    BY DEF Restrict
  <2>3. Catalog(doc)
    <3>1. \A j \in DOMAIN list : j \in Ids /\ list[j] \in Versions
      <4> HIDE DEF list
      <4> QED BY <1>1, <2>2 DEF Catalog
    <3>2. doc.list = list /\ doc.rev = profiles.rev + 1
      OBVIOUS
    <3> HIDE DEF doc, list
    <3> QED BY <1>1, <3>1, <3>2 DEF Catalog
  <2>4. doc.list = list
    OBVIOUS
  <2> HIDE DEF doc, list, i
  <2>5. Proposal(p)'
    BY <1>3, <2>1, <2>2, <2>3, <2>4 DEF Proposal, Target, DocOps
  <2> QED BY <1>1, <1>3, <2>5, ProposesKeeps DEF DocOps
<1> QED BY <1>2, <1>3 DEF Remove, Stale

\* The settings are written.
LEMMA SaveSettingsKeeps == ASSUME StoreInv, NEW p \in Procs, SaveSettings(p) PROVE StoreInv'
<1> DEFINE doc == [rev |-> settings.rev + 1, login |-> at[p].arg]
<1>1. /\ Local(p) /\ at[p].op = "settings" /\ at[p].step = "read" /\ births \in Nat /\ settings.rev \in Nat
      /\ UNCHANGED <<frame, lock, doubt, births>>
  BY DEF StoreInv, StoreTypes, SaveSettings, Doing, frame, history
<1>2. CASE Refuses(p)
  BY <1>1, <1>2, RefusesKeeps
<1>3. CASE Proposes(p, "write", doc, settings) /\ settings.rev = at[p].base
  <2>1. /\ at'[p].step = "write" /\ at'[p].op = "settings" /\ at'[p].doc = doc /\ at'[p].old = settings
        /\ at'[p].arg = at[p].arg /\ at'[p].base = at[p].base /\ settings' = settings
    BY <1>1, <1>3, Proposed DEF frame, docVars
  <2>2. Proposal(p)'
    BY <1>1, <1>3, <2>1 DEF Proposal, Target, DocOps
  <2> QED BY <1>1, <1>3, <2>2, ProposesKeeps DEF DocOps
<1> QED BY <1>2, <1>3 DEF SaveSettings, Stale

\* A pin is written.
LEMMA SavePinKeeps == ASSUME StoreInv, NEW p \in Procs, SavePin(p) PROVE StoreInv'
<1> DEFINE doc == [rev |-> pins.rev + 1, pin |-> p]
<1>1. /\ Local(p) /\ at[p].op = "pin" /\ at[p].step = "read" /\ births \in Nat /\ pins.rev \in Nat
      /\ UNCHANGED <<frame, lock, doubt, births>>
  BY DEF StoreInv, StoreTypes, SavePin, Doing, frame, history
<1>2. CASE Refuses(p)
  BY <1>1, <1>2, RefusesKeeps
<1>3. CASE Proposes(p, "write", doc, pins) /\ pins.rev = at[p].base
  <2>1. /\ at'[p].step = "write" /\ at'[p].op = "pin" /\ at'[p].doc = doc /\ at'[p].old = pins
        /\ at'[p].base = at[p].base /\ pins' = pins
    BY <1>1, <1>3, Proposed DEF frame, docVars
  <2>2. Proposal(p)'
    BY <1>1, <1>3, <2>1 DEF Proposal, Target, DocOps
  <2> QED BY <1>1, <1>3, <2>2, ProposesKeeps DEF DocOps
<1> QED BY <1>2, <1>3 DEF SavePin, Stale

\* The directory is synced: the operation is over.
LEMMA SyncKeeps == ASSUME StoreInv, NEW p \in Procs, Sync(p) PROVE StoreInv'
<1>1. Local(p) /\ births \in Nat /\ doubt \in BOOLEAN /\ UNCHANGED <<frame, births, doubt>> /\ Ends(p) /\ at[p].step = "sync"
  BY DEF StoreInv, StoreTypes, Sync, frame, history
<1>2. doubt' \/ lock["login"] # p \/ Agree
  BY <1>1 DEF Local, Holding, Registering, Agree
<1> QED BY <1>1, <1>2, EndKeeps

\* An operation fails where it does not hold a changed registration.
LEMMA FailsKeeps == ASSUME StoreInv, NEW p \in Procs, Fails(p) PROVE StoreInv'
<1>1. /\ Local(p) /\ births \in Nat /\ births' = births /\ doubt' \in BOOLEAN /\ (doubt => doubt')
      /\ UNCHANGED frame /\ lock \in [Locks -> Procs \cup {None}] /\ at[p].step \in MayFail
      /\ (Doing(p, "settings", "sync") => doubt') /\ at[p] # Idle
  <2>1. Local(p) /\ births \in Nat /\ lock \in [Locks -> Procs \cup {None}] /\ doubt \in BOOLEAN
    BY DEF StoreInv, StoreTypes
  <2>2. doubt' = (doubt \/ Doing(p, "settings", "sync"))
    BY DEF Fails
  <2>3. births' = births /\ UNCHANGED frame
    BY DEF Fails, frame, history
  <2>4. at[p].step \in MayFail
    BY DEF Fails
  <2>5. at[p] # Idle
    BY <2>4 DEF MayFail, Idle
  <2> QED BY <2>1, <2>2, <2>3, <2>4, <2>5
<1>2. CASE ~Undoes(p) /\ Ends(p)
  <2>1. doubt' \/ lock["login"] # p \/ Agree
    BY <1>1, <1>2 DEF Local, Walks, Holding, Registering, Agree, Undoes, MayFail, Doing
  <2> QED BY <1>1, <1>2, <2>1, EndKeeps
<1>3. CASE Undoes(p) /\ Goes(p, "rollback") /\ Free(p, {"metadata"})
  <2>1. /\ at'[p].step = "rollback" /\ DOMAIN at'[p] = DOMAIN at[p] /\ DOMAIN at' = Procs
        /\ at'[p].op = at[p].op /\ at'[p].id = at[p].id /\ at'[p].arg = at[p].arg /\ at'[p].base = at[p].base
        /\ \A q \in Procs \ {p} : at'[q] = at[q]
    BY <1>1, <1>3, Moved
  <2>2. /\ at[p].op = "settings" /\ at[p].step \in {"lock", "read", "write", "sync", "refused"} /\ at[p].id # None
    BY <1>3 DEF Undoes
  <2>3. /\ lock' \in [Locks -> Procs \cup {None}]
        /\ lock'["metadata"] # p /\ lock'["use"] = lock["use"] /\ lock'["login"] = lock["login"]
        /\ \A m \in Locks : lock'[m] = p => lock[m] = p
        /\ \A m \in Locks, q \in Procs \ {p} : lock'[m] = q <=> lock[m] = q
    <3>1. {"metadata", "use", "login"} \subseteq Locks
      BY DEF Locks
    <3>2. /\ lock' \in [Locks -> Procs \cup {None}]
          /\ \A m \in Locks : IF m \in {"metadata"} /\ lock[m] = p THEN lock'[m] = None ELSE lock'[m] = lock[m]
          /\ \A m \in Locks, q \in Procs \ {p} : lock'[m] = q <=> lock[m] = q
      BY <1>3, Freed
    <3> QED BY <3>1, <3>2, NameAssumption
  <2>4. (Walks(p) /\ Given(p))'
    BY <1>1, <2>1, <2>2 DEF Local, Walks, Given
  <2>5. (Locking(p) /\ Holding(p))'
    BY <1>1, <2>1, <2>2, <2>3 DEF Local, Locking, Holding, Doing, DocOps, Locks
  <2>6. (Shown(p) /\ Proposal(p) /\ Using(p) /\ Counting(p))'
    BY <2>1, <2>2 DEF Shown, Proposal, Using, Counting, Doing
  <2>7. Registering(p)'
    BY <1>1, <2>1, <2>2 DEF Local, Registering, Agree, Doing, frame, docVars
  <2>8. LoginAgrees'
    BY <1>1, <2>3 DEF StoreInv, Common, LoginAgrees, frame, docVars
  <2> QED BY <1>1, <2>1, <2>2, <2>3, <2>4, <2>5, <2>6, <2>7, <2>8, StepKeeps DEF Local, Doing
<1> QED BY <1>2, <1>3 DEF Fails

\* The secrets of a profile that is removed are looked at under their lock.
LEMMA LockEraseKeeps == ASSUME StoreInv, NEW p \in Procs, LockErase(p) PROVE StoreInv'
<1>1. /\ Local(p) /\ at[p].op = "remove" /\ at[p].step = "erase" /\ at[p] # Idle /\ at[p].id \in Ids /\ at[p].id \in Locks
      /\ Take(p, at[p].id) /\ UNCHANGED <<frame, births, doubt>> /\ births \in Nat /\ doubt \in BOOLEAN
      /\ at' = [at EXCEPT ![p].step = "erasing", ![p].arg = keyring[at[p].id]] /\ DOMAIN at = Procs
      /\ at[p].id \notin {"metadata", "use", "login"}
  BY NameAssumption DEF StoreInv, StoreTypes, Local, Given, LockErase, Doing, frame, history, Idle, Locks
<1>2. /\ at'[p].step = "erasing" /\ DOMAIN at'[p] = DOMAIN at[p] /\ DOMAIN at' = Procs
      /\ at'[p].op = "remove" /\ at'[p].id = at[p].id /\ at'[p].base = at[p].base /\ at'[p].arg = keyring[at[p].id]
      /\ at'[p].old = at[p].old /\ at'[p].doc = at[p].doc
      /\ \A q \in Procs \ {p} : at'[q] = at[q]
  BY <1>1 DEF Local, Walks
<1>3. /\ lock' \in [Locks -> Procs \cup {None}] /\ lock'[at[p].id] = p /\ lock[at[p].id] = None
      /\ \A m \in Locks : m # at[p].id => lock'[m] = lock[m]
      /\ \A m \in Locks, q \in Procs \ {p} : lock'[m] = q <=> lock[m] = q
  <2>1. lock[at[p].id] = None
    BY <1>1 DEF Take
  <2>2. /\ lock' \in [Locks -> Procs \cup {None}] /\ lock'[at[p].id] = p
        /\ \A m \in Locks : m # at[p].id => lock'[m] = lock[m]
        /\ \A m \in Locks, q \in Procs \ {p} : lock'[m] = q <=> lock[m] = q
    BY <1>1, Taken
  <2> QED BY <2>1, <2>2
<1>4. Walks(p)' /\ Given(p)'
  BY <1>1, <1>2 DEF Local, Walks, Given, StoreInv, StoreTypes, frame
<1>5. \A m \in {"metadata", "use", "login"} : lock'[m] = lock[m] /\ m \in Locks
  BY <1>1, <1>3 DEF Locks
<1>6. Locking(p)'
  BY <1>1, <1>2, <1>3, <1>5 DEF Local, Locking, Doing, DocOps
<1>7. Holding(p)'
  BY <1>1, <1>2, <1>3, <1>5 DEF Local, Holding, Doing, Locks
<1>8. (Shown(p) /\ Using(p))'
  BY <1>1, <1>2 DEF Local, Shown, Using, Doing, frame, docVars
<1>9. Proposal(p)'
  BY <1>1, <1>2 DEF Local, Proposal, Target, DocOps, frame, docVars
<1>10. Counting(p)' /\ Registering(p)'
  BY <1>1, <1>2 DEF StoreInv, Common, Counting, Registering, Doing, frame
<1>11. LoginAgrees'
  BY <1>1, <1>5, NameAssumption DEF StoreInv, Common, LoginAgrees, frame, docVars
<1>12. ~Doing(p, "hotp", "answer")'
  BY <1>2 DEF Doing
<1> QED BY <1>1, <1>2, <1>3, <1>4, <1>6, <1>7, <1>8, <1>9, <1>10, <1>11, <1>12, StepKeeps DEF Local

\* The seed is read under its lock; without one the operation is over.
LEMMA HotpBeginKeeps == ASSUME StoreInv, NEW p \in Procs, HotpBegin(p) PROVE StoreInv'
<1>1. /\ Local(p) /\ at[p].op = "hotp" /\ at[p].step = "credentials" /\ at[p] # Idle /\ DOMAIN at = Procs
      /\ at[p].id \in Ids /\ at[p].id \in Locks /\ at[p].id \notin {"metadata", "use", "login"}
      /\ UNCHANGED <<frame, births, doubt>> /\ births \in Nat /\ doubt \in BOOLEAN
      /\ keyring \in [Ids -> [Purposes -> Secrets \cup {None}]]
  BY NameAssumption DEF StoreInv, StoreTypes, Local, Given, HotpBegin, Doing, frame, history, Idle, Locks
<1>2. CASE Ends(p)
  <2>1. lock["login"] # p
    BY <1>1 DEF Local, Holding
  <2> QED BY <1>1, <1>2, <2>1, EndKeeps
<1>3. CASE /\ keyring[at[p].id]["TokenSeed"] # None /\ Take(p, at[p].id)
           /\ at' = [at EXCEPT ![p].step = "commit", ![p].base = keyring[at[p].id]["TokenSeed"]]
  <2>1. /\ at'[p].step = "commit" /\ DOMAIN at'[p] = DOMAIN at[p] /\ DOMAIN at' = Procs
        /\ at'[p].op = "hotp" /\ at'[p].id = at[p].id /\ at'[p].base = keyring[at[p].id]["TokenSeed"]
        /\ \A q \in Procs \ {p} : at'[q] = at[q]
    BY <1>1, <1>3 DEF Local, Walks
  <2>2. /\ lock' \in [Locks -> Procs \cup {None}] /\ lock'[at[p].id] = p
        /\ \A m \in Locks : m # at[p].id => lock'[m] = lock[m]
        /\ \A m \in Locks, q \in Procs \ {p} : lock'[m] = q <=> lock[m] = q
    BY <1>1, <1>3, Taken
  <2>3. \A m \in {"metadata", "use", "login"} : lock'[m] = lock[m] /\ m \in Locks
    BY <1>1, <2>2 DEF Locks
  <2>4. (Walks(p) /\ Given(p))'
    BY <1>1, <1>3, <2>1 DEF Local, Walks, Given, Purposes, frame
  <2>5. Locking(p)' /\ Holding(p)'
    BY <1>1, <2>1, <2>2, <2>3 DEF Local, Locking, Holding, Doing, DocOps, Locks
  <2>6. (Shown(p) /\ Proposal(p) /\ Using(p) /\ Counting(p) /\ Registering(p))'
    BY <1>1, <2>1 DEF Shown, Proposal, Using, Counting, Registering, Doing, DocOps, frame
  <2>7. LoginAgrees'
    BY <1>1, <2>3, NameAssumption DEF StoreInv, Common, LoginAgrees, frame, docVars
  <2>8. ~Doing(p, "hotp", "answer")'
    BY <2>1 DEF Doing
  <2> QED BY <1>1, <2>1, <2>2, <2>4, <2>5, <2>6, <2>7, <2>8, StepKeeps DEF Local
<1> QED BY <1>2, <1>3 DEF HotpBegin

\* The registration is looked up for what to go back to.
LEMMA BeforeKeeps == ASSUME StoreInv, NEW p \in Procs, Before(p) PROVE StoreInv'
<1>1. /\ Local(p) /\ at[p].op = "settings" /\ at[p].step = "before" /\ at[p] # Idle /\ DOMAIN at = Procs
      /\ UNCHANGED <<frame, births, doubt>> /\ births \in Nat /\ doubt \in BOOLEAN
      /\ lock \in [Locks -> Procs \cup {None}]
  BY DEF StoreInv, StoreTypes, Before, Doing, frame, history, Idle
<1>2. CASE Refuses(p) /\ UNCHANGED lock
  BY <1>1, <1>2, RefusesKeeps
<1>3. CASE at[p].arg = settings.login /\ Goes(p, "lock") /\ UNCHANGED lock
  BY <1>1, <1>3, UnregisteredKeeps DEF Doing
<1>4. CASE Ends(p)
  <2>1. doubt' \/ lock["login"] # p \/ Agree
    BY <1>1 DEF Local, Registering
  <2> QED BY <1>1, <1>4, <2>1, EndKeeps
<1>5. CASE at' = [at EXCEPT ![p].step = "register", ![p].old = [previous |-> registered]] /\ UNCHANGED lock
  <2>1. /\ at'[p].step = "register" /\ DOMAIN at'[p] = DOMAIN at[p] /\ DOMAIN at' = Procs
        /\ at'[p].op = "settings" /\ at'[p].id = at[p].id /\ at'[p].arg = at[p].arg /\ at'[p].old = [previous |-> registered]
        /\ \A q \in Procs \ {p} : at'[q] = at[q]
    BY <1>1, <1>5 DEF Local, Walks
  <2>2. (Walks(p) /\ Given(p))'
    BY <1>1, <2>1 DEF StoreInv, StoreTypes, Local, Walks, Given
  <2>3. Locking(p)' /\ Holding(p)'
    BY <1>1, <1>5, <2>1 DEF Local, Locking, Holding, Doing, DocOps
  <2>4. (Shown(p) /\ Proposal(p) /\ Using(p) /\ Counting(p))'
    BY <1>1, <2>1 DEF Shown, Proposal, Using, Counting, Doing
  <2>5. Registering(p)'
    BY <1>1, <2>1 DEF Local, Registering, Agree, frame, docVars
  <2>6. LoginAgrees'
    BY <1>1, <1>5 DEF StoreInv, Common, LoginAgrees, frame, docVars
  <2> QED BY <1>1, <1>5, <2>1, <2>2, <2>3, <2>4, <2>5, <2>6, StepKeeps DEF Local, Doing
<1> QED BY <1>2, <1>3, <1>4, <1>5 DEF Before

----------------------------------------------------------------------------
(* Steps that change the registration or the session                       *)

\* A step that touches no document and no secret keeps the invariant.
LEMMA TouchKeeps ==
  ASSUME StoreInv, NEW p \in Procs, UNCHANGED <<docVars, keyring, responses, births>>,
         registered' \in BOOLEAN, session' \in Ids \cup {None}, doubt' \in BOOLEAN,
         DOMAIN at' = Procs, \A q \in Procs \ {p} : at'[q] = at[q],
         lock' \in [Locks -> Procs \cup {None}], \A m \in Locks, q \in Procs \ {p} : lock'[m] = q <=> lock[m] = q,
         at'[p] = Idle \/ (at'[p].op = at[p].op /\ at'[p].base = at[p].base /\ at[p].step # "load"),
         at'[p].step # "answer",
         \A q \in Procs \ {p} : (Using(q) /\ Registering(q))',
         Local(p)', LoginAgrees'
  PROVE  StoreInv'
<1> USE DEF docVars
<1>1. StoreTypes'
  BY DEF StoreInv, StoreTypes, Catalog
<1>2. Common'
  BY DEF StoreInv, Common, Spent, Behind, HotpOnce
<1>3. births \in Nat /\ births' \in Nat /\ births <= births'
  BY DEF StoreInv, StoreTypes
<1>4. \/ lock["metadata"] = None
      \/ at'[p].op \in {"update", "remove", "reserve"} /\ at'[p].step # "load" =>
            at[p].op \in {"update", "remove", "reserve"} /\ at[p].step # "load" /\ at'[p].base = at[p].base
  BY DEF Idle
<1>5. ~Doing(p, "hotp", "answer")'
  BY DEF Doing
<1>6. ASSUME NEW q \in Procs, q # p PROVE Local(q)'
  <2>1. Local(q) /\ at'[q] = at[q]
    BY <1>6 DEF StoreInv
  <2>2. (Walks(q) /\ Given(q) /\ Locking(q) /\ Holding(q))'
    BY <1>6, <2>1, OtherStands
  <2>3. (Shown(q) /\ Proposal(q))'
    BY <1>3, <1>4, <1>6, <2>1, OtherProposes DEF StoreInv, StoreTypes, Common
  <2>4. Counting(q)'
    BY <1>3, <1>5, <1>6, <2>1, OtherCounts DEF StoreInv, StoreTypes
  <2> QED BY <1>6, <2>2, <2>3, <2>4 DEF Local
<1> QED BY <1>1, <1>2, <1>6 DEF StoreInv

\* Only one process is past taking the lock of the registration.
LEMMA OneRegisters ==
  ASSUME StoreInv, NEW p \in Procs, NEW q \in Procs, q # p, at[p].op = "settings", at[p].step \notin {"load", "login"},
         at'[q] = at[q]
  PROVE  Registering(q)'
<1>1. lock["login"] = p
  BY DEF StoreInv, Local, Locking
<1>2. at[q].op = "settings" => at[q].step \in {"load", "login"}
  BY <1>1 DEF StoreInv, Local, Locking
<1> QED BY <1>2 DEF Registering

\* A change of the registration.
LEMMA RegisterKeeps == ASSUME StoreInv, NEW p \in Procs, Register(p) PROVE StoreInv'
<1>1. /\ Local(p) /\ at[p].op = "settings" /\ at[p].step = "register" /\ at[p] # Idle /\ DOMAIN at = Procs
      /\ UNCHANGED <<docVars, keyring, responses, births, session>> /\ doubt \in BOOLEAN /\ registered \in BOOLEAN
      /\ lock \in [Locks -> Procs \cup {None}] /\ session \in Ids \cup {None}
      /\ at[p].arg \in BOOLEAN /\ at[p].old \in [previous : BOOLEAN] /\ lock["login"] = p
  BY DEF StoreInv, StoreTypes, Local, Locking, Given, Register, Doing, history, Idle
<1>2. \A q \in Procs \ {p} : Using(q)
  BY DEF StoreInv, Local
<1>3. CASE Ends(p) /\ doubt' = TRUE /\ registered' \in {registered, at[p].arg}
  <2>1. /\ DOMAIN at' = Procs /\ at'[p] = Idle /\ \A q \in Procs \ {p} : at'[q] = at[q]
        /\ lock' \in [Locks -> Procs \cup {None}] /\ \A m \in Locks : lock'[m] # p
        /\ \A m \in Locks, q \in Procs \ {p} : lock'[m] = q <=> lock[m] = q
    BY <1>3, Ended
  <2>2. Local(p)'
    BY <2>1, IdleLocal
  <2>3. \A q \in Procs \ {p} : Using(q)'
    <3>1. UNCHANGED <<profiles, session>> /\ at'[p].step # "using"
      BY <1>1, <2>1 DEF docVars, Idle
    <3> QED BY <2>1, <3>1, OtherUses DEF StoreInv
  <2>4. \A q \in Procs : Registering(q)'
    BY <1>3 DEF Registering
  <2>5. LoginAgrees' /\ registered' \in BOOLEAN /\ session' \in Ids \cup {None} /\ doubt' \in BOOLEAN
    BY <1>1, <1>3 DEF LoginAgrees
  <2>6. at'[p].step # "answer"
    BY <2>1 DEF Idle
  <2>7. \A q \in Procs \ {p} : (Using(q) /\ Registering(q))'
    BY <2>3, <2>4
  <2>8. UNCHANGED <<docVars, keyring, responses, births>>
    BY <1>1
  <2> QED BY <2>1, <2>2, <2>5, <2>6, <2>7, <2>8, TouchKeeps
<1>4. CASE registered' = at[p].arg /\ at' = [at EXCEPT ![p].step = "lock", ![p].id = at[p].old] /\ UNCHANGED <<lock, doubt>>
  <2>1. /\ at'[p].step = "lock" /\ DOMAIN at'[p] = DOMAIN at[p] /\ DOMAIN at' = Procs
        /\ at'[p].op = "settings" /\ at'[p].id = at[p].old /\ at'[p].arg = at[p].arg /\ at'[p].base = at[p].base
        /\ \A q \in Procs \ {p} : at'[q] = at[q]
    BY <1>1, <1>4 DEF Local, Walks
  <2>2. (Walks(p) /\ Given(p))'
    BY <1>1, <2>1 DEF Local, Walks, Given
  <2>3. Locking(p)' /\ Holding(p)'
    BY <1>1, <1>4, <2>1 DEF Local, Locking, Holding, Doing, DocOps
  <2>4. (Shown(p) /\ Proposal(p) /\ Using(p) /\ Counting(p))'
    BY <1>1, <2>1 DEF Shown, Proposal, Using, Counting, Doing
  <2>5. Registering(p)'
    BY <1>1, <1>4, <2>1, NameAssumption DEF Local, Registering, Agree, docVars
  <2>6. \A q \in Procs \ {p} : Using(q)'
    <3>1. UNCHANGED <<profiles, session>> /\ at'[p].step # "using"
      BY <1>1, <2>1 DEF docVars
    <3> QED BY <2>1, <3>1, OtherUses DEF StoreInv
  <2>7. \A q \in Procs \ {p} : Registering(q)'
    BY <1>1, <2>1, OneRegisters
  <2>8. LoginAgrees'
    BY <1>1, <1>4, NameAssumption DEF LoginAgrees
  <2> QED BY <1>1, <1>4, <2>1, <2>2, <2>3, <2>4, <2>5, <2>6, <2>7, <2>8, TouchKeeps DEF Local
<1> QED BY <1>3, <1>4 DEF Register

\* The registration goes back, or it is said that it did not.
LEMMA RollbackKeeps == ASSUME StoreInv, NEW p \in Procs, Rollback(p) PROVE StoreInv'
<1>1. /\ Local(p) /\ at[p].op = "settings" /\ at[p].step = "rollback" /\ DOMAIN at = Procs
      /\ UNCHANGED <<docVars, keyring, responses, births, session>> /\ doubt \in BOOLEAN /\ registered \in BOOLEAN
      /\ session \in Ids \cup {None} /\ at[p].id \in [previous : BOOLEAN] /\ Ends(p)
  BY DEF StoreInv, StoreTypes, Local, Given, Rollback, Doing, history
<1>2. doubt' \in BOOLEAN /\ registered' \in BOOLEAN /\ (~doubt' => ~doubt /\ registered' = settings.login)
  <2>1. CASE registered = at[p].arg /\ registered' = at[p].id.previous /\ UNCHANGED doubt
    BY <1>1, <2>1, NameAssumption DEF Local, Registering
  <2>2. CASE UNCHANGED registered /\ doubt' = TRUE
    BY <1>1, <2>2
  <2> QED BY <2>1, <2>2 DEF Rollback
<1>3. /\ DOMAIN at' = Procs /\ at'[p] = Idle /\ \A q \in Procs \ {p} : at'[q] = at[q]
      /\ lock' \in [Locks -> Procs \cup {None}] /\ \A m \in Locks : lock'[m] # p
      /\ \A m \in Locks, q \in Procs \ {p} : lock'[m] = q <=> lock[m] = q
  BY <1>1, Ended
<1>4. Local(p)'
  BY <1>3, IdleLocal
<1>5. \A q \in Procs \ {p} : Using(q)'
  <2>1. UNCHANGED <<profiles, session>> /\ at'[p].step # "using"
    BY <1>1, <1>3 DEF docVars, Idle
  <2> QED BY <1>3, <2>1, OtherUses DEF StoreInv
<1>6. \A q \in Procs \ {p} : Registering(q)'
  BY <1>1, <1>3, OneRegisters
<1>7. LoginAgrees'
  BY <1>1, <1>2 DEF LoginAgrees, docVars
<1>8. at'[p].step # "answer"
  BY <1>3 DEF Idle
<1>9. \A q \in Procs \ {p} : (Using(q) /\ Registering(q))'
  BY <1>5, <1>6
<1>10. UNCHANGED <<docVars, keyring, responses, births>> /\ session' \in Ids \cup {None}
  BY <1>1
<1>11. registered' \in BOOLEAN /\ doubt' \in BOOLEAN
  BY <1>2
<1> QED BY <1>3, <1>4, <1>7, <1>8, <1>9, <1>10, <1>11, TouchKeeps

\* The user changes the login items: nothing is claimed of them any more.
LEMMA UserRegistersKeeps == ASSUME StoreInv, UserRegisters PROVE StoreInv'
<1>1. UNCHANGED <<docVars, keyring, session, lock, at, births, responses>> /\ doubt' = TRUE /\ registered' \in BOOLEAN
  BY DEF UserRegisters, StoreInv, StoreTypes, history
<1> USE DEF docVars
<1>2. StoreTypes'
  BY <1>1 DEF StoreInv, StoreTypes, Catalog
<1>3. Common'
  BY <1>1 DEF StoreInv, Common, Spent, Behind, HotpOnce, LoginAgrees
<1>4. ASSUME NEW q \in Procs PROVE Local(q)'
  <2>1. Local(q)
    BY DEF StoreInv
  <2>2. (Walks(q) /\ Given(q) /\ Locking(q) /\ Holding(q) /\ Shown(q))'
    BY <1>1, <2>1 DEF Local, Walks, Given, Locking, Holding, Doing, Shown
  <2>3. (Proposal(q) /\ Using(q))'
    BY <1>1, <2>1 DEF Local, Proposal, Using, New, Target, Catalog, Doing
  <2>4. Counting(q)'
    BY <1>1, <2>1 DEF Local, Counting, Behind, Doing
  <2>5. Registering(q)'
    BY <1>1 DEF Registering
  <2> QED BY <2>2, <2>3, <2>4, <2>5 DEF Local
<1> QED BY <1>2, <1>3, <1>4 DEF StoreInv

\* What a session that begins leaves to the others: none has one, and none removes.
LEMMA SessionBegins ==
  ASSUME StoreInv, NEW p \in Procs, at[p].op = "reserve", at[p].step = "send", UNCHANGED <<docVars, registered, doubt>>,
         NEW q \in Procs, q # p, session' # session => session = None,
         \A r \in Procs \ {p} : at'[r] = at[r], at'[p].step = "using" => session = None
  PROVE  (Using(q) /\ Registering(q))'
<1>1. at[q].step = "using" => session # None /\ at[q].op = "reserve"
  BY NameAssumption DEF StoreInv, Local, Walks, Given, Using, Idle
<1>2. ~(at[q].op = "remove" /\ at[q].step \in {"lock", "read", "erase", "erasing", "write"})
  BY DEF StoreInv, Local, Locking
<1>3. Using(q)'
  BY <1>1, <1>2 DEF StoreInv, Local, Using, Doing, docVars
<1>4. Registering(q)'
  BY DEF StoreInv, Local, Registering, Agree, docVars
<1> QED BY <1>3, <1>4

\* A Reserve that was sent is handled, or is not, and nobody waits for the answer.
LEMMA HandledKeeps ==
  ASSUME StoreInv, NEW p \in Procs, Doing(p, "reserve", "send"), Handled(p), Ends(p),
         UNCHANGED <<docVars, keyring, registered, responses, births, doubt>>
  PROVE  StoreInv'
<1>1. /\ Local(p) /\ at[p].op = "reserve" /\ at[p].step = "send" /\ doubt \in BOOLEAN /\ registered \in BOOLEAN
      /\ session \in Ids \cup {None} /\ at[p].id \in Ids
  BY DEF StoreInv, StoreTypes, Local, Given, Doing
<1>2. /\ DOMAIN at' = Procs /\ at'[p] = Idle /\ \A q \in Procs \ {p} : at'[q] = at[q]
      /\ lock' \in [Locks -> Procs \cup {None}]
      /\ \A m \in Locks : lock'[m] # p /\ (lock[m] # p => lock'[m] = lock[m]) /\ (lock[m] = p => lock'[m] = None)
      /\ \A m \in Locks, q \in Procs \ {p} : lock'[m] = q <=> lock[m] = q
  BY Ended
<1>3. Local(p)'
  BY <1>2, IdleLocal
<1>4. session' \in Ids \cup {None} /\ (session' # session => session = None)
  BY <1>1 DEF Handled
<1>5. at'[p].step = "idle"
  BY <1>2 DEF Idle
<1>6. \A q \in Procs \ {p} : (Using(q) /\ Registering(q))'
  BY <1>1, <1>2, <1>4, <1>5, SessionBegins
<1>7. LoginAgrees'
  <2>1. lock'["login"] = None => lock["login"] = None
    BY <1>1, <1>2 DEF Locks, Local, Holding
  <2> QED BY <2>1 DEF StoreInv, Common, LoginAgrees, docVars
<1> QED BY <1>1, <1>2, <1>3, <1>4, <1>5, <1>6, <1>7, TouchKeeps

\* The service answers Reserve: no other session is there, and no removal.
LEMMA ReservedKeeps == ASSUME StoreInv, NEW p \in Procs, Reserved(p) PROVE StoreInv'
<1>1. /\ Local(p) /\ at[p].op = "reserve" /\ at[p].step = "send" /\ at[p] # Idle /\ DOMAIN at = Procs
      /\ UNCHANGED <<docVars, keyring, responses, births, registered, doubt>> /\ doubt \in BOOLEAN /\ registered \in BOOLEAN
      /\ lock \in [Locks -> Procs \cup {None}] /\ session \in Ids \cup {None}
      /\ at[p].id \in Ids /\ at[p].id \in DOMAIN profiles.list /\ lock["use"] = p
  BY DEF StoreInv, StoreTypes, Local, Locking, Given, Using, Reserved, Doing, history, Idle
<1>2. CASE session = None /\ session' = at[p].id /\ Goes(p, "using") /\ Free(p, {"use"})
  <2>1. /\ at'[p].step = "using" /\ DOMAIN at'[p] = DOMAIN at[p] /\ DOMAIN at' = Procs
        /\ at'[p].op = at[p].op /\ at'[p].id = at[p].id /\ at'[p].base = at[p].base
        /\ \A q \in Procs \ {p} : at'[q] = at[q]
    BY <1>1, <1>2, Moved
  <2>2. /\ lock' \in [Locks -> Procs \cup {None}]
        /\ \A m \in Locks : IF m \in {"use"} /\ lock[m] = p THEN lock'[m] = None ELSE lock'[m] = lock[m]
        /\ \A m \in Locks, q \in Procs \ {p} : lock'[m] = q <=> lock[m] = q
    BY <1>2, Freed
  <2>3. \A m \in Locks : lock'[m] # p
    BY <1>1, <2>2, NameAssumption DEF Local, Holding, Locks, Doing
  <2>4. (Walks(p) /\ Given(p))'
    BY <1>1, <2>1 DEF Local, Walks, Given
  <2>5. Locking(p)' /\ Holding(p)'
    BY <1>1, <2>1, <2>3 DEF Locking, Holding, Doing, DocOps, Locks
  <2>6. (Shown(p) /\ Proposal(p) /\ Counting(p) /\ Registering(p))'
    BY <1>1, <2>1 DEF Local, Shown, Proposal, Counting, Registering, Doing, docVars
  <2>7. \A q \in Procs : at[q].step # "using"
    BY <1>2, NameAssumption DEF StoreInv, Local, Walks, Given, Using, Idle
  <2>8. Using(p)'
    BY <1>1, <1>2, <2>1, <2>7 DEF Using, Doing, docVars
  <2>9. \A q \in Procs \ {p} : (Using(q) /\ Registering(q))'
    BY <1>1, <1>2, <2>1, SessionBegins
  <2>10. LoginAgrees'
    <3>1. lock'["login"] = None => lock["login"] = None
      BY <2>2 DEF Locks
    <3> QED BY <1>1, <3>1 DEF StoreInv, Common, LoginAgrees, docVars
  <2> QED BY <1>1, <1>2, <2>1, <2>2, <2>4, <2>5, <2>6, <2>8, <2>9, <2>10, TouchKeeps DEF Local
<1>3. CASE Handled(p) /\ Ends(p)
  BY <1>1, <1>3, HandledKeeps DEF Doing
<1> QED BY <1>2, <1>3 DEF Reserved

\* A process is killed: its locks are free, and a Reserve it sent may be handled.
LEMMA CrashesKeeps == ASSUME StoreInv, NEW p \in Procs, Crashes(p) PROVE StoreInv'
<1>1. /\ Local(p) /\ Ends(p) /\ UNCHANGED <<docVars, keyring, responses, births, registered>> /\ births \in Nat
      /\ doubt \in BOOLEAN
  BY DEF StoreInv, StoreTypes, Crashes
<1>2. doubt' \in BOOLEAN /\ (doubt => doubt') /\ (at[p].op = "settings" => doubt')
  <2>1. doubt' = (doubt \/ at[p].op = "settings")
    BY DEF Crashes
  <2> QED BY <1>1, <2>1
<1>3. CASE Doing(p, "reserve", "send")
  <2>1. Handled(p) /\ doubt' = doubt
    <3>1. at[p].op # "settings"
      BY <1>3 DEF Doing
    <3>2. doubt' = (doubt \/ at[p].op = "settings") /\ Handled(p)
      BY <1>3 DEF Crashes
    <3> QED BY <1>1, <3>1, <3>2
  <2>2. /\ UNCHANGED <<docVars, keyring, registered, responses, births, doubt>>
    BY <1>1, <2>1
  <2> QED BY <1>1, <1>3, <2>1, <2>2, HandledKeeps
<1>4. CASE UNCHANGED session
  <2>1. UNCHANGED frame
    BY <1>1, <1>4 DEF frame
  <2>2. doubt' \/ lock["login"] # p \/ Agree
    BY <1>1, <1>2 DEF Local, Holding
  <2>3. births' \in Nat /\ births <= births'
    BY <1>1
  <2> QED BY <1>1, <1>2, <2>1, <2>2, <2>3, EndKeeps
<1> QED BY <1>3, <1>4 DEF Crashes

\* The session ends, with the interface that holds it or without one.
LEMMA SessionEndsKeeps == ASSUME StoreInv, SessionEnds PROVE StoreInv'
<1>1. /\ UNCHANGED <<docVars, keyring, responses, births, registered, doubt>> /\ doubt \in BOOLEAN /\ registered \in BOOLEAN
      /\ lock \in [Locks -> Procs \cup {None}] /\ session' = None /\ DOMAIN at = Procs
  BY DEF StoreInv, StoreTypes, SessionEnds, history
<1>2. ASSUME NEW q \in Procs, at'[q] = at[q], at[q].step # "using" PROVE Using(q)' /\ Registering(q)'
  <2>1. at[q].op = "remove" => at[q].id # None
    BY NameAssumption DEF StoreInv, Local, Given
  <2> QED BY <1>1, <1>2, <2>1 DEF StoreInv, Local, Using, Registering, Agree, Doing, docVars
<1>3. CASE \E p \in Procs : at[p].step = "using" /\ Ends(p)
  <2>1. PICK p \in Procs : at[p].step = "using" /\ Ends(p)
    BY <1>3
  <2>2. /\ DOMAIN at' = Procs /\ at'[p] = Idle /\ \A q \in Procs \ {p} : at'[q] = at[q]
        /\ lock' \in [Locks -> Procs \cup {None}]
        /\ \A m \in Locks : lock'[m] # p /\ (lock[m] # p => lock'[m] = lock[m]) /\ (lock[m] = p => lock'[m] = None)
        /\ \A m \in Locks, q \in Procs \ {p} : lock'[m] = q <=> lock[m] = q
    BY <2>1, Ended
  <2>3. Local(p)'
    BY <2>2, IdleLocal
  <2>4. \A q \in Procs \ {p} : at[q].step # "using"
    BY <2>1 DEF StoreInv, Local, Using
  <2>5. \A q \in Procs \ {p} : (Using(q) /\ Registering(q))'
    BY <1>2, <2>2, <2>4
  <2>6. LoginAgrees'
    <3>1. lock'["login"] = None => lock["login"] = None
      BY <2>1, <2>2 DEF Locks, StoreInv, Local, Holding, Walks, Idle
    <3> QED BY <1>1, <3>1 DEF StoreInv, Common, LoginAgrees, docVars
  <2>7. at'[p].step = "idle"
    BY <2>2 DEF Idle
  <2> QED BY <1>1, <2>2, <2>3, <2>5, <2>6, <2>7, TouchKeeps
<1>4. CASE (\A p \in Procs : at[p].step # "using") /\ UNCHANGED <<at, lock>>
  <2> USE DEF docVars
  <2>1. StoreTypes'
    BY <1>1, <1>4 DEF StoreInv, StoreTypes, Catalog
  <2>2. Common'
    BY <1>1, <1>4 DEF StoreInv, Common, Spent, Behind, HotpOnce, LoginAgrees
  <2>3. ASSUME NEW q \in Procs PROVE Local(q)'
    <3>1. Local(q)
      BY DEF StoreInv
    <3>2. (Walks(q) /\ Given(q) /\ Locking(q) /\ Holding(q) /\ Shown(q))'
      BY <1>1, <1>4, <3>1 DEF Local, Walks, Given, Locking, Holding, Doing, Shown
    <3>3. Proposal(q)'
      BY <1>1, <1>4, <3>1 DEF Local, Proposal, New, Target, Catalog
    <3>4. Counting(q)'
      BY <1>1, <1>4, <3>1 DEF Local, Counting, Behind, Doing
    <3> QED BY <1>2, <1>4, <3>2, <3>3, <3>4 DEF Local
  <2> QED BY <2>1, <2>2, <2>3 DEF StoreInv
<1> QED BY <1>3, <1>4 DEF SessionEnds

----------------------------------------------------------------------------
(* Steps that change documents and secrets                                 *)

\* A document is replaced by what was made from it.
LEMMA ReplaceKeeps == ASSUME StoreInv, NEW p \in Procs, Replace(p) PROVE StoreInv'
<1>1. /\ Local(p) /\ at[p].op \in DocOps /\ at[p].step = "write" /\ at[p] # Idle /\ Goes(p, "sync")
      /\ UNCHANGED <<keyring, registered, session, responses, births, doubt, lock>> /\ births \in Nat
      /\ Catalog(profiles) /\ lock["metadata"] = p
  <2>1. Local(p) /\ at[p].step = "write" /\ births \in Nat /\ Catalog(profiles)
    BY DEF StoreInv, StoreTypes, Replace
  <2>2. at[p] # Idle
    BY <2>1 DEF Idle
  <2>3. at[p].op \in DocOps
    BY <2>1, <2>2 DEF Local, Walks, DocOps
  <2> QED BY <2>1, <2>2, <2>3 DEF Replace, history, Local, Locking
<1>2. /\ at'[p].step = "sync" /\ DOMAIN at'[p] = DOMAIN at[p] /\ DOMAIN at' = Procs
      /\ at'[p].op = at[p].op /\ at'[p].id = at[p].id /\ at'[p].arg = at[p].arg /\ at'[p].base = at[p].base
      /\ \A q \in Procs \ {p} : at'[q] = at[q]
  BY <1>1, Moved
<1>3. /\ at[p].op \in {"settings", "pin"} => profiles' = profiles
      /\ at[p].op \in {"add", "update", "remove"} => profiles' = at[p].doc
      /\ at[p].op # "settings" => settings' = settings
      /\ at[p].op = "settings" => settings' = at[p].doc
      /\ at[p].op # "pin" => pins' = pins
      /\ at[p].op = "pin" => pins' = at[p].doc
  BY DEF Replace
<1>4. Proposal(p)
  BY <1>1 DEF Local
\* What becomes of the profiles.
<1>5. /\ Catalog(profiles')
      /\ \A i \in DOMAIN profiles'.list : profiles'.list[i].born <= births
      /\ \A q \in Procs \ {p} : Shown(q)'
  <2>1. CASE at[p].op \in {"settings", "pin"}
    BY <1>1, <1>2, <1>3, <2>1 DEF StoreInv, Common, Local, Shown
  <2>2. CASE at[p].op = "add"
    <3>1. /\ Catalog(at[p].doc) /\ profiles' = at[p].doc
          /\ \A i \in DOMAIN profiles.list : i \in DOMAIN at[p].doc.list /\ at[p].doc.list[i] = profiles.list[i]
          /\ \A i \in New(p) : /\ at[p].doc.list[i].born <= births
                               /\ \A q \in Procs : at[q].op \in {"update", "remove", "reserve"} /\ at[q].step # "load" =>
                                                      at[q].base.born # at[p].doc.list[i].born
      BY <1>1, <1>3, <1>4, <2>2 DEF Proposal
    <3>2. \A i \in DOMAIN profiles'.list : profiles'.list[i].born <= births
      BY <3>1 DEF StoreInv, Common, New
    <3>3. ASSUME NEW q \in Procs \ {p} PROVE Shown(q)'
      <4>1. Shown(q) /\ at'[q] = at[q]
        BY <1>2 DEF StoreInv, Local
      <4> QED BY <1>1, <3>1, <4>1 DEF Shown, New
    <3> QED BY <3>1, <3>2, <3>3
  <2>3. CASE at[p].op = "update"
    <3>1. /\ Catalog(at[p].doc) /\ profiles' = at[p].doc /\ DOMAIN profiles'.list = DOMAIN profiles.list
          /\ \A i \in DOMAIN profiles.list : i # at[p].id => profiles'.list[i] = profiles.list[i]
          /\ at[p].id \in DOMAIN profiles.list
          /\ profiles'.list[at[p].id].born = profiles.list[at[p].id].born
          /\ profiles'.list[at[p].id].rev = profiles.list[at[p].id].rev + 1
      BY <1>1, <1>3, <1>4, <2>3 DEF Proposal
    <3>2. \A i \in DOMAIN profiles'.list : profiles'.list[i].born <= births
      BY <3>1 DEF StoreInv, Common
    <3>3. ASSUME NEW q \in Procs \ {p} PROVE Shown(q)'
      <4>1. Shown(q) /\ Given(q) /\ at'[q] = at[q]
        BY <1>2 DEF StoreInv, Local
      <4> QED BY <1>1, <3>1, <4>1 DEF Shown, Given, Versions, Catalog
    <3> QED BY <3>1, <3>2, <3>3
  <2>4. CASE at[p].op = "remove"
    <3>1. /\ Catalog(at[p].doc) /\ profiles' = at[p].doc /\ DOMAIN profiles'.list \subseteq DOMAIN profiles.list
          /\ \A i \in DOMAIN profiles'.list : profiles'.list[i] = profiles.list[i]
      BY <1>1, <1>3, <1>4, <2>4 DEF Proposal
    <3>2. \A i \in DOMAIN profiles'.list : profiles'.list[i].born <= births
      BY <3>1 DEF StoreInv, Common
    <3>3. ASSUME NEW q \in Procs \ {p} PROVE Shown(q)'
      <4>1. Shown(q) /\ at'[q] = at[q]
        BY <1>2 DEF StoreInv, Local
      <4> QED BY <1>1, <3>1, <4>1 DEF Shown
    <3> QED BY <3>1, <3>2, <3>3
  <2> QED BY <1>1, <2>1, <2>2, <2>3, <2>4 DEF DocOps
<1>6. ASSUME NEW q \in Procs \ {p} PROVE Using(q)'
  <2>1. Using(q) /\ at'[q] = at[q] /\ at'[p].step # "using"
    BY <1>2 DEF StoreInv, Local
  <2>2. ASSUME NEW i \in DOMAIN profiles.list, at[p].op # "remove" \/ i # at[p].id PROVE i \in DOMAIN profiles'.list
    BY <1>1, <1>3, <1>4, <2>2 DEF Proposal, DocOps
  <2>3. Doing(q, "reserve", "send") => at[p].op # "remove"
    BY <1>1 DEF StoreInv, Local, Locking, Doing
  <2>4. at[q].step = "using" => at[p].op # "remove" \/ at[q].id # at[p].id
    BY <1>1 DEF StoreInv, Local, Using
  <2> QED BY <1>1, <1>2, <2>1, <2>2, <2>3, <2>4 DEF StoreInv, Local, Using, Doing
\* What becomes of the settings.
<1>7. /\ settings' \in [rev : Nat, login : BOOLEAN] /\ pins' \in [rev : Nat, pin : Procs \cup {None}] /\ LoginAgrees'
      /\ \A q \in Procs \ {p} : Registering(q)'
  <2>1. CASE at[p].op = "settings"
    <3>1. settings' \in [rev : Nat, login : BOOLEAN] /\ pins' = pins
      BY <1>1, <1>3, <1>4, <2>1 DEF Proposal, Local, Given
    <3>2. lock["login"] = p
      BY <1>1, <2>1 DEF Local, Locking
    <3>3. \A q \in Procs \ {p} : Registering(q)'
      BY <1>1, <1>2, <2>1, OneRegisters
    <3> QED BY <1>1, <3>1, <3>2, <3>3, NameAssumption DEF LoginAgrees, StoreInv, StoreTypes
  <2>2. CASE at[p].op # "settings"
    <3>1. pins' \in [rev : Nat, pin : Procs \cup {None}] /\ settings' = settings
      BY <1>1, <1>3, <1>4, <2>2 DEF Proposal, StoreInv, StoreTypes
    <3>2. \A q \in Procs \ {p} : Registering(q)'
      BY <1>1, <1>2, <3>1, OtherRegisters DEF StoreInv
    <3> QED BY <1>1, <3>1, <3>2 DEF LoginAgrees, StoreInv, StoreTypes, Common
  <2> QED BY <2>1, <2>2
<1>8. ASSUME NEW q \in Procs \ {p} PROVE Local(q)'
  <2>1. Local(q) /\ at'[q] = at[q] /\ \A m \in Locks : lock'[m] = q <=> lock[m] = q
    BY <1>1, <1>2 DEF StoreInv
  <2>2. (Walks(q) /\ Given(q) /\ Locking(q) /\ Holding(q))'
    BY <2>1, OtherStands
  <2>3. Proposal(q)'
    BY <1>1, <2>1 DEF Local, Locking, Proposal
  <2>4. Counting(q)'
    <3>1. ~Doing(p, "hotp", "answer")' /\ births <= births'
      BY <1>1, <1>2 DEF Doing
    <3>2. keyring \in [Ids -> [Purposes -> Secrets \cup {None}]]
      BY DEF StoreInv, StoreTypes
    <3> QED BY <1>1, <1>2, <2>1, <3>1, <3>2, OtherCounts
  <2> QED BY <1>5, <1>6, <1>7, <2>2, <2>3, <2>4 DEF Local
<1>9. Local(p)'
  <2>1. (Walks(p) /\ Given(p))'
    BY <1>1, <1>2 DEF Local, Walks, Given, DocOps
  <2>2. (Locking(p) /\ Holding(p))'
    BY <1>1, <1>2 DEF Local, Locking, Holding, Doing, DocOps
  <2>3. Shown(p)'
    <3>1. Shown(p) /\ Given(p)
      BY <1>1 DEF Local
    <3>2. at[p].op = "remove" => at[p].id \notin DOMAIN profiles'.list
      BY <1>1, <1>3, <1>4 DEF Proposal
    <3>3. at[p].op = "update" => /\ at[p].base.rev = profiles.list[at[p].id].rev
                                 /\ profiles'.list[at[p].id].rev = profiles.list[at[p].id].rev + 1
                                 /\ profiles.list[at[p].id].rev \in Nat
      BY <1>1, <1>3, <1>4 DEF Proposal, Catalog, Versions
    <3> QED BY <1>1, <1>2, <3>1, <3>2, <3>3 DEF Shown, DocOps
  <2>4. (Proposal(p) /\ Using(p) /\ Counting(p))'
    BY <1>1, <1>2 DEF Proposal, Using, Counting, Doing, DocOps
  <2>5. Registering(p)'
    <3>1. at[p].op = "settings" => settings'.login = at[p].arg
      BY <1>1, <1>3, <1>4 DEF Proposal
    <3>2. Registering(p)
      BY <1>1 DEF Local
    <3> QED BY <1>1, <1>2, <3>1, <3>2 DEF Registering, Agree
  <2> QED BY <2>1, <2>2, <2>3, <2>4, <2>5 DEF Local
<1>10. StoreTypes'
  BY <1>1, <1>2, <1>5, <1>7 DEF StoreInv, StoreTypes, Catalog
<1>11. Common'
  BY <1>1, <1>5, <1>7 DEF StoreInv, Common, Spent, Behind, HotpOnce
<1> QED BY <1>8, <1>9, <1>10, <1>11 DEF StoreInv

\* What is to be shown of a step that changes secrets, or sends a response.
LEMMA SecretKeeps ==
  ASSUME StoreInv, NEW p \in Procs, UNCHANGED <<docVars, registered, session, doubt>>, births' \in Nat, births <= births',
         keyring' \in [Ids -> [Purposes -> Secrets \cup {None}]], responses' \in Seq(Secrets),
         DOMAIN at' = Procs, \A q \in Procs \ {p} : at'[q] = at[q],
         lock' \in [Locks -> Procs \cup {None}], \A m \in Locks, q \in Procs \ {p} : lock'[m] = q <=> lock[m] = q,
         lock'["login"] = None => lock["login"] = None,
         at'[p] = Idle \/ (at'[p].op = at[p].op /\ at'[p].base = at[p].base /\ at[p].step # "load"), at'[p].step # "using",
         \A i \in Ids, u \in Purposes : keyring'[i][u] # None => keyring'[i][u].seed <= births',
         \A i, j \in Ids : /\ keyring'[i]["TokenSeed"] # None /\ keyring'[j]["TokenSeed"] # None
                           /\ keyring'[i]["TokenSeed"].seed = keyring'[j]["TokenSeed"].seed
                           => i = j,
         Spent', HotpOnce',
         \A q \in Procs \ {p} : Counting(q)', Local(p)'
  PROVE  StoreInv'
<1> USE DEF docVars
<1>1. StoreTypes'
  BY DEF StoreInv, StoreTypes, Catalog
<1>2. LoginAgrees'
  BY DEF StoreInv, Common, LoginAgrees
<1>3. \A i \in DOMAIN profiles'.list : profiles'.list[i].born <= births'
  BY DEF StoreInv, StoreTypes, Common, Catalog, Versions
<1>4. Common'
  BY <1>2, <1>3, Zenon DEF Common
<1>5. \/ lock["metadata"] = None
      \/ at'[p].op \in {"update", "remove", "reserve"} /\ at'[p].step # "load" =>
            at[p].op \in {"update", "remove", "reserve"} /\ at[p].step # "load" /\ at'[p].base = at[p].base
  BY DEF Idle
<1>6. ASSUME NEW q \in Procs, q # p PROVE Local(q)'
  <2>1. Local(q) /\ at'[q] = at[q]
    BY <1>6 DEF StoreInv
  <2>2. (Walks(q) /\ Given(q) /\ Locking(q) /\ Holding(q))'
    BY <1>6, <2>1, OtherStands
  <2>3. (Shown(q) /\ Proposal(q))'
    BY <1>5, <1>6, <2>1, OtherProposes DEF StoreInv, StoreTypes, Common
  <2>4. Using(q)'
    BY <1>6, <2>1, OtherUses
  <2>5. Registering(q)'
    BY <1>6, <2>1, OtherRegisters
  <2> QED BY <1>6, <2>2, <2>3, <2>4, <2>5 DEF Local
<1> QED BY <1>1, <1>4, <1>6 DEF StoreInv

\* A secret that was used stays behind when a newer one takes its place.
LEMMA BehindKeeps ==
  ASSUME StoreInv, births' \in Nat, births <= births', keyring' \in [Ids -> [Purposes -> Secrets \cup {None}]],
         \A i \in Ids : keyring'[i]["TokenSeed"] # None =>
            \/ keyring'[i]["TokenSeed"].seed > births
            \/ /\ keyring[i]["TokenSeed"] # None /\ keyring'[i]["TokenSeed"].seed = keyring[i]["TokenSeed"].seed
               /\ keyring[i]["TokenSeed"].counter <= keyring'[i]["TokenSeed"].counter,
         NEW s \in Secrets, Behind(s)
  PROVE  Behind(s)'
<1>1. births \in Nat /\ s.seed \in Nat /\ s.counter \in Nat /\ s.seed <= births
      /\ keyring \in [Ids -> [Purposes -> Secrets \cup {None}]] /\ "TokenSeed" \in Purposes
  BY DEF StoreInv, StoreTypes, Behind, Secrets, Purposes
<1>2. ASSUME NEW i \in Ids, keyring'[i]["TokenSeed"] # None, keyring'[i]["TokenSeed"].seed = s.seed
      PROVE  s.counter < keyring'[i]["TokenSeed"].counter
  <2>1. keyring'[i]["TokenSeed"] \in Secrets
    BY <1>1, <1>2
  <2>2. /\ keyring[i]["TokenSeed"] # None /\ keyring'[i]["TokenSeed"].seed = keyring[i]["TokenSeed"].seed
        /\ keyring[i]["TokenSeed"].counter <= keyring'[i]["TokenSeed"].counter
    BY <1>1, <1>2, <2>1 DEF Secrets
  <2>3. keyring[i]["TokenSeed"] \in Secrets /\ s.counter < keyring[i]["TokenSeed"].counter
    BY <1>1, <1>2, <2>2 DEF Behind
  <2> QED BY <1>1, <2>1, <2>2, <2>3 DEF Secrets
<1> QED BY <1>1, <1>2 DEF Behind

\* A secret is saved with a seed nobody has seen, or deleted.
LEMMA SaveSecretKeeps == ASSUME StoreInv, NEW p \in Procs, SaveSecret(p) PROVE StoreInv'
<1>1. /\ Local(p) /\ at[p].op = "secret" /\ at[p].step = "credentials" /\ births \in Nat /\ births' = births + 1
      /\ UNCHANGED <<docVars, registered, session, doubt, responses>> /\ Ends(p) /\ at[p].id \in Ids /\ at[p].arg \in Purposes
      /\ lock[at[p].id] = None /\ keyring \in [Ids -> [Purposes -> Secrets \cup {None}]] /\ responses \in Seq(Secrets)
  BY DEF StoreInv, StoreTypes, SaveSecret, Doing, Local, Given
<1>2. PICK s \in {None, Secret(births + 1)} : keyring' = [keyring EXCEPT ![at[p].id][at[p].arg] = s]
  BY DEF SaveSecret
<1>3. s # None => s \in Secrets /\ s.seed = births + 1
  BY <1>1, <1>2 DEF Secret, Secrets
<1>4. /\ keyring' \in [Ids -> [Purposes -> Secrets \cup {None}]]
      /\ \A i \in Ids, u \in Purposes : keyring'[i][u] = IF i = at[p].id /\ u = at[p].arg THEN s ELSE keyring[i][u]
  BY <1>1, <1>2, <1>3
<1>5. /\ DOMAIN at' = Procs /\ at'[p] = Idle /\ \A q \in Procs \ {p} : at'[q] = at[q]
      /\ lock' \in [Locks -> Procs \cup {None}]
      /\ \A m \in Locks : lock'[m] # p /\ (lock[m] # p => lock'[m] = lock[m]) /\ (lock[m] = p => lock'[m] = None)
      /\ \A m \in Locks, q \in Procs \ {p} : lock'[m] = q <=> lock[m] = q
  BY <1>1, Ended
<1>6. Local(p)' /\ at'[p].step = "idle"
  BY <1>5, IdleLocal DEF Idle
<1>7. lock'["login"] = None => lock["login"] = None
  BY <1>1, <1>5 DEF Local, Holding, Locks
<1>8. \A i \in Ids, u \in Purposes : keyring[i][u] # None => keyring[i][u] \in Secrets /\ keyring[i][u].seed <= births
  BY <1>1 DEF StoreInv, Common
<1>9. \A i \in Ids, u \in Purposes : keyring'[i][u] # None =>
         \/ keyring'[i][u].seed = births + 1 /\ i = at[p].id /\ u = at[p].arg
         \/ keyring'[i][u] = keyring[i][u]
  BY <1>3, <1>4
<1>10. \A i \in Ids, u \in Purposes : keyring'[i][u] # None => keyring'[i][u].seed <= births'
  BY <1>1, <1>8, <1>9 DEF Secrets
<1>11. "TokenSeed" \in Purposes
  BY DEF Purposes
<1>12. \A i, j \in Ids : /\ keyring'[i]["TokenSeed"] # None /\ keyring'[j]["TokenSeed"] # None
                         /\ keyring'[i]["TokenSeed"].seed = keyring'[j]["TokenSeed"].seed
                         => i = j
  BY <1>1, <1>8, <1>9, <1>11 DEF StoreInv, Common, Secrets
<1>13. ASSUME NEW t \in Secrets, Behind(t) PROVE Behind(t)'
  <2>1. births' \in Nat /\ births <= births'
    BY <1>1
  <2>2. \A i \in Ids : keyring'[i]["TokenSeed"] # None =>
            \/ keyring'[i]["TokenSeed"].seed > births
            \/ /\ keyring[i]["TokenSeed"] # None /\ keyring'[i]["TokenSeed"].seed = keyring[i]["TokenSeed"].seed
               /\ keyring[i]["TokenSeed"].counter <= keyring'[i]["TokenSeed"].counter
    BY <1>1, <1>8, <1>9, <1>11 DEF Secrets
  <2> QED BY <1>4, <1>13, <2>1, <2>2, BehindKeeps
<1>14. Spent'
  <2>1. ASSUME NEW k \in 1..Len(responses) PROVE Behind(responses[k])'
    <3>1. responses[k] \in Secrets /\ Behind(responses[k])
      BY <1>1 DEF StoreInv, Common, Spent
    <3>2. responses'[k] = responses[k]
      BY <1>1
    <3> QED BY <3>1, <3>2, <1>13 DEF Behind
  <2> QED BY <1>1, <2>1 DEF Spent
<1>15. HotpOnce'
  BY <1>1 DEF StoreInv, Common, HotpOnce
<1>16. ASSUME NEW q \in Procs \ {p} PROVE Counting(q)'
  <2>1. Local(q) /\ at'[q] = at[q]
    BY <1>5 DEF StoreInv
  <2>2. Doing(q, "hotp", "commit") => keyring'[at[q].id]["TokenSeed"] = at[q].base
    <3>1. Doing(q, "hotp", "commit") => at[q].id \in Ids /\ at[q].id # at[p].id
      BY <1>1, <2>1, NameAssumption DEF Local, Locking, Given, Doing
    <3> QED BY <1>4, <1>11, <2>1, <3>1 DEF Local, Counting
  <2>3. ASSUME Doing(q, "hotp", "answer") PROVE Behind(at[q].base)'
    <3>1. Behind(at[q].base) /\ at[q].base \in Secrets
      BY <2>1, <2>3 DEF Local, Counting, Given, Doing
    <3> QED BY <1>13, <3>1, <2>1 DEF Behind
  <2>4. ASSUME at[q].op = "remove", at[q].step \in {"erasing", "write"}, NEW u \in Purposes, at[q].arg[u] # None
        PROVE  /\ at[q].arg[u].seed <= births'
               /\ at[q].step = "write" /\ keyring'[at[q].id][u] # None => keyring'[at[q].id][u].seed # at[q].arg[u].seed
    <3>1. at[q].arg[u] \in Secrets /\ at[q].arg[u].seed <= births /\ at[q].id \in Ids
      BY <2>1, <2>4 DEF Local, Given, Counting
    <3>2. at[q].step = "write" /\ keyring[at[q].id][u] # None => keyring[at[q].id][u].seed # at[q].arg[u].seed
      BY <2>1, <2>4 DEF Local, Counting
    <3>3. at[q].arg[u].seed \in Nat /\ births \in Nat
      BY <1>1, <3>1 DEF Secrets
    <3>4. keyring'[at[q].id][u] # None => keyring'[at[q].id][u].seed = births + 1 \/ keyring'[at[q].id][u] = keyring[at[q].id][u]
      BY <1>9, <3>1
    <3> QED BY <1>1, <3>1, <3>2, <3>3, <3>4
  <2> QED BY <1>1, <1>5, <2>1, <2>2, <2>3, <2>4 DEF Local, Counting, Doing, Idle
<1>17. births' \in Nat /\ births <= births' /\ responses' \in Seq(Secrets)
  BY <1>1
<1> QED BY <1>1, <1>4, <1>5, <1>6, <1>7, <1>10, <1>12, <1>14, <1>15, <1>16, <1>17, SecretKeeps

\* A secret of the profile that is removed is deleted, or there is none left.
LEMMA EraseKeeps == ASSUME StoreInv, NEW p \in Procs, Erase(p) PROVE StoreInv'
<1>1. /\ Local(p) /\ at[p].op = "remove" /\ at[p].step = "erasing" /\ births \in Nat /\ births' = births /\ at[p] # Idle
      /\ UNCHANGED <<docVars, registered, session, doubt, responses>> /\ at[p].id \in Ids /\ at[p].id \in Locks
      /\ lock[at[p].id] = p /\ keyring \in [Ids -> [Purposes -> Secrets \cup {None}]] /\ responses \in Seq(Secrets)
      /\ lock \in [Locks -> Procs \cup {None}] /\ DOMAIN at = Procs /\ at[p].id \notin {"metadata", "use", "login"}
      /\ doubt \in BOOLEAN
  BY NameAssumption DEF StoreInv, StoreTypes, Erase, Doing, Local, Given, Locking, Idle, history, Locks
<1>2. CASE /\ \A u \in Purposes : keyring[at[p].id][u] = None
           /\ Goes(p, "write") /\ Free(p, {at[p].id}) /\ UNCHANGED keyring
  <2>1. /\ at'[p].step = "write" /\ DOMAIN at'[p] = DOMAIN at[p]
        /\ at'[p].op = at[p].op /\ at'[p].id = at[p].id /\ at'[p].arg = at[p].arg /\ at'[p].base = at[p].base
        /\ at'[p].old = at[p].old /\ at'[p].doc = at[p].doc
    BY <1>1, <1>2, Moved
  <2>2. /\ lock' \in [Locks -> Procs \cup {None}]
        /\ \A m \in Locks : IF m \in {at[p].id} /\ lock[m] = p THEN lock'[m] = None ELSE lock'[m] = lock[m]
        /\ \A m \in Locks, q \in Procs \ {p} : lock'[m] = q <=> lock[m] = q
    BY <1>2, Freed
  <2>3. /\ \A m \in {"metadata", "use", "login"} : m \in Locks /\ lock'[m] = lock[m]
        /\ \A i \in Ids : lock'[i] # p
    <3>1. {"metadata", "use", "login"} \subseteq Locks /\ Ids \subseteq Locks
      BY DEF Locks
    <3>2. \A i \in Ids : lock[i] = p => i = at[p].id
      BY <1>1 DEF Local, Holding
    <3> QED BY <1>1, <2>2, <3>1, <3>2, NameAssumption
  <2>4. (Walks(p) /\ Given(p))'
    BY <1>1, <2>1 DEF Local, Walks, Given
  <2>5. Locking(p)' /\ Holding(p)'
    BY <1>1, <2>1, <2>3 DEF Local, Locking, Holding, Doing, DocOps
  <2>6. (Shown(p) /\ Using(p) /\ Registering(p))'
    BY <1>1, <2>1 DEF Local, Shown, Using, Registering, Doing, docVars
  <2>7. Proposal(p)'
    BY <1>1, <2>1 DEF Local, Proposal, Target, DocOps, docVars
  <2>8. Counting(p)'
    BY <1>1, <1>2, <2>1 DEF Local, Counting, Doing
  <2>9. UNCHANGED <<frame, births, doubt>> /\ (lock'["login"] = None => lock["login"] = None)
    BY <1>1, <1>2, <2>3 DEF frame
  <2> QED BY <1>1, <1>2, <2>2, <2>4, <2>5, <2>6, <2>7, <2>8, <2>9, MoveKeeps DEF Local
<1>3. ASSUME NEW u \in Purposes, keyring' = [keyring EXCEPT ![at[p].id][u] = None], UNCHANGED <<at, lock>> PROVE StoreInv'
  <2>1. /\ keyring' \in [Ids -> [Purposes -> Secrets \cup {None}]]
        /\ \A i \in Ids, v \in Purposes : keyring'[i][v] # None => keyring'[i][v] = keyring[i][v]
        /\ \A i \in Ids, v \in Purposes : i # at[p].id => keyring'[i][v] = keyring[i][v]
    BY <1>1, <1>3
  <2>2. "TokenSeed" \in Purposes
    BY DEF Purposes
  <2>3. ASSUME NEW t \in Secrets, Behind(t) PROVE Behind(t)'
    BY <1>1, <2>1, <2>2, <2>3 DEF Behind
  <2>4. Spent'
    <3>1. ASSUME NEW k \in 1..Len(responses) PROVE Behind(responses[k])'
      <4>1. responses[k] \in Secrets /\ Behind(responses[k]) /\ responses'[k] = responses[k]
        BY <1>1 DEF StoreInv, Common, Spent
      <4> QED BY <4>1, <2>3 DEF Behind
    <3> QED BY <1>1, <3>1 DEF Spent
  <2>5. HotpOnce'
    BY <1>1 DEF StoreInv, Common, HotpOnce
  <2>6. /\ \A i \in Ids, v \in Purposes : keyring'[i][v] # None => keyring'[i][v].seed <= births'
        /\ \A i, j \in Ids : /\ keyring'[i]["TokenSeed"] # None /\ keyring'[j]["TokenSeed"] # None
                             /\ keyring'[i]["TokenSeed"].seed = keyring'[j]["TokenSeed"].seed
                             => i = j
    BY <1>1, <2>1, <2>2 DEF StoreInv, Common
  <2>7. ASSUME NEW q \in Procs PROVE Counting(q)'
    <3>1. Local(q) /\ at'[q] = at[q]
      BY <1>3 DEF StoreInv
    <3>2. Doing(q, "hotp", "commit") => keyring'[at[q].id]["TokenSeed"] = at[q].base
      <4>1. Doing(q, "hotp", "commit") => at[q].id \in Ids /\ at[q].id # at[p].id
        BY <1>1, <3>1 DEF Local, Locking, Given, Doing
      <4> QED BY <2>1, <2>2, <3>1, <4>1 DEF Local, Counting
    <3>3. ASSUME Doing(q, "hotp", "answer") PROVE Behind(at[q].base)'
      <4>1. Behind(at[q].base) /\ at[q].base \in Secrets
        BY <3>1, <3>3 DEF Local, Counting, Given, Doing
      <4> QED BY <2>3, <3>1, <4>1 DEF Behind
    <3>4. ASSUME at[q].op = "remove", at[q].step = "write", NEW v \in Purposes, at[q].arg[v] # None, keyring'[at[q].id][v] # None
          PROVE  keyring'[at[q].id][v].seed # at[q].arg[v].seed
      BY <2>1, <3>1, <3>4 DEF Local, Counting, Given
    <3> QED BY <1>1, <1>3, <3>1, <3>2, <3>3, <3>4 DEF Local, Counting, Doing
  <2>8. Local(p)'
    <3>1. (Walks(p) /\ Given(p) /\ Locking(p) /\ Holding(p))'
      BY <1>1, <1>3 DEF Local, Walks, Given, Locking, Holding, Doing
    <3>2. (Shown(p) /\ Using(p) /\ Registering(p))'
      BY <1>1, <1>3 DEF Local, Shown, Using, Registering, Doing, docVars
    <3>3. Proposal(p)'
      BY <1>1, <1>3 DEF Local, Proposal, Target, DocOps, docVars
    <3> QED BY <2>7, <3>1, <3>2, <3>3 DEF Local
  <2>9. /\ births' \in Nat /\ births <= births' /\ responses' \in Seq(Secrets) /\ DOMAIN at' = Procs
        /\ lock' \in [Locks -> Procs \cup {None}] /\ (lock'["login"] = None => lock["login"] = None)
        /\ at'[p].op = at[p].op /\ at'[p].base = at[p].base /\ at[p].step # "load" /\ at'[p].step # "using"
        /\ (\A q \in Procs \ {p} : at'[q] = at[q]) /\ \A m \in Locks, q \in Procs \ {p} : lock'[m] = q <=> lock[m] = q
    BY <1>1, <1>3
  <2>10. UNCHANGED <<docVars, registered, session, doubt>>
    BY <1>1
  <2> QED BY <2>1, <2>4, <2>5, <2>6, <2>7, <2>8, <2>9, <2>10, SecretKeeps
<1> QED BY <1>2, <1>3 DEF Erase

\* The counter in the keyring passes the one the response was computed from.
LEMMA HotpAdvances ==
  ASSUME StoreInv, NEW p \in Procs, Doing(p, "hotp", "commit"), births' = births, UNCHANGED responses,
         keyring' = [keyring EXCEPT ![at[p].id]["TokenSeed"] = [at[p].base EXCEPT !.counter = @ + 1]],
         DOMAIN at' = Procs, \A q \in Procs \ {p} : at'[q] = at[q],
         at'[p] = Idle \/ (Doing(p, "hotp", "answer")' /\ at'[p].base = at[p].base)
  PROVE  /\ keyring' \in [Ids -> [Purposes -> Secrets \cup {None}]]
         /\ \A i \in Ids, u \in Purposes : keyring'[i][u] # None => keyring'[i][u].seed <= births'
         /\ \A i, j \in Ids : /\ keyring'[i]["TokenSeed"] # None /\ keyring'[j]["TokenSeed"] # None
                              /\ keyring'[i]["TokenSeed"].seed = keyring'[j]["TokenSeed"].seed
                              => i = j
         /\ Spent' /\ HotpOnce'
         /\ \A q \in Procs : Counting(q)'
<1> DEFINE i == at[p].id
           b == at[p].base
<1>1. /\ Local(p) /\ i \in Ids /\ b \in Secrets /\ keyring[i]["TokenSeed"] = b /\ lock[i] = p /\ births \in Nat
      /\ keyring \in [Ids -> [Purposes -> Secrets \cup {None}]] /\ responses \in Seq(Secrets) /\ "TokenSeed" \in Purposes
      /\ b # None
  <2>1. b \in Secrets /\ i \in Ids /\ keyring[i]["TokenSeed"] = b /\ lock[i] = p
    BY DEF StoreInv, Local, Locking, Given, Counting, Doing
  <2> QED BY <2>1, NameAssumption DEF StoreInv, StoreTypes, Purposes, Secrets
<1> DEFINE n == [b EXCEPT !.counter = b.counter + 1]
<1>2. n \in Secrets /\ n.seed = b.seed /\ n.counter = b.counter + 1 /\ n # None
  <2>1. n \in Secrets /\ n.seed = b.seed /\ n.counter = b.counter + 1
    <3>1. ASSUME NEW v \in Secrets
          PROVE  [v EXCEPT !.counter = v.counter + 1] \in Secrets
                 /\ [v EXCEPT !.counter = v.counter + 1].seed = v.seed
                 /\ [v EXCEPT !.counter = v.counter + 1].counter = v.counter + 1
      BY DEF Secrets
    <3>2. b \in Secrets
      BY <1>1
    <3> HIDE DEF b
    <3> QED BY <3>1, <3>2
  <2> QED BY <2>1, NameAssumption DEF Secrets
<1>3. keyring' = [keyring EXCEPT ![i]["TokenSeed"] = n]
  OBVIOUS
<1> HIDE DEF n, i, b
<1>4. /\ keyring' \in [Ids -> [Purposes -> Secrets \cup {None}]]
      /\ \A j \in Ids, u \in Purposes : keyring'[j][u] = IF j = i /\ u = "TokenSeed" THEN n ELSE keyring[j][u]
  <2>1. i \in Ids /\ keyring \in [Ids -> [Purposes -> Secrets \cup {None}]] /\ "TokenSeed" \in Purposes /\ n \in Secrets
    BY <1>1, <1>2
  <2>2. keyring' = [keyring EXCEPT ![i] = [keyring[i] EXCEPT !["TokenSeed"] = n]]
    BY <1>3, <2>1
  <2>3. [keyring[i] EXCEPT !["TokenSeed"] = n] \in [Purposes -> Secrets \cup {None}]
    BY <2>1
  <2>4. keyring' \in [Ids -> [Purposes -> Secrets \cup {None}]]
    BY <2>1, <2>2, <2>3
  <2> QED BY <2>1, <2>2, <2>4
<1>5. \A j \in Ids, u \in Purposes :
         /\ keyring'[j][u] # None <=> keyring[j][u] # None
         /\ keyring[j][u] # None => keyring'[j][u].seed = keyring[j][u].seed
  BY <1>1, <1>2, <1>4
<1>6. \A j \in Ids, u \in Purposes : keyring'[j][u] # None => keyring'[j][u].seed <= births'
  BY <1>5 DEF StoreInv, Common
<1>7. \A j, k \in Ids : /\ keyring'[j]["TokenSeed"] # None /\ keyring'[k]["TokenSeed"] # None
                        /\ keyring'[j]["TokenSeed"].seed = keyring'[k]["TokenSeed"].seed
                        => j = k
  BY <1>1, <1>5 DEF StoreInv, Common
<1>8. ASSUME NEW t \in Secrets, Behind(t) PROVE Behind(t)'
  <2>1. \A j \in Ids : keyring'[j]["TokenSeed"] # None =>
            \/ keyring'[j]["TokenSeed"].seed > births
            \/ /\ keyring[j]["TokenSeed"] # None /\ keyring'[j]["TokenSeed"].seed = keyring[j]["TokenSeed"].seed
               /\ keyring[j]["TokenSeed"].counter <= keyring'[j]["TokenSeed"].counter
    BY <1>1, <1>2, <1>4, <1>5 DEF Secrets
  <2>2. births' \in Nat /\ births <= births'
    BY <1>1
  <2> QED BY <1>4, <1>8, <2>1, <2>2, BehindKeeps
<1>9. Spent'
  <2>1. ASSUME NEW k \in 1..Len(responses) PROVE Behind(responses[k])'
    <3>1. responses[k] \in Secrets /\ Behind(responses[k]) /\ responses'[k] = responses[k]
      BY <1>1 DEF StoreInv, Common, Spent
    <3> QED BY <3>1, <1>8 DEF Behind
  <2> QED BY <2>1 DEF Spent
<1>10. HotpOnce'
  BY DEF StoreInv, Common, HotpOnce
\* The counter that is read is passed by the one that is written, and was never used.
<1>11. b.seed <= births /\ \A j \in Ids : keyring'[j]["TokenSeed"] # None /\ keyring'[j]["TokenSeed"].seed = b.seed =>
                                             b.counter < keyring'[j]["TokenSeed"].counter
  <2>1. b.seed <= births
    BY <1>1 DEF StoreInv, Common
  <2>2. ASSUME NEW j \in Ids, keyring'[j]["TokenSeed"] # None, keyring'[j]["TokenSeed"].seed = b.seed
        PROVE  b.counter < keyring'[j]["TokenSeed"].counter
    <3>1. keyring'[i]["TokenSeed"] = n /\ keyring'[i]["TokenSeed"] # None
      BY <1>1, <1>2, <1>4
    <3>2. j = i
      BY <1>1, <1>2, <1>7, <2>2, <3>1
    <3> QED BY <1>1, <1>2, <3>1, <3>2 DEF Secrets
  <2> QED BY <2>1, <2>2
<1>12. ASSUME NEW t \in Secrets, Behind(t) PROVE t # b
  <2>1. ASSUME t = b PROVE b.counter < b.counter
    BY <1>1, <1>12, <2>1 DEF Behind
  <2>2. b.counter \in Nat
    BY <1>1 DEF Secrets
  <2> QED BY <2>1, <2>2
<1>13. \A k \in 1..Len(responses) : responses[k] # b
  BY <1>1, <1>12 DEF StoreInv, Common, Spent
<1>14. ASSUME NEW q \in Procs \ {p} PROVE Counting(q)'
  <2>1. Local(q) /\ at'[q] = at[q]
    BY DEF StoreInv
  <2>2. Doing(q, "hotp", "commit") => keyring'[at[q].id]["TokenSeed"] = at[q].base
    <3>1. Doing(q, "hotp", "commit") => at[q].id \in Ids /\ at[q].id # i
      BY <1>1, <2>1 DEF Local, Locking, Given, Doing
    <3> QED BY <1>1, <1>4, <2>1, <3>1 DEF Local, Counting
  <2>3. ASSUME Doing(q, "hotp", "answer") PROVE Behind(at[q].base)' /\ at[q].base # b
    <3>1. Behind(at[q].base) /\ at[q].base \in Secrets
      BY <2>1, <2>3 DEF Local, Counting, Given, Doing
    <3> QED BY <1>8, <1>12, <2>1, <3>1 DEF Behind
  <2>4. ASSUME at[q].op = "remove", at[q].step = "write", NEW v \in Purposes, at[q].arg[v] # None, keyring'[at[q].id][v] # None
        PROVE  keyring'[at[q].id][v].seed # at[q].arg[v].seed
    BY <1>5, <2>1, <2>4 DEF Local, Counting, Given
  <2>5. ASSUME Doing(q, "hotp", "answer"), NEW r \in Procs, Doing(r, "hotp", "answer")', at'[r].base = at'[q].base
        PROVE  r = q
    <3>1. r # p
      BY <2>1, <2>3, <2>5 DEF Doing, Idle, b
    <3> QED BY <2>1, <2>5, <3>1 DEF Local, Counting, Doing
  <2> QED BY <2>1, <2>2, <2>3, <2>4, <2>5 DEF Local, Counting, Doing
<1>15. Counting(p)'
  <2>1. CASE at'[p] = Idle
    BY <2>1 DEF Counting, Doing, Idle
  <2>2. CASE Doing(p, "hotp", "answer")' /\ at'[p].base = at[p].base
    <3>1. Behind(at[p].base)'
      BY <1>11, <2>2 DEF Behind, b
    <3>2. ASSUME NEW r \in Procs, Doing(r, "hotp", "answer")', at'[r].base = at'[p].base PROVE r = p
      <4>1. SUFFICES ASSUME r # p PROVE FALSE
        OBVIOUS
      <4>2. Doing(r, "hotp", "answer") /\ at[r].base = b /\ Local(r)
        BY <2>2, <3>2, <4>1 DEF Doing, b, StoreInv
      <4>3. Behind(at[r].base) /\ at[r].base \in Secrets
        BY <4>2 DEF Local, Counting, Given, Doing
      <4> QED BY <1>12, <4>2, <4>3
    <3> QED BY <1>13, <2>2, <3>1, <3>2 DEF Counting, Doing, b
  <2> QED BY <2>1, <2>2
<1> QED BY <1>4, <1>6, <1>7, <1>9, <1>10, <1>14, <1>15

\* The advanced counter is written, or may have been.
LEMMA HotpCommitKeeps == ASSUME StoreInv, NEW p \in Procs, HotpCommit(p) PROVE StoreInv'
<1> DEFINE next == [keyring EXCEPT ![at[p].id]["TokenSeed"] = [at[p].base EXCEPT !.counter = @ + 1]]
<1>1. /\ Local(p) /\ at[p].op = "hotp" /\ at[p].step = "commit" /\ births \in Nat /\ births' = births /\ at[p] # Idle
      /\ UNCHANGED <<docVars, registered, session, doubt, responses>> /\ at[p].id \in Ids /\ at[p].id \in Locks
      /\ responses \in Seq(Secrets) /\ lock \in [Locks -> Procs \cup {None}] /\ DOMAIN at = Procs /\ doubt \in BOOLEAN
      /\ lock["login"] # p /\ "login" \in Locks
  BY DEF StoreInv, StoreTypes, HotpCommit, Doing, Local, Given, Holding, Idle, history, Locks
<1>2. births' \in Nat /\ births <= births' /\ responses' \in Seq(Secrets) /\ UNCHANGED <<docVars, registered, session, doubt>>
  BY <1>1
<1>3. CASE keyring' = next /\ Goes(p, "answer") /\ Free(p, {at[p].id})
  <2>1. /\ at'[p].step = "answer" /\ DOMAIN at'[p] = DOMAIN at[p] /\ DOMAIN at' = Procs
        /\ at'[p].op = at[p].op /\ at'[p].id = at[p].id /\ at'[p].base = at[p].base
        /\ \A q \in Procs \ {p} : at'[q] = at[q]
    BY <1>1, <1>3, Moved
  <2>2. /\ lock' \in [Locks -> Procs \cup {None}]
        /\ \A m \in Locks : IF m \in {at[p].id} /\ lock[m] = p THEN lock'[m] = None ELSE lock'[m] = lock[m]
        /\ \A m \in Locks, q \in Procs \ {p} : lock'[m] = q <=> lock[m] = q
    BY <1>3, Freed
  <2>3. \A m \in Locks : lock'[m] # p
    <3>1. \A m \in Locks : lock[m] = p => m = at[p].id
      BY <1>1 DEF Local, Holding, Locks
    <3> QED BY <2>2, <3>1, NameAssumption
  <2>4. lock'["login"] = None => lock["login"] = None
    BY <1>1, <2>2
  <2>5. Doing(p, "hotp", "answer")' /\ Doing(p, "hotp", "commit")
    BY <1>1, <2>1 DEF Doing
  <2>6. /\ keyring' \in [Ids -> [Purposes -> Secrets \cup {None}]]
        /\ \A i \in Ids, u \in Purposes : keyring'[i][u] # None => keyring'[i][u].seed <= births'
        /\ \A i, j \in Ids : /\ keyring'[i]["TokenSeed"] # None /\ keyring'[j]["TokenSeed"] # None
                             /\ keyring'[i]["TokenSeed"].seed = keyring'[j]["TokenSeed"].seed
                             => i = j
        /\ Spent' /\ HotpOnce'
        /\ \A q \in Procs : Counting(q)'
    BY <1>1, <1>3, <2>1, <2>5, HotpAdvances
  <2>7. (Walks(p) /\ Given(p))'
    BY <1>1, <2>1 DEF Local, Walks, Given
  <2>8. Locking(p)' /\ Holding(p)'
    BY <1>1, <2>1, <2>3 DEF Locking, Holding, Doing, DocOps, Locks
  <2>9. (Shown(p) /\ Proposal(p) /\ Using(p) /\ Registering(p))'
    BY <1>1, <2>1 DEF Shown, Proposal, Using, Registering, Doing, DocOps
  <2>10. Local(p)'
    BY <2>6, <2>7, <2>8, <2>9 DEF Local
  <2>11. at[p].step # "load" /\ at'[p].step # "using"
    BY <1>1, <2>1
  <2> QED BY <1>2, <2>1, <2>2, <2>4, <2>6, <2>10, <2>11, SecretKeeps
<1>4. CASE keyring' \in {keyring, next} /\ Ends(p)
  <2>1. CASE keyring' = keyring
    <3>1. UNCHANGED frame
      BY <1>1, <2>1 DEF frame
    <3> QED BY <1>1, <1>2, <1>4, <3>1, EndKeeps
  <2>2. CASE keyring' = next
    <3>1. /\ DOMAIN at' = Procs /\ at'[p] = Idle /\ \A q \in Procs \ {p} : at'[q] = at[q]
          /\ lock' \in [Locks -> Procs \cup {None}]
          /\ \A m \in Locks : lock'[m] # p /\ (lock[m] # p => lock'[m] = lock[m]) /\ (lock[m] = p => lock'[m] = None)
          /\ \A m \in Locks, q \in Procs \ {p} : lock'[m] = q <=> lock[m] = q
      BY <1>4, Ended
    <3>2. Local(p)' /\ at'[p].step # "using" /\ (lock'["login"] = None => lock["login"] = None)
      BY <1>1, <3>1, IdleLocal DEF Idle
    <3>3. Doing(p, "hotp", "commit")
      BY <1>1 DEF Doing
    <3>4. /\ keyring' \in [Ids -> [Purposes -> Secrets \cup {None}]]
          /\ \A i \in Ids, u \in Purposes : keyring'[i][u] # None => keyring'[i][u].seed <= births'
          /\ \A i, j \in Ids : /\ keyring'[i]["TokenSeed"] # None /\ keyring'[j]["TokenSeed"] # None
                               /\ keyring'[i]["TokenSeed"].seed = keyring'[j]["TokenSeed"].seed
                               => i = j
          /\ Spent' /\ HotpOnce'
          /\ \A q \in Procs : Counting(q)'
      BY <1>1, <2>2, <3>1, <3>3, HotpAdvances
    <3> QED BY <1>2, <3>1, <3>2, <3>4, SecretKeeps
  <2> QED BY <1>4, <2>1, <2>2
<1> QED BY <1>3, <1>4 DEF HotpCommit

\* A response leaves the process: it is computed from a counter nobody used.
LEMMA HotpAnswerKeeps == ASSUME StoreInv, NEW p \in Procs, HotpAnswer(p) PROVE StoreInv'
<1> DEFINE b == at[p].base
<1>1. /\ Local(p) /\ at[p].op = "hotp" /\ at[p].step = "answer" /\ births \in Nat /\ births' = births
      /\ UNCHANGED <<docVars, registered, session, doubt, keyring>> /\ responses' = Append(responses, b) /\ Ends(p)
      /\ responses \in Seq(Secrets) /\ b \in Secrets /\ keyring \in [Ids -> [Purposes -> Secrets \cup {None}]]
  BY DEF StoreInv, StoreTypes, HotpAnswer, Doing, Local, Given, history
<1>2. /\ Behind(b) /\ \A k \in 1..Len(responses) : responses[k] # b
      /\ \A q \in Procs : Doing(q, "hotp", "answer") /\ at[q].base = b => q = p
  BY <1>1 DEF Local, Counting, Doing
<1> HIDE DEF b
<1>3. /\ DOMAIN at' = Procs /\ at'[p] = Idle /\ \A q \in Procs \ {p} : at'[q] = at[q]
      /\ lock' \in [Locks -> Procs \cup {None}]
      /\ \A m \in Locks : lock'[m] # p /\ (lock[m] # p => lock'[m] = lock[m]) /\ (lock[m] = p => lock'[m] = None)
      /\ \A m \in Locks, q \in Procs \ {p} : lock'[m] = q <=> lock[m] = q
  BY <1>1, Ended
<1>4. Local(p)' /\ at'[p].step # "using" /\ (lock'["login"] = None => lock["login"] = None)
  BY <1>1, <1>3, IdleLocal DEF Idle, Local, Holding, Locks
<1>5. /\ responses' \in Seq(Secrets) /\ Len(responses') = Len(responses) + 1 /\ responses'[Len(responses) + 1] = b
      /\ \A k \in 1..Len(responses) : responses'[k] = responses[k]
      /\ Len(responses) \in Nat /\ DOMAIN responses = 1..Len(responses) /\ DOMAIN responses' = 1..Len(responses')
  BY <1>1
<1>6. Spent'
  <2>1. ASSUME NEW k \in 1..Len(responses') PROVE Behind(responses[k])'
    <3>1. CASE k \in 1..Len(responses)
      <4>1. Behind(responses[k]) /\ responses'[k] = responses[k]
        BY <1>5, <3>1 DEF StoreInv, Common, Spent
      <4> QED BY <1>1, <4>1 DEF Behind
    <3>2. CASE k = Len(responses) + 1
      BY <1>1, <1>2, <1>5, <3>2 DEF Behind
    <3> QED BY <1>5, <3>1, <3>2
  <2> QED BY <2>1 DEF Spent
<1>7. HotpOnce'
  <2>1. ASSUME NEW j \in 1..Len(responses'), NEW k \in 1..Len(responses'), responses'[j] = responses'[k] PROVE j = k
    <3>1. CASE j \in 1..Len(responses) /\ k \in 1..Len(responses)
      BY <1>5, <2>1, <3>1 DEF StoreInv, Common, HotpOnce
    <3>2. CASE j = Len(responses) + 1 \/ k = Len(responses) + 1
      BY <1>2, <1>5, <2>1, <3>2
    <3> QED BY <1>5, <3>1, <3>2
  <2> QED BY <1>5, <2>1 DEF HotpOnce
<1>8. ASSUME NEW q \in Procs \ {p} PROVE Counting(q)'
  <2>1. Local(q) /\ at'[q] = at[q]
    BY <1>3 DEF StoreInv
  <2>2. Doing(q, "hotp", "commit") => keyring'[at[q].id]["TokenSeed"] = at[q].base
    BY <1>1, <2>1 DEF Local, Counting
  <2>3. ASSUME Doing(q, "hotp", "answer")
        PROVE  Behind(at[q].base)' /\ \A k \in 1..Len(responses') : responses'[k] # at[q].base
    <3>1. Behind(at[q].base) /\ at[q].base # b /\ \A k \in 1..Len(responses) : responses[k] # at[q].base
      BY <1>2, <2>1, <2>3 DEF Local, Counting
    <3>2. Behind(at[q].base)'
      BY <1>1, <2>1, <3>1 DEF Behind
    <3> QED BY <1>5, <3>1, <3>2
  <2>4. ASSUME at[q].op = "remove", at[q].step \in {"erasing", "write"}
        PROVE  \A u \in Purposes : at[q].arg[u] # None =>
                 /\ at[q].arg[u].seed <= births
                 /\ at[q].step = "write" /\ keyring[at[q].id][u] # None => keyring[at[q].id][u].seed # at[q].arg[u].seed
    BY <2>1, <2>4 DEF Local, Counting
  <2>5. ASSUME Doing(q, "hotp", "answer"), NEW r \in Procs, Doing(r, "hotp", "answer")', at'[r].base = at'[q].base
        PROVE  r = q
    BY <1>3, <2>1, <2>5 DEF Local, Counting, Doing, Idle
  <2> QED BY <1>1, <2>1, <2>2, <2>3, <2>4, <2>5 DEF Counting, Doing
<1>9. /\ \A i \in Ids, u \in Purposes : keyring'[i][u] # None => keyring'[i][u].seed <= births'
      /\ \A i, j \in Ids : /\ keyring'[i]["TokenSeed"] # None /\ keyring'[j]["TokenSeed"] # None
                           /\ keyring'[i]["TokenSeed"].seed = keyring'[j]["TokenSeed"].seed
                           => i = j
  BY <1>1 DEF StoreInv, Common
<1>10. /\ births' \in Nat /\ births <= births' /\ UNCHANGED <<docVars, registered, session, doubt>>
       /\ keyring' \in [Ids -> [Purposes -> Secrets \cup {None}]]
  BY <1>1
<1>11. responses' \in Seq(Secrets)
  BY <1>5
<1> QED BY <1>3, <1>4, <1>6, <1>7, <1>8, <1>9, <1>10, <1>11, SecretKeeps

----------------------------------------------------------------------------
(* The invariant                                                           *)

\* The store begins with one profile, its secrets, and nobody doing anything.
LEMMA StoreInvInit == Init => StoreInv
<1> SUFFICES ASSUME Init PROVE StoreInv
  OBVIOUS
<1>1. PICK i \in Ids, n \in Names :
        /\ profiles = [rev |-> 1, list |-> [x \in {i} |-> Fresh(n, 0)]]
        /\ keyring = [x \in Ids |-> [u \in Purposes |-> IF x = i THEN Secret(0) ELSE None]]
        /\ settings = [rev |-> 0, login |-> FALSE] /\ pins = [rev |-> 0, pin |-> None]
        /\ registered = FALSE /\ session = None
        /\ lock = [l \in Locks |-> None] /\ at = [p \in Procs |-> Idle]
        /\ births = 0 /\ doubt = FALSE /\ responses = <<>>
  BY DEF Init
<1>2. Fresh(n, 0) \in Versions /\ Fresh(n, 0).born = 0
  BY DEF Fresh, Versions
<1>3. Secret(0) \in Secrets /\ Secret(0).seed = 0 /\ "TokenSeed" \in Purposes
  BY DEF Secret, Secrets, Purposes
<1>4. /\ Catalog(profiles) /\ \A x \in DOMAIN profiles.list : profiles.list[x].born = 0
  BY <1>1, <1>2 DEF Catalog
<1>5. /\ keyring \in [Ids -> [Purposes -> Secrets \cup {None}]]
      /\ \A x \in Ids, u \in Purposes : keyring[x][u] # None => x = i /\ keyring[x][u].seed = 0
  BY <1>1, <1>3
<1>6. StoreTypes
  <2>1. responses \in Seq(Secrets)
    BY <1>1
  <2>2. lock \in [Locks -> Procs \cup {None}] /\ DOMAIN at = Procs
    BY <1>1
  <2>3. settings \in [rev : Nat, login : BOOLEAN] /\ pins \in [rev : Nat, pin : Procs \cup {None}]
    BY <1>1
  <2>4. registered \in BOOLEAN /\ doubt \in BOOLEAN /\ session \in Ids \cup {None} /\ births \in Nat
    BY <1>1
  <2> QED BY <1>4, <1>5, <2>1, <2>2, <2>3, <2>4 DEF StoreTypes
<1>7. Common
  <2>1. Len(responses) = 0 /\ DOMAIN responses = {}
    BY <1>1
  <2>2. Spent /\ HotpOnce
    BY <2>1 DEF Spent, HotpOnce
  <2>3. LoginAgrees
    BY <1>1 DEF LoginAgrees
  <2> QED BY <1>1, <1>3, <1>4, <1>5, <2>2, <2>3 DEF Common
<1>8. ASSUME NEW p \in Procs PROVE Local(p)
  <2>1. at[p] = Idle /\ at[p].op = "idle" /\ at[p].step = "idle"
    BY <1>1 DEF Idle
  <2>2. \A m \in Locks : lock[m] # p
    BY <1>1, NameAssumption
  <2>3. Walks(p) /\ Given(p) /\ Locking(p) /\ Holding(p)
    BY <2>1, <2>2 DEF Walks, Given, Locking, Holding, Doing, DocOps, Locks
  <2>4. Shown(p) /\ Proposal(p) /\ Using(p) /\ Counting(p) /\ Registering(p)
    BY <2>1 DEF Shown, Proposal, Using, Counting, Registering, Doing, DocOps
  <2> QED BY <2>3, <2>4 DEF Local
<1> QED BY <1>6, <1>7, <1>8 DEF StoreInv

\* Every step of every process keeps it.
LEMMA StoreInvStep == StoreInv /\ [Next]_vars => StoreInv'
<1> SUFFICES ASSUME StoreInv, [Next]_vars PROVE StoreInv'
  OBVIOUS
<1>1. ASSUME NEW p \in Procs, Steps(p) PROVE StoreInv'
  BY <1>1, LoadKeeps, LockMetadataKeeps, AddKeeps, UpdateKeeps, RemoveKeeps, SaveSettingsKeeps, SavePinKeeps,
     ReplaceKeeps, SyncKeeps, LockUseKeeps, AskKeeps, CheckKeeps, ReservedKeeps, SaveSecretKeeps, LockEraseKeeps,
     EraseKeeps, HotpBeginKeeps, HotpCommitKeeps, HotpAnswerKeeps, LockLoginKeeps, BeforeKeeps, RegisterKeeps,
     RollbackKeeps, OpenExportKeeps, PublishKeeps, UnlinkKeeps DEF Steps
<1>2. CASE UNCHANGED vars
  <2> USE <1>2 DEF vars, docVars, history
  <2>1. StoreTypes'
    BY DEF StoreInv, StoreTypes, Catalog
  <2>2. Common'
    BY DEF StoreInv, Common, Spent, Behind, HotpOnce, LoginAgrees
  <2>3. ASSUME NEW q \in Procs PROVE Local(q)'
    <3>1. Local(q)
      BY DEF StoreInv
    <3>2. (Walks(q) /\ Given(q) /\ Locking(q) /\ Holding(q) /\ Shown(q))'
      BY <3>1 DEF Local, Walks, Given, Locking, Holding, Doing, Shown
    <3>3. (Proposal(q) /\ Using(q))'
      BY <3>1 DEF Local, Proposal, Using, New, Target, Catalog, Doing
    <3>4. (Counting(q) /\ Registering(q))'
      BY <3>1 DEF Local, Counting, Behind, Registering, Agree, Doing
    <3> QED BY <3>2, <3>3, <3>4 DEF Local
  <2> QED BY <2>1, <2>2, <2>3 DEF StoreInv
<1> QED BY <1>1, <1>2, StartsKeeps, FailsKeeps, CrashesKeeps, SessionEndsKeeps, UserRegistersKeeps DEF Next

\* What every process relies on while it holds its locks, in every reachable
\* state (profiles.rs, configuration.rs, credentials.rs).
THEOREM StoreInvariant == Spec => []StoreInv
BY StoreInvInit, StoreInvStep, PTL DEF Spec

\* The profile of a session an interface has reserved stays in the store until
\* the session is over (configuration.rs reserve_profile, remove_profile).
THEOREM StoreInUseKept == Spec => []InUseKept
<1>1. StoreInv => InUseKept
  BY DEF StoreInv, Local, Using, InUseKept
<1> QED BY <1>1, StoreInvariant, PTL

\* No response of a counter-based token is computed twice from one counter
\* (credentials.rs HotpTransaction).
THEOREM StoreHotpOnce == Spec => []HotpOnce
<1>1. StoreInv => HotpOnce
  BY DEF StoreInv, Common
<1> QED BY <1>1, StoreInvariant, PTL

\* The desktop starts at login exactly if the settings say so, where nothing
\* was left undone that was told (configuration.rs save_settings).
THEOREM StoreLoginAgrees == Spec => []LoginAgrees
<1>1. StoreInv => LoginAgrees
  BY DEF StoreInv, Common
<1> QED BY <1>1, StoreInvariant, PTL

----------------------------------------------------------------------------
(* What a step never does                                                  *)

\* The two halves of NothingOverwritten, and RemovalErases, as they are of one step.
FromRead ==
    \A p \in Procs : Replacing(p) =>
        /\ at[p].old = Target(p)
        /\ at[p].op \in {"update", "remove"} =>
             LET now == profiles.list[at[p].id]
             IN  at[p].base.born = now.born => at[p].base = now
        /\ at[p].op \in {"settings", "pin"} => at[p].base = Target(p).rev
Forced ==
    \A p \in Procs : exported'.by = p /\ exported'.by # exported.by /\ exported.links > 0 => at[p].arg
Erased ==
    \A p \in Procs, u \in Purposes :
        Replacing(p) /\ at[p].op = "remove" /\ at[p].arg[u] # None =>
            keyring[at[p].id][u] = None \/ keyring[at[p].id][u].seed # at[p].arg[u].seed

\* A document is replaced under the lock it was read under.
LEMMA StepFromRead == StoreInv => FromRead
<1> SUFFICES ASSUME StoreInv, NEW p \in Procs, Replacing(p)
             PROVE  /\ at[p].old = Target(p)
                    /\ at[p].op \in {"update", "remove"} =>
                         LET now == profiles.list[at[p].id]
                         IN  at[p].base.born = now.born => at[p].base = now
                    /\ at[p].op \in {"settings", "pin"} => at[p].base = Target(p).rev
  BY DEF FromRead
<1>1. Local(p) /\ at[p].step = "write"
  BY DEF StoreInv, Replacing
<1>2. at[p].op \in DocOps
  BY <1>1 DEF Local, Walks, DocOps, Idle
<1>3. at[p].old = Target(p) /\ (at[p].op \in {"settings", "pin"} => at[p].base = Target(p).rev)
  BY <1>1, <1>2 DEF Local, Proposal, Target
<1>4. ASSUME at[p].op \in {"update", "remove"}, at[p].base.born = profiles.list[at[p].id].born
      PROVE  at[p].base = profiles.list[at[p].id]
  <2>1. at[p].id \in DOMAIN profiles.list /\ at[p].base.rev = profiles.list[at[p].id].rev
    BY <1>1, <1>2, <1>4 DEF Local, Proposal
  <2>2. at[p].base.rev \in Nat
    BY <1>1, <1>4 DEF Local, Given, Versions
  <2> QED BY <1>1, <1>4, <2>1, <2>2 DEF Local, Shown
<1> QED BY <1>3, <1>4

\* The exported file is changed by exports.
LEMMA OnlyExports ==
  ASSUME [Next]_vars, exported' # exported
  PROVE  \E q \in Procs : Publish(q) \/ PublishMoves(q) \/ Unlink(q)
<1>1. ASSUME NEW q \in Procs, Steps(q) PROVE Publish(q) \/ PublishMoves(q) \/ Unlink(q)
  <2>1. ASSUME \/ Load(q) \/ LockMetadata(q) \/ Add(q) \/ Update(q) \/ Remove(q) \/ SaveSettings(q) \/ SavePin(q)
               \/ Replace(q) \/ Sync(q)
        PROVE  exported' = exported
    BY <2>1 DEF Load, LockMetadata, Add, Update, Remove, SaveSettings, SavePin, Replace, Sync
  <2>2. ASSUME \/ LockUse(q) \/ Ask(q) \/ Check(q) \/ Reserved(q) \/ SaveSecret(q) \/ LockErase(q) \/ Erase(q)
               \/ HotpBegin(q) \/ HotpCommit(q) \/ HotpAnswer(q)
        PROVE  exported' = exported
    BY <2>2 DEF LockUse, Ask, Check, Reserved, SaveSecret, LockErase, Erase, HotpBegin, HotpCommit, HotpAnswer
  <2>3. ASSUME LockLogin(q) \/ Before(q) \/ Register(q) \/ Rollback(q) \/ OpenExport(q)
        PROVE  exported' = exported
    BY <2>3 DEF LockLogin, Before, Register, Rollback, OpenExport
  <2> QED BY <1>1, <2>1, <2>2, <2>3 DEF Steps
<1>2. ~UNCHANGED vars /\ ~SessionEnds /\ ~UserRegisters
  BY DEF vars, SessionEnds, UserRegisters
<1>3. \A q \in Procs : ~Starts(q) /\ ~Fails(q) /\ ~Crashes(q)
  BY DEF Starts, Fails, Crashes
<1> QED BY <1>1, <1>2, <1>3 DEF Next

\* It has an author and a number of links.
Filed == DOMAIN exported = {"by", "links"}
\* The exported file keeps its two fields.
LEMMA FiledInvariant == Spec => []Filed
<1>1. Init => Filed
  BY DEF Init, Filed
<1>2. ASSUME Filed, [Next]_vars PROVE Filed'
  <2>1. CASE exported' = exported
    BY <1>2, <2>1 DEF Filed
  <2>2. CASE exported' # exported
    BY <1>2, <2>2, OnlyExports DEF Filed, Publish, PublishMoves, Unlink
  <2> QED BY <2>1, <2>2
<1> QED BY <1>1, <1>2, PTL DEF Spec

\* A file that is there is replaced by a rename with --force only.
LEMMA StepForced == Filed /\ [Next]_vars => Forced
<1> SUFFICES ASSUME Filed, [Next]_vars, NEW p \in Procs, exported'.by = p, exported'.by # exported.by, exported.links > 0
             PROVE  at[p].arg
  BY DEF Forced
<1>1. PICK q \in Procs : Publish(q) \/ PublishMoves(q) \/ Unlink(q)
  BY OnlyExports
<1>2. ~Unlink(q)
  BY DEF Unlink, Filed
<1> QED BY <1>1, <1>2 DEF Publish, PublishMoves

\* Who is about to take a profile from the list has erased what it found.
LEMMA StepErased == StoreInv => Erased
<1> SUFFICES ASSUME StoreInv, NEW p \in Procs, NEW u \in Purposes, Replacing(p), at[p].op = "remove", at[p].arg[u] # None
             PROVE  keyring[at[p].id][u] = None \/ keyring[at[p].id][u].seed # at[p].arg[u].seed
  BY DEF Erased
<1> QED BY DEF StoreInv, Local, Counting, Replacing

\* A document is replaced by who read this very version, a profile from the
\* version its author was shown, and an exported file only with --force
\* (profiles.rs, private_fs.rs atomic_write).
THEOREM StoreNothingOverwritten == Spec => NothingOverwritten
<1>1. StoreInv /\ Filed /\ [Next]_vars => [/\ FromRead
                                           /\ Forced]_vars
  BY StepFromRead, StepForced
<1>2. Spec => [][/\ FromRead
                 /\ Forced]_vars
  BY <1>1, StoreInvariant, FiledInvariant, PTL DEF Spec
<1> QED BY <1>2 DEF NothingOverwritten, FromRead, Forced

\* A profile's metadata goes only after every secret that was in the keyring
\* when its removal began (profiles.rs remove, credentials.rs delete_profile_blocking).
THEOREM StoreRemovalErases == Spec => RemovalErases
<1>1. StoreInv /\ [Next]_vars => [Erased]_vars
  BY StepErased
<1>2. Spec => [][Erased]_vars
  BY <1>1, StoreInvariant, PTL DEF Spec
<1> QED BY <1>2 DEF RemovalErases, Erased

----------------------------------------------------------------------------
(* Locks are taken in one order: use and login, then metadata, then those  *)
(* of secrets, whose holder waits for nobody.                              *)

\* Whoever holds a lock wants one further on in that order, if any.
LEMMA InOrder ==
  ASSUME StoreInv, NEW p \in Procs
  PROVE  /\ \A i \in Ids : lock[i] = p => Wanted(p) = None
         /\ lock["metadata"] = p => Wanted(p) \in Ids \cup {None}
         /\ lock["use"] = p \/ lock["login"] = p => Wanted(p) \in Ids \cup {"metadata", None}
         /\ Wanted(p) \in {"metadata", "use", "login", None} \cup Ids
<1>1. Local(p)
  BY DEF StoreInv
<1>2. at[p].step \in {"erase", "credentials"} => at[p].id \in Ids
  BY <1>1 DEF Local, Walks, Given, Idle
<1>3. \A i \in Ids : lock[i] = p => Wanted(p) = None
  BY <1>1 DEF Local, Holding, Doing, Wanted
<1>4. lock["metadata"] = p => Wanted(p) \in Ids \cup {None}
  BY <1>1, <1>2 DEF Local, Holding, Wanted
<1>5. lock["use"] = p \/ lock["login"] = p => Wanted(p) \in Ids \cup {"metadata", None}
  <2>1. lock["use"] = p \/ lock["login"] = p => at[p].step \notin {"use", "login"}
    BY <1>1 DEF Local, Walks, Holding, Idle
  <2> QED BY <1>2, <2>1 DEF Wanted
<1>6. Wanted(p) \in {"metadata", "use", "login", None} \cup Ids
  BY <1>2 DEF Wanted
<1> QED BY <1>3, <1>4, <1>5, <1>6

\* Operations never wait for one another in a circle, however many they are
\* (profiles.rs remove, configuration.rs lock, credentials.rs lock_profile).
THEOREM StoreNoCircularWait == Spec => []NoCircularWait
<1>1. StoreInv => NoCircularWait
  <2> SUFFICES ASSUME StoreInv, NEW ps \in (SUBSET Procs) \ {{}}, \A p \in ps : Blocker(p) \in ps PROVE FALSE
    BY DEF NoCircularWait
  <2>1. ps \subseteq Procs /\ None \notin ps
    BY NameAssumption
  <2>2. ASSUME NEW p \in ps PROVE p \in Procs /\ Wanted(p) # None /\ lock[Wanted(p)] \in ps
    BY <2>1, <2>2 DEF Blocker
  <2>3. ASSUME NEW p \in ps PROVE Wanted(p) \notin Ids
    BY <2>1, <2>2, <2>3, InOrder
  <2>4. ASSUME NEW p \in ps PROVE Wanted(p) # "metadata"
    BY <2>1, <2>2, <2>3, <2>4, InOrder
  <2>5. ASSUME NEW p \in ps PROVE FALSE
    BY <2>1, <2>2, <2>3, <2>4, <2>5, InOrder
  <2> QED BY <2>5
<1> QED BY <1>1, StoreInvariant, PTL
=============================================================================
