------------------------------ MODULE KeyCache ------------------------------
(***************************************************************************)
(* Where the keys of the accounts come from (GetAPIKey and RefreshAPIKey   *)
(* of internal/balancer/account_state.go, FetchAPIKey of internal/oauth/   *)
(* apikey.go), the pool that holds the account states (syncPool of         *)
(* internal/balancer/balancer.go) and what removals and logins do to both  *)
(* (internal/account/registry.go).  A key is looked for in memory, in      *)
(* accounts/<slug>.key and upstream, without a lock over the three; a      *)
(* goroutine keeps the account state it was given, whatever becomes of the *)
(* account meanwhile.                                                      *)
(*                                                                         *)
(* A key and its credentials are the grant they stem from.  Registered     *)
(* means here that accounts/<slug>.json is there: module CredStore has the *)
(* index, the activation and the writes that fail.                         *)
(***************************************************************************)
EXTENDS Grants

CONSTANTS
  MaxSlug,      (* Account names 1 .. MaxSlug: a base name, and that name  *)
                (* with the suffixes -2, -3, ...                           *)
  MaxStates,    (* Bound: account states that are made.                    *)
  Callers       (* Goroutines: requests, probes, administrators.           *)

Slugs == 1 .. MaxSlug
NoSlug == 0
States == 1 .. MaxStates
NoState == 0

VARIABLES
  file,         (* file[s]: the grant in accounts/<s>.json, or NoLogin.    *)
  current,      (* The registry's current account.                         *)
  keyFile,      (* keyFile[s]: accounts/<s>.key.                           *)
  pool,         (* pool[s]: the account state of s in the pool.            *)
  made,         (* Account states made so far.                             *)
  key,          (* key[i]: apiKey of account state i.                      *)
  failed,       (* failed[i]: its negative cache, as the grant refused.    *)
  flight,       (* flight[i]: does a refresh of its key run?               *)
  at,           (* at[w]: where goroutine w stands.                        *)
  name, state,  (* name[w], state[w]: the account it has.                  *)
  held,         (* held[w]: the key or credentials it has read.            *)
  seen,         (* seen[w]: the names it has listed.                       *)
  signed,       (* History: the grant of the last login under a name.      *)
  overtaken,    (* History: overtaken[s]: grants somebody was under way    *)
                (* with when s was removed or saved, and what Left says    *)
                (* there was besides when s was saved.                     *)
  late          (* History: late[s]: the grants of the flights under the   *)
                (* name s when it was last removed or saved.               *)

registryVars == <<file, current, keyFile, signed>>
poolVars == <<pool, made>>
stateVars == <<key, failed, flight>>
callerVars == <<at, name, state, held, seen>>
pastVars == <<overtaken, late>>
keyVars == <<registryVars, poolVars, stateVars, callerVars, pastVars>>

Registered == {s \in Slugs : file[s] # NoLogin}

Places == {"idle", "cascade", "list", "sync", "get", "adopt", "gate",
           "renew", "wait", "fetch", "keep", "write", "refuse"}

(* w has the flight of its account state.                                  *)
Flies(w) == at[w] \in {"fetch", "keep", "write", "refuse"}

KeysTypeOK ==
  /\ file \in [Slugs -> Logins \cup {NoLogin}]
  /\ current \in Slugs \cup {NoSlug}
  /\ keyFile \in [Slugs -> Logins \cup {NoLogin}]
  /\ pool \in [Slugs -> 0 .. made]
  /\ made \in 0 .. MaxStates
  /\ key \in [States -> Logins \cup {NoLogin}]
  /\ failed \in [States -> Logins \cup {NoLogin}]
  /\ flight \in [States -> BOOLEAN]
  /\ at \in [Callers -> Places]
  /\ name \in [Callers -> Slugs \cup {NoSlug}]
  /\ state \in [Callers -> 0 .. made]
  /\ held \in [Callers -> Logins \cup {NoLogin}]
  /\ seen \in [Callers -> SUBSET Slugs]
  /\ \A s, t \in Slugs : pool[s] = pool[t] => s = t \/ pool[s] = NoState
  /\ \A i \in States : flight[i] <=> \E w \in Callers : Flies(w) /\ state[w] = i
  /\ \A v, w \in Callers : Flies(v) /\ Flies(w) /\ state[v] = state[w] => v = w
  /\ \A w \in Callers : at[w] = "wait" => flight[state[w]]

KeysInit ==
  /\ file = [s \in Slugs |-> NoLogin] /\ current = NoSlug
  /\ keyFile = [s \in Slugs |-> NoLogin]
  /\ pool = [s \in Slugs |-> NoState] /\ made = 0
  /\ key = [i \in States |-> NoLogin]
  /\ failed = [i \in States |-> NoLogin]
  /\ flight = [i \in States |-> FALSE]
  /\ at = [w \in Callers |-> "idle"]
  /\ name = [w \in Callers |-> NoSlug]
  /\ state = [w \in Callers |-> NoState]
  /\ held = [w \in Callers |-> NoLogin]
  /\ seen = [w \in Callers |-> {}]
  /\ signed = [s \in Slugs |-> NoLogin]
  /\ overtaken = [s \in Slugs |-> {}] /\ late = [s \in Slugs |-> {}]

-----------------------------------------------------------------------------
(* The pool.                                                               *)

(* syncPool with a list of accounts: states are made for those the pool    *)
(* lacks, the others' are dropped.  A state that is there is kept, however *)
(* the account under its name came about.                                  *)
SyncPool(list) ==
  LET lacking == {s \in list : pool[s] = NoState}
  IN  /\ made + Cardinality(lacking) <= MaxStates
      /\ made' = made + Cardinality(lacking)
      /\ pool' = [s \in Slugs |->
           IF s \notin list THEN NoState
           ELSE IF s \in lacking
           THEN made + Cardinality({t \in lacking : t <= s})
           ELSE pool[s]]

(* ListSlugs is read without b.mu: the list may be old when it is applied. *)
ListSlugs(w) ==
  /\ at[w] \in {"idle", "list"}
  /\ at' = [at EXCEPT ![w] = "sync"]
  /\ seen' = [seen EXCEPT ![w] = Registered]
  /\ UNCHANGED <<registryVars, poolVars, stateVars, name, state, held,
                 pastVars>>

ApplyList(w) ==
  /\ at[w] = "sync"
  /\ SyncPool(seen[w])
  /\ at' = [at EXCEPT ![w] = "idle"]
  /\ seen' = [seen EXCEPT ![w] = {}]
  /\ UNCHANGED <<registryVars, stateVars, name, state, held, pastVars>>

(* A request or a probe gets the state of an account, for its key, or for  *)
(* a new key when the upstream refused the one it has.                     *)
Take(w, s) ==
  /\ at[w] = "idle"
  /\ pool[s] # NoState
  /\ \E for \in {"get", "renew"} : at' = [at EXCEPT ![w] = for]
  /\ name' = [name EXCEPT ![w] = s]
  /\ state' = [state EXCEPT ![w] = pool[s]]
  /\ UNCHANGED <<registryVars, poolVars, stateVars, held, seen, pastVars>>

-----------------------------------------------------------------------------
(* GetAPIKey.                                                              *)

(* The goroutines of W return, with a key or an error.                     *)
Finish(W) ==
  /\ at' = [w \in Callers |-> IF w \in W THEN "idle" ELSE at[w]]
  /\ name' = [w \in Callers |-> IF w \in W THEN NoSlug ELSE name[w]]
  /\ state' = [w \in Callers |-> IF w \in W THEN NoState ELSE state[w]]
  /\ held' = [w \in Callers |-> IF w \in W THEN NoLogin ELSE held[w]]
  /\ UNCHANGED seen

GoTo(w, place) ==
  at' = [at EXCEPT ![w] = place] /\ UNCHANGED <<name, state, held, seen>>

(* In memory, or else in the key file.                                     *)
GetKey(w) ==
  LET stored == keyFile[name[w]]
  IN  /\ at[w] = "get"
      /\ IF key[state[w]] # NoLogin THEN Finish({w})
         ELSE IF stored = NoLogin THEN GoTo(w, "gate")
         ELSE /\ at' = [at EXCEPT ![w] = "adopt"]
              /\ held' = [held EXCEPT ![w] = stored]
              /\ UNCHANGED <<name, state, seen>>
      /\ UNCHANGED <<registryVars, poolVars, stateVars, pastVars>>

AdoptKey(w) ==
  /\ at[w] = "adopt"
  /\ key' = [key EXCEPT ![state[w]] = held[w]]
  /\ Finish({w})
  /\ UNCHANGED <<registryVars, poolVars, failed, flight, pastVars>>

(* The negative cache, unless keyFailTTL is over.                          *)
PassGate(w) ==
  /\ at[w] = "gate"
  /\ \/ GoTo(w, "renew")
     \/ failed[state[w]] # NoLogin /\ Finish({w})
  /\ UNCHANGED <<registryVars, poolVars, stateVars, pastVars>>

-----------------------------------------------------------------------------
(* RefreshAPIKey: one flight for each account state.                       *)

RenewKey(w) ==
  LET i == state[w]
      creds == file[name[w]]
  IN  /\ at[w] = "renew"
      /\ \/ flight[i] /\ GoTo(w, "wait") /\ UNCHANGED flight
         \/ ~flight[i] /\ creds = NoLogin /\ Finish({w}) /\ UNCHANGED flight
         \/ /\ ~flight[i] /\ creds # NoLogin
            /\ flight' = [flight EXCEPT ![i] = TRUE]
            /\ at' = [at EXCEPT ![w] = "fetch"]
            /\ held' = [held EXCEPT ![w] = creds]
            /\ UNCHANGED <<name, state, seen>>
      /\ UNCHANGED <<registryVars, poolVars, key, failed, pastVars>>

(* The access token is refreshed, before or in the middle of FetchAPIKey,  *)
(* and persistCreds keeps the result: under the account's name, if there   *)
(* is such an account.                                                     *)
PersistCreds(w) ==
  /\ at[w] = "fetch" /\ held[w] \notin revoked
  /\ failed' = [failed EXCEPT ![state[w]] = NoLogin]
  /\ file' = IF name[w] \in Registered
             THEN [file EXCEPT ![name[w]] = held[w]] ELSE file
  /\ UNCHANGED <<current, keyFile, signed, poolVars, key, flight, callerVars,
                 pastVars>>

FetchAPIKey(w) ==
  /\ at[w] = "fetch"
  /\ \/ held[w] \notin revoked /\ GoTo(w, "keep")
     \/ GoTo(w, "refuse")
  /\ UNCHANGED <<registryVars, poolVars, stateVars, pastVars>>

KeepKey(w) ==
  /\ at[w] = "keep"
  /\ key' = [key EXCEPT ![state[w]] = held[w]]
  /\ failed' = [failed EXCEPT ![state[w]] = NoLogin]
  /\ GoTo(w, "write")
  /\ UNCHANGED <<registryVars, poolVars, flight, pastVars>>

(* Mutant of Land: who joined is not told.                                 *)
LandAlone(w) ==
  /\ flight' = [flight EXCEPT ![state[w]] = FALSE]
  /\ Finish({w})

(* The flight of w is over; those who joined it get its result.            *)
Land(w) ==
  /\ flight' = [flight EXCEPT ![state[w]] = FALSE]
  /\ Finish({w} \cup {v \in Callers : at[v] = "wait" /\ state[v] = state[w]})

(* Nobody is told when the file cannot be written.                         *)
WriteKeyFile(w) ==
  /\ at[w] = "write"
  /\ keyFile' \in {keyFile, [keyFile EXCEPT ![name[w]] = held[w]]}
  /\ Land(w)
  /\ UNCHANGED <<file, current, signed, poolVars, key, failed, pastVars>>

RefuseKey(w) ==
  /\ at[w] = "refuse"
  /\ failed' = [failed EXCEPT ![state[w]] = held[w]]
  /\ Land(w)
  /\ UNCHANGED <<registryVars, poolVars, key, pastVars>>

-----------------------------------------------------------------------------
(* The registry.                                                           *)

UnderWay(s) == {held[w] : w \in {v \in Callers : name[v] = s}} \ {NoLogin}

InFlight(s) == {held[w] : w \in {v \in Callers : name[v] = s /\ Flies(v)}}

(* Mutant of RemoveFiles: the files beside the account's stay.             *)
RemoveFilesButKey(s) ==
  /\ file' = [file EXCEPT ![s] = NoLogin]
  /\ UNCHANGED keyFile

RemoveFiles(s) ==
  /\ file' = [file EXCEPT ![s] = NoLogin]
  /\ keyFile' = [keyFile EXCEPT ![s] = NoLogin]

First(names) == CHOOSE t \in names : \A u \in names : t <= u

(* RemoveAccount.  When the current account goes, the first of the rest    *)
(* is current, ...                                                         *)
RemoveAccount(w, s) ==
  LET rest == Registered \ {s}
  IN  /\ at[w] = "idle"
      /\ s \in Registered
      /\ RemoveFiles(s)
      /\ current' = IF current # s THEN current
                    ELSE IF rest = {} THEN NoSlug ELSE First(rest)
      /\ signed' = [signed EXCEPT ![s] = NoLogin]
      /\ overtaken' = [overtaken EXCEPT ![s] = UnderWay(s)]
      /\ late' = [late EXCEPT ![s] = InFlight(s)]
      /\ IF current = s /\ rest # {}
         THEN /\ at' = [at EXCEPT ![w] = "cascade"]
              /\ seen' = [seen EXCEPT ![w] = rest]
         ELSE at' = [at EXCEPT ![w] = "list"] /\ UNCHANGED seen
      /\ UNCHANGED <<poolVars, stateVars, name, state, held>>

(* ActivateAccount: the pool is reloaded before its r.mu is released.      *)
Activate(s) ==
  /\ s \in Registered
  /\ current' = s
  /\ SyncPool(Registered)

ActivateAccount(s) ==
  /\ Activate(s)
  /\ UNCHANGED <<file, keyFile, signed, stateVars, callerVars, pastVars>>

(* ... and activated once r.mu is released, when it may be gone, or no     *)
(* longer current.  ReloadPool comes last.                                 *)
Cascade(w) ==
  LET s == First(seen[w])
  IN  /\ at[w] = "cascade"
      /\ \/ Activate(s)
         \/ s \notin Registered /\ UNCHANGED <<current, poolVars>>
      /\ at' = [at EXCEPT ![w] = "list"]
      /\ seen' = [seen EXCEPT ![w] = {}]
      /\ UNCHANGED <<file, keyFile, signed, stateVars, name, state, held,
                     pastVars>>

(* The user_id in the credentials of grant n.                              *)
UserID(n) == IF n \in known THEN who[n] ELSE NoUser

SameUser(user, m) == user # NoUser /\ UserID(m) = user

(* SaveAccountAutoSlug: the first name that is free or the user's own.     *)
AutoSlug(user) ==
  CHOOSE s \in Slugs :
    /\ file[s] = NoLogin \/ SameUser(user, file[s])
    /\ \A t \in 1 .. s - 1 : file[t] # NoLogin /\ ~SameUser(user, file[t])

(* Mutant of OnAccountSaved: only the pool is seen to.                     *)
OnAccountSavedPool(s) ==
  /\ SyncPool(Registered \cup {s})
  /\ UNCHANGED failed

OnAccountSaved(s) ==
  /\ SyncPool(Registered \cup {s})
  /\ failed' = [failed EXCEPT ![pool'[s]] = NoLogin]

(* What the state in the pool and, when the file is no longer that of the  *)
(* user who logged in last, the key file have of the account's past.       *)
Left(s) ==
  ({IF pool[s] = NoState THEN NoLogin ELSE key[pool[s]]}
    \cup {IF file[s] # NoLogin /\ who[file[s]] # who[signed[s]]
          THEN keyFile[s] ELSE NoLogin}) \ {NoLogin}

SaveAccountAutoSlug(n, user) ==
  LET s == AutoSlug(user)
  IN  /\ file' = [file EXCEPT ![s] = n]
      /\ current' = s
      /\ signed' = [signed EXCEPT ![s] = n]
      /\ OnAccountSaved(s)
      /\ overtaken' = [overtaken EXCEPT ![s] = @ \cup UnderWay(s) \cup Left(s)]
      /\ late' = [late EXCEPT ![s] = InFlight(s)]
      /\ UNCHANGED <<keyFile, key, flight, callerVars>>

CallerStep(w) ==
  \/ ListSlugs(w) \/ ApplyList(w) \/ Cascade(w)
  \/ \E s \in Slugs : Take(w, s) \/ RemoveAccount(w, s)
  \/ GetKey(w) \/ AdoptKey(w) \/ PassGate(w)
  \/ RenewKey(w) \/ PersistCreds(w) \/ FetchAPIKey(w) \/ KeepKey(w)
  \/ WriteKeyFile(w) \/ RefuseKey(w)

-----------------------------------------------------------------------------
(* Properties.                                                             *)

Belongs(n, s) == n = NoLogin \/ who[n] = who[signed[s]] \/ n \in overtaken[s]

(* What is kept under the name of an account is its own user's.  The       *)
(* credentials in its file are those of its last login, unless a flight    *)
(* that ran when they were saved has put its own back.  The key file and   *)
(* the key in the pooled state are the user's, too: a removed account      *)
(* leaves no key to the next account of its name (registry.go:804), except *)
(* what a goroutine was under way with when the name changed hands, what a *)
(* state kept that the pool was not yet rid of, or what lay beside         *)
(* credentials that a late write had put there.                            *)
KeysOwn ==
  \A s \in Registered :
    /\ file[s] \in {signed[s]} \cup late[s]
    /\ Belongs(keyFile[s], s)
    /\ pool[s] # NoState => Belongs(key[pool[s]], s)

(* An account that has just been logged in starts clean: what its older    *)
(* credentials, or an older account of its name, were refused for before   *)
(* is forgotten (balancer.go:51-55).  Only a flight that ran at the very   *)
(* moment it was saved may still have it turned away.                      *)
RefusalsFresh ==
  \A s \in Registered :
    pool[s] # NoState =>
      failed[pool[s]] \in {NoLogin, signed[s]} \cup late[s]
=============================================================================
