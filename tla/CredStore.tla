------------------------------ MODULE CredStore ------------------------------
(***************************************************************************)
(* Where the credentials of the accounts are kept, and who rewrites them:  *)
(* the registry (accounts/index.json and accounts/<slug>.json), the copy   *)
(* of the active account in codely-creds.json, and the refreshes that      *)
(* rotate refresh tokens (internal/account/registry.go, internal/oauth and *)
(* the parts of internal/balancer/account_state.go that refresh).          *)
(*                                                                         *)
(* The upstream accepts a refresh token once and answers with its          *)
(* successor, so that a successor which reaches no file is an account that *)
(* must log in again.  A refresh is a network call made without a lock;    *)
(* everything the registry does is one critical section of r.mu.           *)
(*                                                                         *)
(* Only refresh tokens tell credentials apart here: access tokens, keys,   *)
(* expiry dates and team names are left out.  The whole content of         *)
(* index.json that matters is which user a slug belongs to.                *)
(***************************************************************************)
EXTENDS Integers, FiniteSets

CONSTANTS
  Users,        (* Upstream identities (user_id).                          *)
  NoUser,       (* No registry entry.                                      *)
  Slugs,        (* Account names, as ranks in sort order.                  *)
  NoSlug,       (* The empty name.                                         *)
  Named,        (* Named[u]: names the logins of u may be saved under.     *)
  AutoName,     (* AutoName[u]: the name an imported activation gets.      *)
  NoToken,      (* No file.                                                *)
  Workers,      (* Goroutines that refresh, switch or remove.              *)
  Jobs,         (* What the workers of this instance do.                   *)
  Overlap,      (* May two workers hold tokens of one account at once?     *)
  KeepOne,      (* Does the administrator keep at least one account?       *)
  MaxTokens,    (* Bound: refresh tokens the upstream hands out.           *)
  Failing,      (* What may fail: the writes of a "login" or a "switch",   *)
                (* the way back of a refresh's "answer", or the process,   *)
                (* which is killed by a "crash".                           *)
  MaxFaults     (* Bound: how often something does.                        *)

AllJobs == {"key", "quota", "fetch", "global", "activate", "remove", "look"}
Refreshers == {"key", "quota", "fetch"}
Flown == {"key", "quota"}

ASSUME NamesAssumption ==
  /\ Slugs \subseteq Nat \ {0} /\ IsFiniteSet(Slugs) /\ NoSlug = 0
  /\ Named \in [Users -> SUBSET Slugs]
  /\ AutoName \in [Users -> Slugs]
  /\ NoUser \notin Users

ASSUME BoundsAssumption ==
  /\ Jobs \subseteq AllJobs
  /\ Overlap \in BOOLEAN /\ KeepOne \in BOOLEAN
  /\ Failing \subseteq {"login", "switch", "answer", "crash"}
  /\ MaxTokens \in Nat /\ MaxFaults \in Nat

(* A refresh token: whose it is and the order of its issue.                *)
Token == [user : Users, nr : 1 .. MaxTokens]
Stored == Token \cup {NoToken}

ASSUME TokenAssumption == NoToken \notin Token

VARIABLES
  index,        (* index[s]: the user of the entry of s in index.json.     *)
  current,      (* index.json's current account.                           *)
  file,         (* file[s]: accounts/<s>.json.                             *)
  activation,   (* codely-creds.json.                                      *)
  live,         (* Refresh tokens the upstream accepts.                    *)
  issued,       (* How many it has issued.                                 *)
  unheard,      (* History: tokens used up by a refresh whose answer never *)
                (* reached the proxy.                                      *)
  faults,       (* Failures left.                                          *)
  pc,           (* pc[w]: where worker w stands.                           *)
  job,          (* job[w]: what it was started for.                        *)
  slug,         (* slug[w]: the account it works for.                      *)
  held,         (* held[w]: the credentials it loaded.                     *)
  fresh,        (* fresh[w]: their successors, once refreshed.             *)
  unwritten     (* History: names registered without a file, until nothing *)
                (* is left under them.                                     *)

diskVars == <<index, current, file, activation>>
upstreamVars == <<live, issued, unheard>>
workerVars == <<pc, job, slug, held, fresh>>
vars == <<diskVars, upstreamVars, faults, workerVars, unwritten>>

Points == {"idle", "refresh", "joined", "persist", "retry", "ask", "align",
           "check", "write", "report", "rescue", "cascade"}

(* The entries of index.json.                                              *)
Registered == {s \in Slugs : index[s] # NoUser}

TypeOK ==
  /\ index \in [Slugs -> Users \cup {NoUser}]
  /\ current \in Slugs \cup {NoSlug}
  /\ file \in [Slugs -> Stored]
  /\ activation \in Stored
  /\ live \subseteq Token /\ unheard \subseteq Token
  /\ issued \in 0 .. MaxTokens
  /\ faults \in 0 .. MaxFaults
  /\ pc \in [Workers -> Points]
  /\ job \in [Workers -> AllJobs \cup {"none"}]
  /\ slug \in [Workers -> Slugs \cup {NoSlug}]
  /\ held \in [Workers -> Stored]
  /\ fresh \in [Workers -> Stored]
  /\ unwritten \subseteq Slugs
  /\ \A t \in live : t.nr <= issued
  /\ \A w \in Workers : pc[w] = "idle" =>
       job[w] = "none" /\ slug[w] = NoSlug /\ held[w] = NoToken
       /\ fresh[w] = NoToken

(* A fresh installation.                                                   *)
Init ==
  /\ index = [s \in Slugs |-> NoUser]
  /\ current = NoSlug
  /\ file = [s \in Slugs |-> NoToken]
  /\ activation = NoToken
  /\ live = {}
  /\ issued = 0
  /\ unheard = {}
  /\ faults = MaxFaults
  /\ pc = [w \in Workers |-> "idle"]
  /\ job = [w \in Workers |-> "none"]
  /\ slug = [w \in Workers |-> NoSlug]
  /\ held = [w \in Workers |-> NoToken]
  /\ fresh = [w \in Workers |-> NoToken]
  /\ unwritten = {}

-----------------------------------------------------------------------------
(* Shared moves.                                                           *)

Goto(w, to) == pc' = [pc EXCEPT ![w] = to]

(* Goroutine w takes up a job, with the credentials it starts from.        *)
Begin(w, to, j, s, t) ==
  /\ Goto(w, to)
  /\ job' = [job EXCEPT ![w] = j]
  /\ slug' = [slug EXCEPT ![w] = s]
  /\ held' = [held EXCEPT ![w] = t]
  /\ UNCHANGED fresh

(* Mutant of Stop: the successor stays behind in a goroutine that is over. *)
StopKeepingFresh(W) ==
  /\ pc' = [w \in Workers |-> IF w \in W THEN "idle" ELSE pc[w]]
  /\ job' = [w \in Workers |-> IF w \in W THEN "none" ELSE job[w]]
  /\ slug' = [w \in Workers |-> IF w \in W THEN NoSlug ELSE slug[w]]
  /\ held' = [w \in Workers |-> IF w \in W THEN NoToken ELSE held[w]]
  /\ UNCHANGED fresh

(* The workers of W are done, and what they held is gone.                  *)
Stop(W) ==
  /\ pc' = [w \in Workers |-> IF w \in W THEN "idle" ELSE pc[w]]
  /\ job' = [w \in Workers |-> IF w \in W THEN "none" ELSE job[w]]
  /\ slug' = [w \in Workers |-> IF w \in W THEN NoSlug ELSE slug[w]]
  /\ held' = [w \in Workers |-> IF w \in W THEN NoToken ELSE held[w]]
  /\ fresh' = [w \in Workers |-> IF w \in W THEN NoToken ELSE fresh[w]]

(* Nobody else works with the credentials of s, unless overlaps are asked  *)
(* for.                                                                    *)
Alone(w, s) == Overlap \/ \A v \in Workers \ {w} : slug[v] # s

(* ensureLocked: an empty registry imports the activation it finds.        *)
Importing == Registered = {} /\ activation # NoToken
Ensured ==
  IF Importing
  THEN LET s == AutoName[activation.user]
       IN  [index |-> [index EXCEPT ![s] = activation.user],
            current |-> s,
            file |-> [file EXCEPT ![s] = activation]]
  ELSE [index |-> index, current |-> current, file |-> file]

(* restoreActivationLocked: what a failed commit of the index leaves in    *)
(* codely-creds.json, given the account and the files before it.           *)
Restored(prev, files, attempted) ==
  IF prev = NoSlug THEN NoToken
  ELSE IF files[prev] = NoToken THEN attempted ELSE files[prev]

Fails(part) ==
  /\ part \in Failing
  /\ faults > 0
  /\ faults' = faults - 1

(* A refresh answered: the token is used up, its successor is handed out.  *)
Successor(t) == [user |-> t.user, nr |-> issued + 1]
Rotate(t) ==
  /\ t \in live
  /\ issued < MaxTokens
  /\ issued' = issued + 1
  /\ live' = (live \ {t}) \cup {Successor(t)}
  /\ UNCHANGED unheard

-----------------------------------------------------------------------------
(* The transactions of the registry that activate an account.              *)

(* SaveAccountAutoSlug: a login or an import of user u.  A name that is    *)
(* taken by somebody else is never used.                                   *)
Login(u, s) ==
  LET t == [user |-> u, nr |-> issued + 1]
      before == Ensured
      files == [before.file EXCEPT ![s] = t]
  IN  /\ s \in Named[u]
      /\ index[s] \in {NoUser, u}
      /\ issued < MaxTokens
      /\ issued' = issued + 1
      /\ live' = live \cup {t}
      /\ \/ /\ file' = files
            /\ index' = [before.index EXCEPT ![s] = u]
            /\ current' = s
            /\ activation' = t
            /\ UNCHANGED faults
         \/ /\ Fails("login")
            /\ index' = before.index
            /\ current' = before.current
            /\ \/ file' = before.file /\ UNCHANGED activation  \* writeJSON
               \/ /\ file' = files            \* SaveCreds or saveIndex
                  /\ activation' \in {activation, Restored(current', files, t)}
      /\ UNCHANGED <<workerVars, unheard>>

(* ActivateAccount's critical section, for an account with a file.         *)
Switch(s) ==
  \/ /\ activation' = file[s]
     /\ index' = [index EXCEPT ![s] = file[s].user]
     /\ current' = s
     /\ UNCHANGED <<file, faults>>
  \/ /\ Fails("switch")        \* SaveCreds or saveIndex
     /\ activation' \in {activation, Restored(current, file, file[s])}
     /\ UNCHANGED <<index, current, file>>

Switched(s) == faults' = faults /\ current' = s

(* After it, outside the lock, the key is fetched in advance, which may    *)
(* take a refresh.                                                         *)
Prefetch(w, s) ==
  \/ Stop({w})
  \/ Alone(w, s) /\ Begin(w, "refresh", "activate", s, file[s])

ActivateAccount(w, s) ==
  /\ "activate" \in Jobs
  /\ pc[w] = "idle"
  /\ file[s] # NoToken
  /\ Switch(s)
  /\ IF Switched(s) THEN Prefetch(w, s) ELSE UNCHANGED workerVars
  /\ UNCHANGED upstreamVars

FirstOf(rest) ==
  IF rest = {} THEN NoSlug ELSE CHOOSE t \in rest : \A u \in rest : t <= u

(* RemoveAccount, up to the release of r.mu.                               *)
RemoveAccount(w, s) ==
  LET rest == Registered \ {s}
  IN  /\ "remove" \in Jobs
      /\ pc[w] = "idle"
      /\ index[s] # NoUser \/ file[s] # NoToken
      /\ KeepOne => rest # {}
      /\ index' = [index EXCEPT ![s] = NoUser]
      /\ file' = [file EXCEPT ![s] = NoToken]
      /\ IF current # s
         THEN UNCHANGED <<current, workerVars>>
         ELSE /\ current' = FirstOf(rest)
              /\ Begin(w, "cascade", "remove", current', NoToken)
      /\ UNCHANGED <<activation, upstreamVars, faults>>

(* After it: the first account left is activated; when there is none, or   *)
(* when that fails, codely-creds.json is deleted, without r.mu.            *)
Cascade(w) ==
  /\ pc[w] = "cascade"
  /\ \/ /\ slug[w] # NoSlug
        /\ file[slug[w]] # NoToken
        /\ Switch(slug[w])
        /\ Switched(slug[w])
        /\ Prefetch(w, slug[w])
     \/ /\ \/ slug[w] = NoSlug /\ UNCHANGED faults
           \/ slug[w] # NoSlug /\ file[slug[w]] = NoToken /\ UNCHANGED faults
           \/ slug[w] # NoSlug /\ Fails("switch")
        /\ activation' = NoToken
        /\ Stop({w})
        /\ UNCHANGED <<index, current, file>>
  /\ UNCHANGED upstreamVars

-----------------------------------------------------------------------------
(* Refreshes.  Calls for the same token share one flight, and so do those  *)
(* a key or a quota makes for the same account: the leader asks the        *)
(* upstream, whoever joined in time gets the leader's result.              *)

(* RefreshAPIKey or a quota fetch loads the account's own credentials and  *)
(* finds them expired, or FetchAPIKey does ("fetch"), with which no call   *)
(* for the account shares a flight.                                        *)
Load(w, s, j) ==
  /\ j \in Jobs \cap Refreshers
  /\ pc[w] = "idle"
  /\ file[s] # NoToken
  /\ Alone(w, s)
  /\ Begin(w, "refresh", j, s, file[s])
  /\ UNCHANGED <<diskVars, upstreamVars, faults>>

(* RefreshAccessToken loads the active account's credentials.              *)
LoadActivation(w) ==
  /\ "global" \in Jobs
  /\ pc[w] = "idle"
  /\ activation # NoToken
  /\ Begin(w, "refresh", "global", NoSlug, activation)
  /\ UNCHANGED <<diskVars, upstreamVars, faults>>

(* The flight of token h comes to its end with joiners J: RefreshAccess-   *)
(* Token returns, the others go on to persist the result.                  *)
Land(J, h, t) ==
  LET idle == {v \in J : job[v] = "global"}
  IN  /\ pc' = [v \in Workers |-> IF v \in idle THEN "idle"
                                  ELSE IF v \in J THEN "persist" ELSE pc[v]]
      /\ job' = [v \in Workers |-> IF v \in idle THEN "none" ELSE job[v]]
      /\ held' = [v \in Workers |-> IF v \in idle THEN NoToken
                                    ELSE IF v \in J THEN h ELSE held[v]]
      /\ fresh' = [v \in Workers |-> IF v \in idle THEN NoToken
                                     ELSE IF v \in J THEN t ELSE fresh[v]]
      /\ UNCHANGED slug

(* Whoever may be in one flight with w: tokenRefreshFlight goes by token,  *)
(* refreshFlight, on top of it, by account.                                *)
Waiting(w) ==
  LET byToken == {v \in Workers : pc[v] = "refresh" /\ held[v] = held[w]}
      accounts == {slug[v] : v \in {u \in byToken : job[u] \in Flown}}
  IN  byToken \cup {v \in Workers : /\ pc[v] = "refresh" /\ job[v] \in Flown
                                    /\ slug[v] \in accounts}

(* A leader that refreshes one account: RefreshAccessTokenFor.             *)
RefreshAccount(w) ==
  /\ pc[w] = "refresh"
  /\ job[w] # "global"
  /\ Rotate(held[w])
  /\ \E J \in SUBSET Waiting(w) :
       w \in J /\ Land(J, held[w], Successor(held[w]))
  /\ UNCHANGED <<diskVars, faults>>

(* A leader of refreshCredsFile: what it does up to the answer.  The rest  *)
(* of it, too, comes before the joiners' return.                           *)
RefreshActivation(w) ==
  /\ pc[w] = "refresh"
  /\ job[w] = "global"
  /\ activation = held[w]
  /\ Rotate(held[w])
  /\ \E J \in SUBSET (Waiting(w) \ {w}) :
       /\ pc' = [v \in Workers |-> IF v = w THEN "check"
                                   ELSE IF v \in J THEN "joined" ELSE pc[v]]
       /\ held' = [v \in Workers |-> IF v \in J THEN held[w] ELSE held[v]]
  /\ fresh' = [fresh EXCEPT ![w] = Successor(held[w])]
  /\ UNCHANGED <<diskVars, faults, job, slug>>

(* The upstream rotates the token, but the answer is lost, or cannot be    *)
(* read or parsed: the only copy of the successor is gone.                 *)
AnswerLost(w) ==
  /\ Fails("answer")
  /\ held[w] \in live
  /\ job[w] = "global" => activation = held[w]
  /\ live' = live \ {held[w]}
  /\ unheard' = unheard \cup {held[w]}
  /\ UNCHANGED issued

(* The refresh fails: the token was used up, the activation has changed,   *)
(* the upstream cannot be reached, or its answer does not arrive.          *)
RefreshFails(w) ==
  /\ pc[w] = "refresh"
  /\ AnswerLost(w) \/ UNCHANGED <<upstreamVars, faults>>
  /\ Stop({w})
  /\ UNCHANGED diskVars

-----------------------------------------------------------------------------
(* persistCreds, and the end of ActivateAccount.                           *)

(* Mutants of SyncRotatedCreds: only the active account's are written; the *)
(* account is saved whether or not it is registered.                       *)
SyncRotatedOfCurrent(s, t) ==
  IF s \in Registered /\ s = current
  THEN /\ index' = [index EXCEPT ![s] = t.user]
       /\ file' = [file EXCEPT ![s] = t]
  ELSE UNCHANGED <<index, file>>
SyncRotatedUpserts(s, t) ==
  /\ index' = [index EXCEPT ![s] = t.user]
  /\ file' = [file EXCEPT ![s] = t]

(* The rotated credentials are written to the account's file only while it *)
(* is registered; the entry takes over their identity.                     *)
SyncRotatedCreds(s, t) ==
  IF s \in Registered
  THEN /\ index' = [index EXCEPT ![s] = t.user]
       /\ file' = [file EXCEPT ![s] = t]
  ELSE UNCHANGED <<index, file>>

Persist(w) ==
  LET again == job[w] \in Refreshers /\ pc[w] = "persist"
               /\ slug[w] \notin Registered
  IN  /\ pc[w] \in {"persist", "retry"}
      /\ SyncRotatedCreds(slug[w], fresh[w])
      /\ Goto(w, IF again THEN "retry" ELSE "ask")
      /\ UNCHANGED <<current, activation, upstreamVars, faults, job, slug,
                     held, fresh>>

(* The job is over, or the new access token does not fetch a key either    *)
(* and is refreshed in its turn.                                           *)
Conclude(w) ==
  \/ Stop({w})
  \/ /\ job[w] = "key"
     /\ Begin(w, "refresh", "fetch", slug[w], fresh[w])

(* Any other transaction that begins with ensureLocked: the WebUI's        *)
(* ListAccounts and GetCurrentMeta, the GetCurrentName of a request.       *)
Look ==
  /\ "look" \in Jobs
  /\ Importing
  /\ index' = Ensured.index
  /\ current' = Ensured.current
  /\ file' = Ensured.file
  /\ UNCHANGED <<activation, upstreamVars, faults, workerVars>>

(* GetCurrentName() = slug?                                                *)
AskCurrent(w) ==
  /\ pc[w] = "ask"
  /\ index' = Ensured.index
  /\ current' = Ensured.current
  /\ file' = Ensured.file
  /\ IF current' = slug[w]
     THEN Goto(w, "align") /\ UNCHANGED <<job, slug, held, fresh>>
     ELSE Conclude(w)
  /\ UNCHANGED <<activation, upstreamVars, faults>>

(* Mutants of SyncActivationCreds: the answer of GetCurrentName is trusted; *)
(* the activation is left to the global refresh.                           *)
SyncActivationUnchecked(s, t) == activation' = t
SyncActivationNever(s, t) == UNCHANGED activation

(* The active account is compared again, under the lock that writes.       *)
SyncActivationCreds(s, t) ==
  activation' = IF current = s THEN t ELSE activation

Align(w) ==
  /\ pc[w] = "align"
  /\ SyncActivationCreds(slug[w], fresh[w])
  /\ Conclude(w)
  /\ UNCHANGED <<index, current, file, upstreamVars, faults>>

-----------------------------------------------------------------------------
(* The rest of refreshCredsFile, which never holds r.mu across two steps.  *)

Joined(w) == {v \in Workers : pc[v] = "joined" /\ held[v] = held[w]}

(* SaveCredsIfUnchanged reads codely-creds.json ...                        *)
CheckActivation(w) ==
  /\ pc[w] = "check"
  /\ Goto(w, IF activation = held[w] THEN "write" ELSE "rescue")
  /\ UNCHANGED <<diskVars, upstreamVars, faults, job, slug, held, fresh>>

(* ... and writes it.                                                      *)
WriteActivation(w) ==
  /\ pc[w] = "write"
  /\ activation' = fresh[w]
  /\ Goto(w, "report")
  /\ UNCHANGED <<index, current, file, upstreamVars, faults, job, slug, held,
                 fresh>>

(* Mutant of SyncCurrent: whoever the activation belongs to.               *)
SyncCurrentOfAnyone ==
  file' = IF current # NoSlug /\ activation # NoToken
          THEN [file EXCEPT ![current] = activation] ELSE file

(* SyncCurrentFromActivation: the account's file follows codely-creds.json *)
(* unless they belong to different users.                                  *)
SyncCurrent ==
  file' = IF /\ current # NoSlug
             /\ activation # NoToken
             /\ file[current] # NoToken => file[current].user = activation.user
          THEN [file EXCEPT ![current] = activation] ELSE file

ReportRefreshed(w) ==
  /\ pc[w] = "report"
  /\ SyncCurrent
  /\ Land({w} \cup Joined(w), held[w], fresh[w])
  /\ UNCHANGED <<index, current, activation, upstreamVars, faults>>

(* OnRotationRejected = SyncCredsByIdentity: some account of that user.    *)
RescueRotation(w) ==
  LET own == {s \in Registered : index[s] = fresh[w].user}
  IN  /\ pc[w] = "rescue"
      /\ \/ own = {} /\ UNCHANGED file
         \/ \E s \in own : file' = [file EXCEPT ![s] = fresh[w]]
      /\ Land({w} \cup Joined(w), held[w], fresh[w])
      /\ UNCHANGED <<index, current, activation, upstreamVars, faults>>

-----------------------------------------------------------------------------
(* The process is killed inside one of the transactions.  A write is all   *)
(* or nothing (internal/atomicfile), so each leaves a prefix of its writes. *)

(* saveAccountLocked: the account's file, the activation, the index.       *)
CutLogin ==
  \E u \in Users : \E s \in Named[u] :
    LET t == [user |-> u, nr |-> issued + 1]
    IN  /\ index[s] \in {NoUser, u}
        /\ issued < MaxTokens
        /\ issued' = issued + 1
        /\ live' = live \cup {t}
        /\ UNCHANGED unheard
        /\ file' = [Ensured.file EXCEPT ![s] = t]
        /\ index' = Ensured.index
        /\ current' = Ensured.current
        /\ activation' \in {activation, t}

(* ActivateAccount: the activation, the index.                             *)
CutSwitch ==
  /\ "activate" \in Jobs
  /\ \E s \in Slugs : file[s] # NoToken /\ activation' = file[s]
  /\ UNCHANGED <<index, current, file, upstreamVars>>

(* RemoveAccount: the index, the account's file.                           *)
CutRemoval ==
  /\ "remove" \in Jobs
  /\ \E s \in Registered :
       /\ KeepOne => Registered # {s}
       /\ index' = [index EXCEPT ![s] = NoUser]
       /\ current' = IF current = s THEN FirstOf(Registered \ {s}) ELSE current
  /\ UNCHANGED <<file, activation, upstreamVars>>

(* ensureLocked: the index, the account's file.                            *)
CutImport ==
  /\ Importing
  /\ index' = Ensured.index
  /\ current' = Ensured.current
  /\ UNCHANGED <<file, activation, upstreamVars>>

(* SyncRotatedCreds: the account's file, the index.                        *)
CutPersist ==
  /\ \E w \in Workers :
       /\ pc[w] \in {"persist", "retry"} /\ slug[w] \in Registered
       /\ file' = [file EXCEPT ![slug[w]] = fresh[w]]
  /\ UNCHANGED <<index, current, activation, upstreamVars>>

(* Killed there or between transactions, it starts again with the files.   *)
Crash ==
  /\ Fails("crash")
  /\ \/ CutLogin \/ CutSwitch \/ CutRemoval \/ CutImport \/ CutPersist
     \/ UNCHANGED <<diskVars, upstreamVars>>
  /\ Stop(Workers)

-----------------------------------------------------------------------------
Administer(w) ==
  \/ \E s \in Slugs : ActivateAccount(w, s)
  \/ \E s \in Slugs : RemoveAccount(w, s)
  \/ Cascade(w)

Refresh(w) ==
  \/ \E s \in Slugs, j \in Refreshers : Load(w, s, j)
  \/ LoadActivation(w)
  \/ RefreshAccount(w)
  \/ RefreshActivation(w)
  \/ RefreshFails(w)
  \/ Persist(w)
  \/ AskCurrent(w)
  \/ Align(w)
  \/ CheckActivation(w)
  \/ WriteActivation(w)
  \/ ReportRefreshed(w)
  \/ RescueRotation(w)

(* There is an account of that name, or something is left of one.          *)
InUse(s) ==
  index[s] # NoUser \/ file[s] # NoToken \/ \E w \in Workers : slug[w] = s

Next ==
  /\ \/ \E u \in Users, s \in Slugs : Login(u, s)
     \/ \E w \in Workers : Administer(w) \/ Refresh(w)
     \/ Look \/ Crash
  /\ unwritten' = {s \in Registered' : file'[s] = NoToken}
                  \cup {s \in unwritten : InUse(s)'}

Spec == Init /\ [][Next]_vars

-----------------------------------------------------------------------------
(* Properties.                                                             *)

(* codely-creds.json always belongs to the account the registry calls      *)
(* current: whatever is refreshed, switched or removed meanwhile and even  *)
(* if one write fails, nobody's rotated credentials end up as somebody     *)
(* else's activation.  While a removal is being completed the removed      *)
(* account's credentials are still there; a failed one leaves none.        *)
ActivationFollowsCurrent ==
  (\A w \in Workers : pc[w] # "cascade") =>
    \/ activation = NoToken
    \/ current # NoSlug /\ index[current] = activation.user

(* The file of a registered account is its own user's, whatever is under   *)
(* way, fails or is cut short by a crash.  Not so for an import that is    *)
(* killed between its writes: an entry without a file is later given that  *)
(* of whoever is activated (SyncCurrent), and a goroutine that loaded it   *)
(* may write it to the next account of that name.                          *)
FilesOwnIdentity ==
  \A s \in Registered \ unwritten : file[s].user = index[s]

(* Nobody is at work with a user's credentials.                            *)
AtRest(u) == \A w \in Workers : held[w] = NoToken \/ held[w].user # u

(* Tokens that are as good as the proxy can know.                          *)
Good == live \cup unheard

(* No rotation the proxy was told of is lost: once nobody is at work with  *)
(* a user's credentials, the refresh token in the account's file is one    *)
(* the upstream still accepts, so the account need not be logged in again. *)
(* Only an answer that never arrived can put an end to that.               *)
AccountsUsable ==
  \A s \in Registered : AtRest(index[s]) => file[s] \in Good

(* Nor does the copy of the active account fall behind: at rest its token  *)
(* is accepted, too, and /quota and the global refresh go on working.      *)
ActivationUsable ==
  /\ \A w \in Workers : pc[w] # "cascade"
  /\ current # NoSlug /\ activation # NoToken
  /\ index[current] = activation.user
  /\ AtRest(activation.user)
  => activation \in Good

(* A removed account is gone: its credentials only come back with a login, *)
(* never from a refresh that was under way when it was removed.            *)
NoResurrection ==
  [][\A s \in Slugs :
       file[s] = NoToken /\ file'[s] # NoToken => issued' > issued]_vars
=============================================================================
