---------------------------- MODULE ProxyHandler ----------------------------
(***************************************************************************)
(* The life of /v1 requests in internal/proxy/handler.go: the retry loop   *)
(* over accounts, Balancer.Pick as the sequence of critical sections it    *)
(* really is, the at most two upstream attempts per account, and the       *)
(* client that may disconnect at any moment.  Requests run concurrently    *)
(* with each other and with everything Balancer!Administer does.           *)
(*                                                                         *)
(* What the upstream answers and whether a key can be had are choices of   *)
(* the environment.  Bodies, headers, log lines and error texts are left   *)
(* out; a streamed response is one "piping" phase.                         *)
(***************************************************************************)
EXTENDS Balancer

CONSTANTS
  Requests,     (* Concurrent requests; each serves one after the other.   *)
  TryCap,       (* maxTries' upper limit (3 in the code).                  *)
  Pins          (* What x-codely-account may name; NoSlug: header absent.  *)

ASSUME PinsAssumption == Pins \subseteq Slugs \cup {NoSlug}

ASSUME TryCapAssumption == TryCap \in Nat \ {0}

VARIABLES
  pc,           (* pc[r]: where r stands in handle and Pick.               *)
  pinned,       (* x-codely-account, or NoSlug.                            *)
  gone,         (* The request context is cancelled.                       *)
  budget,       (* maxTries.                                               *)
  acctTry,      (* The outer loop's counter.                               *)
  attempt,      (* The inner loop's counter: 0, then 1 after RetryKey.     *)
  acct,         (* state.Slug.                                             *)
  excluded,     (* Accounts that failed in this request.                   *)
  known,        (* Pick's list of slugs, between ListSlugs and its use.    *)
  name,         (* Pick's current account, between GetCurrentName and use. *)
  byQuota,      (* Pick's snapshot of cfg.Mode = "quota-first".            *)
  cands,        (* Pick's candidates while their quotas are fetched.       *)
  outcome,      (* How the request ended, "none" before.                   *)
  tried,        (* History: accounts Pick returned to this request.        *)
  sends,        (* History: sends[r][s], upstream requests sent to s.      *)
  refused       (* History: accounts that answered 401/403 for their key.  *)

pickVars == <<known, name, byQuota, cands>>
loopVars == <<budget, acctTry, excluded>>
clientVars == <<pinned, gone>>
historyVars == <<tried, sends, refused>>
requestVars == <<pc, clientVars, loopVars, attempt, acct, pickVars, outcome,
                 historyVars>>
vars == <<balancerVars, requestVars>>

Picking == {"list", "sync", "config", "pinOn", "pinOff", "current",
            "useCurrent", "candidates", "rank", "fallback", "useFallback",
            "listFallback", "scan"}
Reading == {"readKey", "readQuota"}
Answered == {"retryKey", "quota", "denied", "ok", "error"}
Sent == {"upload", "await"} \cup Reading \cup Answered
Using == {"key", "send"} \cup Sent
Ended == {"piping", "done"}
Points == {"idle"} \cup Picking \cup Using \cup Ended
Outcomes == {"rejected", "noAccount", "quota", "denied", "ok", "aborted",
             "exhausted"}

RequestTypeOK ==
  /\ pc \in [Requests -> Points]
  /\ pinned \in [Requests -> Slugs \cup {NoSlug}]
  /\ gone \in [Requests -> BOOLEAN]
  /\ budget \in [Requests -> 0 .. TryCap]
  /\ acctTry \in [Requests -> 0 .. TryCap]
  /\ attempt \in [Requests -> 0 .. 1]
  /\ acct \in [Requests -> Slugs \cup {NoSlug}]
  /\ excluded \in [Requests -> SUBSET Slugs]
  /\ known \in [Requests -> SUBSET Slugs]
  /\ name \in [Requests -> Slugs \cup {NoSlug}]
  /\ byQuota \in [Requests -> BOOLEAN]
  /\ cands \in [Requests -> SUBSET Slugs]
  /\ outcome \in [Requests -> Outcomes \cup {"none"}]
  /\ tried \in [Requests -> SUBSET Slugs]
  /\ sends \in [Requests -> [Slugs -> Nat]]
  /\ refused \in [Requests -> SUBSET Slugs]

TypeOK == BalancerTypeOK /\ RequestTypeOK

Init ==
  /\ BalancerInit
  /\ pc = [r \in Requests |-> "idle"]
  /\ pinned = [r \in Requests |-> NoSlug]
  /\ gone = [r \in Requests |-> FALSE]
  /\ budget = [r \in Requests |-> 0]
  /\ acctTry = [r \in Requests |-> 0]
  /\ attempt = [r \in Requests |-> 0]
  /\ acct = [r \in Requests |-> NoSlug]
  /\ excluded = [r \in Requests |-> {}]
  /\ known = [r \in Requests |-> {}]
  /\ name = [r \in Requests |-> NoSlug]
  /\ byQuota = [r \in Requests |-> FALSE]
  /\ cands = [r \in Requests |-> {}]
  /\ outcome = [r \in Requests |-> "none"]
  /\ tried = [r \in Requests |-> {}]
  /\ sends = [r \in Requests |-> [s \in Slugs |-> 0]]
  /\ refused = [r \in Requests |-> {}]

-----------------------------------------------------------------------------
(* Moves shared by the actions below.                                      *)

Goto(r, to) == pc' = [pc EXCEPT ![r] = to]

(* The loop over attempts is left: its counter and the account are gone.   *)
LeaveAccount(r) ==
  /\ acct' = [acct EXCEPT ![r] = NoSlug]
  /\ attempt' = [attempt EXCEPT ![r] = 0]

Finish(r, o) ==
  /\ outcome' = [outcome EXCEPT ![r] = o]
  /\ Goto(r, IF o = "ok" THEN "piping" ELSE "done")
  /\ LeaveAccount(r)

(* Mutant of Exclude: the failed account is forgotten.                     *)
ExcludeNobody(r) == UNCHANGED excluded

Exclude(r) == excluded' = [excluded EXCEPT ![r] = @ \cup {acct[r]}]

(* Mutant of NextAccount: one round too many.                              *)
NextAccountInclusive(r) ==
  /\ IF acctTry[r] + 1 <= budget[r]
     THEN /\ Goto(r, "list")
          /\ acctTry' = [acctTry EXCEPT ![r] = @ + 1]
          /\ LeaveAccount(r)
          /\ UNCHANGED outcome
     ELSE Finish(r, "exhausted") /\ UNCHANGED acctTry

(* The rest of the outer loop's body is skipped; its counter decides.      *)
NextAccount(r) ==
  /\ IF acctTry[r] + 1 < budget[r]
     THEN /\ Goto(r, "list")
          /\ acctTry' = [acctTry EXCEPT ![r] = @ + 1]
          /\ LeaveAccount(r)
          /\ UNCHANGED outcome
     ELSE Finish(r, "exhausted") /\ UNCHANGED acctTry

(* Pick returns s, and its locals are gone.                                *)
Choose(r, s) ==
  /\ acct' = [acct EXCEPT ![r] = s]
  /\ byQuota' = [byQuota EXCEPT ![r] = FALSE]
  /\ tried' = [tried EXCEPT ![r] = @ \cup {s}]
  /\ Goto(r, "key")

-----------------------------------------------------------------------------
(* The request up to the loop.                                             *)

(* Wrong client key, or image blocks on the Anthropic path.                *)
Reject(r) ==
  /\ pc[r] = "idle"
  /\ Finish(r, "rejected")
  /\ UNCHANGED <<balancerVars, clientVars, loopVars, pickVars, historyVars>>

(* maxTries is the number of accounts, at most TryCap and at least 1.      *)
Accept(r) ==
  LET n == Cardinality(registered)
  IN  /\ pc[r] = "idle"
      /\ \E p \in Pins : pinned' = [pinned EXCEPT ![r] = p]
      /\ budget' = [budget EXCEPT ![r] = IF n > TryCap THEN TryCap
                                         ELSE IF n < 1 THEN 1 ELSE n]
      /\ Goto(r, "list")
      /\ UNCHANGED <<balancerVars, gone, acctTry, excluded, attempt, acct,
                     pickVars, outcome, historyVars>>

-----------------------------------------------------------------------------
(* Balancer.Pick.                                                          *)

ListSlugs(r) ==
  /\ pc[r] = "list"
  /\ known' = [known EXCEPT ![r] = registered]
  /\ Goto(r, "sync")
  /\ UNCHANGED <<balancerVars, clientVars, loopVars, attempt, acct, name,
                 byQuota, cands, outcome, historyVars>>

Synchronize(r) ==
  /\ pc[r] = "sync"
  /\ SyncPool(known[r])
  /\ known' = [known EXCEPT ![r] = {}]
  /\ Goto(r, "config")
  /\ UNCHANGED <<registryVars, config, rrIndex, adminVars, clientVars,
                 loopVars, attempt, acct, name, byQuota, cands, outcome,
                 historyVars>>

(* GetConfig: the snapshot says whether the pinned account may be used (it *)
(* may be cooling, but not disabled) and where to look otherwise.          *)
ReadConfig(r) ==
  /\ pc[r] = "config"
  /\ IF pinned[r] \in Slugs \ (excluded[r] \cup config.disabled)
     THEN Goto(r, IF config.enabled THEN "pinOn" ELSE "pinOff")
     ELSE Goto(r, IF config.enabled THEN "candidates" ELSE "current")
  /\ byQuota' = [byQuota EXCEPT ![r] = config.mode = "quota-first"]
  /\ UNCHANGED <<balancerVars, clientVars, loopVars, attempt, acct, known,
                 name, cands, outcome, historyVars>>

(* The pinned account's state is looked up, whatever the configuration is  *)
(* by then.                                                                *)
UsePinned(r) ==
  /\ pc[r] \in {"pinOn", "pinOff"}
  /\ IF pinned[r] \in pool
     THEN Choose(r, pinned[r])
     ELSE /\ Goto(r, IF pc[r] = "pinOn" THEN "candidates" ELSE "current")
          /\ UNCHANGED <<acct, tried, byQuota>>
  /\ UNCHANGED <<balancerVars, clientVars, loopVars, attempt, known, name,
                 cands, outcome, sends, refused>>

(* GetCurrentName, with load balancing off or as the fallback; an empty    *)
(* registry may import an account first.                                   *)
ReadCurrent(r) ==
  /\ pc[r] \in {"current", "fallback"}
  /\ ImportActivation \/ UNCHANGED registryVars
  /\ name' = [name EXCEPT ![r] = current']
  /\ Goto(r, IF pc[r] = "current" THEN "useCurrent" ELSE "useFallback")
  /\ UNCHANGED <<poolVars, config, rrIndex, adminVars, clientVars, loopVars,
                 attempt, acct, known, byQuota, cands, outcome, historyVars>>

UseCurrent(r) ==
  /\ pc[r] \in {"useCurrent", "useFallback"}
  /\ IF name[r] \in pool \ excluded[r]
     THEN Choose(r, name[r])
     ELSE /\ Goto(r, IF pc[r] = "useCurrent" THEN "candidates"
                     ELSE "listFallback")
          /\ UNCHANGED <<acct, tried, byQuota>>
  /\ name' = [name EXCEPT ![r] = NoSlug]
  /\ UNCHANGED <<balancerVars, clientVars, loopVars, attempt, known, cands,
                 outcome, sends, refused>>

FindCandidates(r) ==
  LET available == Candidates(excluded[r])
  IN  /\ pc[r] = "candidates"
      /\ \/ /\ available = {}
            /\ Goto(r, "fallback")
            /\ UNCHANGED <<acct, tried, byQuota, cands>>
         \/ /\ \E s \in available : available = {s} /\ Choose(r, s)
            /\ UNCHANGED cands
         \/ /\ Cardinality(available) > 1
            /\ Goto(r, "rank")
            /\ cands' = [cands EXCEPT ![r] = available]
            /\ UNCHANGED <<acct, tried, byQuota>>
      /\ UNCHANGED <<balancerVars, clientVars, loopVars, attempt, known, name,
                     outcome, sends, refused>>

(* The quota snapshots say who has today's allowance and who has bought    *)
(* points; without quota-first nobody is asked.                            *)
Rank(r) ==
  /\ pc[r] = "rank"
  /\ \E daily, billing \in SUBSET cands[r] :
       /\ ~byQuota[r] => daily = {} /\ billing = {}
       /\ \E s \in cands[r] :
            /\ TakeTurn(s, QuotaTier(cands[r], daily, billing))
            /\ Choose(r, s)
  /\ cands' = [cands EXCEPT ![r] = {}]
  /\ UNCHANGED <<registryVars, poolVars, config, adminVars, clientVars,
                 loopVars, attempt, known, name, outcome, sends, refused>>

ListFallback(r) ==
  /\ pc[r] = "listFallback"
  /\ known' = [known EXCEPT ![r] = registered]
  /\ Goto(r, "scan")
  /\ UNCHANGED <<balancerVars, clientVars, loopVars, attempt, acct, name,
                 byQuota, cands, outcome, historyVars>>

(* The first slug, in sort order, that is pooled and has not failed; the   *)
(* loop's lookups of the pool are taken as one.                            *)
Scan(r) ==
  LET usable == (known[r] \cap pool) \ excluded[r]
  IN  /\ pc[r] = "scan"
      /\ IF usable = {}
         THEN /\ Finish(r, "noAccount")
              /\ byQuota' = [byQuota EXCEPT ![r] = FALSE]
              /\ UNCHANGED tried
         ELSE /\ \E s \in usable : (\A t \in usable : s <= t) /\ Choose(r, s)
              /\ UNCHANGED <<attempt, outcome>>
      /\ known' = [known EXCEPT ![r] = {}]
      /\ UNCHANGED <<balancerVars, clientVars, loopVars, name, cands, sends,
                     refused>>

-----------------------------------------------------------------------------
(* One account: its key, then at most two attempts.                        *)

HaveKey(r) ==
  /\ pc[r] = "key"
  /\ attempt' = [attempt EXCEPT ![r] = 0]
  /\ Goto(r, "send")
  /\ UNCHANGED <<balancerVars, clientVars, loopVars, acct, pickVars, outcome,
                 historyVars>>

(* Mutant of NoKey: the loop goes on without excluding or counting the     *)
(* account (a bare continue).                                              *)
NoKeyUncounted(r) ==
  /\ pc[r] = "key"
  /\ MarkFailure(acct[r], FALSE)
  /\ LeaveAccount(r)
  /\ Goto(r, "list")
  /\ UNCHANGED <<registryVars, pool, config, rrIndex, adminVars, clientVars,
                 loopVars, pickVars, outcome, historyVars>>

(* GetAPIKey fails.  The error text may hold one of the words MarkFailure  *)
(* takes for an exhausted quota.                                           *)
NoKey(r) ==
  /\ pc[r] = "key"
  /\ \E worded \in BOOLEAN : MarkFailure(acct[r], worded)
  /\ Exclude(r)
  /\ NextAccount(r)
  /\ UNCHANGED <<registryVars, pool, config, rrIndex, adminVars, clientVars,
                 budget, pickVars, historyVars>>

(* Client.Do begins, or returns at once when the context is cancelled.     *)
Send(r) ==
  /\ pc[r] = "send"
  /\ IF gone[r]
     THEN Goto(r, "error") /\ UNCHANGED sends
     ELSE Goto(r, "upload") /\ sends' = [sends EXCEPT ![r][acct[r]] = @ + 1]
  /\ UNCHANGED <<balancerVars, clientVars, loopVars, attempt, acct, pickVars,
                 outcome, tried, refused>>

(* What moves r inside Client.Do and AttemptForward and nothing else.      *)
Advance(r, to) ==
  /\ Goto(r, to)
  /\ UNCHANGED <<balancerVars, clientVars, loopVars, attempt, acct, pickVars,
                 outcome, historyVars>>

(* The connection is there and the upstream has taken the request in.      *)
TakenIn(r) == pc[r] = "upload" /\ Advance(r, "await")

(* Client.Do fails: no connection, no headers in time, a cancelled context.*)
TransportFails(r) == pc[r] \in {"upload", "await"} /\ Advance(r, "error")

(* The headers are there.  The body of a 401/403 and of a 402/429 is read  *)
(* before the handler sees anything; any other status is KindOK.           *)
Headers(r) == pc[r] = "await" /\ \E to \in Reading \cup {"ok"} : Advance(r, to)

(* The body, or what there was of it when the connection broke off, tells  *)
(* a refused key from a refused model.                                     *)
ReadErrorBody(r) ==
  \/ pc[r] = "readKey" /\ \E to \in {"retryKey", "denied"} : Advance(r, to)
  \/ pc[r] = "readQuota" /\ Advance(r, "quota")

(* KindRetryKey: a 401/403 that is not about the model.  The key is        *)
(* refreshed, with whatever result, and the attempt repeated once.         *)
ReplyRetryKey(r) ==
  /\ pc[r] = "retryKey"
  /\ Exclude(r)
  /\ refused' = [refused EXCEPT ![r] = @ \cup {acct[r]}]
  /\ IF attempt[r] = 0
     THEN /\ attempt' = [attempt EXCEPT ![r] = 1]
          /\ Goto(r, "send")
          /\ UNCHANGED <<acctTry, acct, outcome>>
     ELSE NextAccount(r)
  /\ UNCHANGED <<balancerVars, clientVars, budget, pickVars, tried, sends>>

(* Is there another account to go on to with a 402/429?                    *)
FailsOver(r) == pinned[r] = NoSlug /\ acctTry[r] < budget[r] - 1

(* Mutant of ReplyQuota: only an account that is left behind is cooled.    *)
ReplyQuotaCoolsOnFailover(r) ==
  /\ pc[r] = "quota"
  /\ IF FailsOver(r)
     THEN MarkFailure(acct[r], TRUE) /\ Exclude(r) /\ NextAccount(r)
     ELSE Finish(r, "quota") /\ UNCHANGED <<cooling, excluded, acctTry>>
  /\ UNCHANGED <<registryVars, pool, config, rrIndex, adminVars, clientVars,
                 budget, pickVars, historyVars>>

(* Mutant of ReplyQuota: a bare break leaves the switch only, and the loop *)
(* over attempts goes on with the account that has just failed.            *)
ReplyQuotaBareBreak(r) ==
  /\ pc[r] = "quota"
  /\ MarkFailure(acct[r], TRUE)
  /\ IF FailsOver(r)
     THEN /\ Exclude(r)
          /\ IF attempt[r] = 0
             THEN /\ attempt' = [attempt EXCEPT ![r] = 1]
                  /\ Goto(r, "send")
                  /\ UNCHANGED <<acctTry, acct, outcome>>
             ELSE NextAccount(r)
     ELSE Finish(r, "quota") /\ UNCHANGED <<excluded, acctTry>>
  /\ UNCHANGED <<registryVars, pool, config, rrIndex, adminVars, clientVars,
                 budget, pickVars, historyVars>>

(* KindQuotaRateLimit: 402/429 always cools the account; the reply itself  *)
(* is passed on when the client pinned an account or none is left to try.  *)
ReplyQuota(r) ==
  /\ pc[r] = "quota"
  /\ MarkFailure(acct[r], TRUE)
  /\ IF FailsOver(r)
     THEN Exclude(r) /\ NextAccount(r)
     ELSE Finish(r, "quota") /\ UNCHANGED <<excluded, acctTry>>
  /\ UNCHANGED <<registryVars, pool, config, rrIndex, adminVars, clientVars,
                 budget, pickVars, historyVars>>

(* KindModelDenied and KindOK end the loop, whoever is still listening.    *)
ReplyFinal(r) ==
  /\ pc[r] \in {"denied", "ok"}
  /\ Finish(r, pc[r])
  /\ UNCHANGED <<balancerVars, clientVars, loopVars, pickVars, historyVars>>

(* Mutant of ReplyError: nobody asks whether the client has gone.          *)
ReplyErrorUnasked(r) ==
  /\ pc[r] = "error"
  /\ \E worded \in BOOLEAN : MarkFailure(acct[r], worded)
  /\ Exclude(r)
  /\ NextAccount(r)
  /\ UNCHANGED <<registryVars, pool, config, rrIndex, adminVars, clientVars,
                 budget, pickVars, historyVars>>

(* KindError: the transport failed.  When the client has disconnected by   *)
(* now that is the reason: no mark, no failover, nothing written.          *)
ReplyError(r) ==
  /\ pc[r] = "error"
  /\ IF gone[r]
     THEN Finish(r, "aborted") /\ UNCHANGED <<cooling, excluded, acctTry>>
     ELSE /\ \E worded \in BOOLEAN : MarkFailure(acct[r], worded)
          /\ Exclude(r)
          /\ NextAccount(r)
  /\ UNCHANGED <<registryVars, pool, config, rrIndex, adminVars, clientVars,
                 budget, pickVars, historyVars>>

(* pipeResponse comes to its end, one way or another.                      *)
PipeEnds(r) ==
  /\ pc[r] = "piping"
  /\ Goto(r, "done")
  /\ UNCHANGED <<balancerVars, clientVars, loopVars, attempt, acct, pickVars,
                 outcome, historyVars>>

-----------------------------------------------------------------------------
(* The client.                                                             *)

(* The request context is consulted by Client.Do, by the reading of a body *)
(* and once after them, so a client that left earlier is one that leaves   *)
(* right before the send.                                                  *)
Disconnect(r) ==
  /\ pc[r] \in {"send"} \cup Sent
  /\ ~gone[r]
  /\ gone' = [gone EXCEPT ![r] = TRUE]
  /\ UNCHANGED <<balancerVars, pc, pinned, loopVars, attempt, acct, pickVars,
                 outcome, historyVars>>

(* handle returns and its locals are gone.                                 *)
Return(r) ==
  /\ pc[r] = "done"
  /\ Goto(r, "idle")
  /\ pinned' = [pinned EXCEPT ![r] = NoSlug]
  /\ gone' = [gone EXCEPT ![r] = FALSE]
  /\ budget' = [budget EXCEPT ![r] = 0]
  /\ acctTry' = [acctTry EXCEPT ![r] = 0]
  /\ excluded' = [excluded EXCEPT ![r] = {}]
  /\ outcome' = [outcome EXCEPT ![r] = "none"]
  /\ tried' = [tried EXCEPT ![r] = {}]
  /\ sends' = [sends EXCEPT ![r] = [s \in Slugs |-> 0]]
  /\ refused' = [refused EXCEPT ![r] = {}]
  /\ UNCHANGED <<balancerVars, attempt, acct, pickVars>>

-----------------------------------------------------------------------------

(* What the goroutine of r does on its own once a request is accepted.     *)
Pick(r) ==
  \/ ListSlugs(r)
  \/ Synchronize(r)
  \/ ReadConfig(r)
  \/ UsePinned(r)
  \/ ReadCurrent(r)
  \/ UseCurrent(r)
  \/ FindCandidates(r)
  \/ Rank(r)
  \/ ListFallback(r)
  \/ Scan(r)

Forward(r) ==
  \/ HaveKey(r)
  \/ NoKey(r)
  \/ Send(r)
  \/ TakenIn(r)
  \/ TransportFails(r)
  \/ Headers(r)
  \/ ReadErrorBody(r)
  \/ ReplyRetryKey(r)
  \/ ReplyQuota(r)
  \/ ReplyFinal(r)
  \/ ReplyError(r)
  \/ PipeEnds(r)

Work(r) == Pick(r) \/ Forward(r)

Next ==
  \/ \E r \in Requests :
       Reject(r) \/ Accept(r) \/ Work(r) \/ Disconnect(r) \/ Return(r)
  \/ Administer /\ UNCHANGED requestVars

(* Where nothing but the upstream, or the client's leaving, takes a        *)
(* request on: no timeout covers the writing of the request, nor the       *)
(* reading of an error body, which idleBody does not wrap.                 *)
Stalling == {"upload"} \cup Reading

(* What a goroutine comes to do by itself.  An upstream that has taken the *)
(* request in answers or is cut off by ResponseHeaderTimeout; a cancelled  *)
(* context ends every wait; how long a response is piped is not said.      *)
Unaided(r) ==
  /\ pc[r] # "piping"
  /\ pc[r] \in Stalling => gone[r]
  /\ Work(r)

(* The scheduler runs every goroutine.                                     *)
Fairness == \A r \in Requests : WF_vars(Unaided(r))

Spec == Init /\ [][Next]_vars
FairSpec == Spec /\ Fairness

-----------------------------------------------------------------------------
(* Properties.                                                             *)

(* The retry loop keeps the promises of Failover, whatever the balancer,   *)
(* the administrator and the other requests do meanwhile.                  *)
free == [r \in Requests |-> pinned[r] = NoSlug]
verdict == [r \in Requests |-> IF outcome[r] # "none" THEN outcome[r]
                               ELSE IF pc[r] = "idle" THEN "idle" ELSE "open"]

Promise == INSTANCE Failover

FailoverKept == Promise!Spec

(* No account is sent a request twice, unless its key was refused in       *)
(* between, and none three times: whatever ends an attempt otherwise (a    *)
(* 402/429, a broken connection) also ends the loop over attempts, and no  *)
(* account comes back in a later round.                                    *)
Allowed(r, s) == IF s \in refused[r] THEN 2 ELSE 1

TwoSendsPerAccount ==
  \A r \in Requests : \A s \in Slugs : sends[r][s] <= Allowed(r, s)

(* Why a request never meets an account twice: while it looks for an       *)
(* account, all it was handed before are excluded, so every way out of     *)
(* Pick (pinned, current, ranked, fallback) yields a new one.              *)
FailedAreExcluded ==
  \A r \in Requests :
    /\ excluded[r] \subseteq tried[r]
    /\ pc[r] \in Picking => /\ excluded[r] = tried[r]
                            /\ Cardinality(tried[r]) = acctTry[r]
    /\ pc[r] \in Using => /\ tried[r] = excluded[r] \cup {acct[r]}
                          /\ Cardinality(tried[r]) = acctTry[r] + 1

(* The rest of the loop's bookkeeping, without which neither of the two    *)
(* above is inductive: an idle request owns nothing, a verdict and the end *)
(* of the loop go together, an account is only looked for within the       *)
(* budget, candidates and a pinned account to be used stay clear of the    *)
(* failed accounts, and the account at hand has cost a request per attempt *)
(* begun, the second one only after its key was refused.                   *)
Unsent(r) == \A s \in Slugs \ tried[r] : sends[r][s] = 0

Paced(r) ==
  /\ pc[r] = "key" => sends[r][acct[r]] = 0
  /\ pc[r] = "send" => sends[r][acct[r]] <= attempt[r]
  /\ pc[r] \in Sent => sends[r][acct[r]] <= attempt[r] + 1
  /\ pc[r] \in {"send"} \cup Sent /\ attempt[r] = 1 => acct[r] \in refused[r]

LoopBookkeeping ==
  \A r \in Requests :
    /\ pc[r] = "idle" => /\ tried[r] = {} /\ acctTry[r] = 0
                         /\ budget[r] = 0 /\ pinned[r] = NoSlug
    /\ pc[r] \in Ended <=> outcome[r] # "none"
    /\ pc[r] \in Picking \cup Using => acctTry[r] < budget[r]
    /\ pc[r] = "rank" => cands[r] \cap excluded[r] = {}
    /\ pc[r] \in {"pinOn", "pinOff"} => pinned[r] \notin excluded[r]
    /\ Unsent(r) /\ Paced(r)

(* A client that has gone is nobody's failure: the connection that broke   *)
(* because of it puts no account into its five minutes of cooldown.  What  *)
(* an account has to answer for itself, a 402/429 it gave or a key that    *)
(* cannot be had, cools it as ever, and no other account.                  *)
LeaversBlameNobody ==
  [][\A r \in Requests : gone[r] /\ pc'[r] # pc[r] =>
       \A s \in cooling' \ cooling :
         s = acct[r] /\ pc[r] \in {"quota", "key"}]_vars

(* A 402/429 cools its account even when the reply is passed on to the     *)
(* client, so the account of an exhausted quota is not offered again to    *)
(* whoever comes next, unless it left the pool.                            *)
PassedOnQuotaCools ==
  [][\A r \in Requests :
       outcome'[r] = "quota" /\ outcome[r] # "quota" /\ acct[r] \in pool
         => acct[r] \in cooling']_vars

(* Every accepted request is answered, through at most TryCap accounts and *)
(* two attempts each, or hangs for ever in an upstream that neither takes  *)
(* it in nor goes on with an error body, for a client that stays.          *)
EveryRequestAnswered ==
  \A r \in Requests :
    pc[r] # "idle" ~> \/ outcome[r] # "none"
                      \/ [](pc[r] \in Stalling /\ ~gone[r])
=============================================================================
