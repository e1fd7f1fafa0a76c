------------------------- MODULE ProxyHandler_proofs -------------------------
(***************************************************************************)
(* Proofs about ProxyHandler, for any finite set of accounts, any set of   *)
(* concurrent requests and any TryCap: its types, the exclusion of failed  *)
(* accounts, the bound on upstream requests per account, whom a client     *)
(* that leaves may cost a cooldown, and that the retry loop implements     *)
(* Failover.                                                               *)
(***************************************************************************)
EXTENDS ProxyHandler, FiniteSetTheorems, TLAPS

-----------------------------------------------------------------------------
(* Types.                                                                  *)

(* What the balancer's operators leave behind is well typed.               *)
LEMMA SyncPoolType ==
  ASSUME BalancerTypeOK, NEW slugs \in SUBSET Slugs, SyncPool(slugs)
  PROVE  pool' \in SUBSET Slugs /\ cooling' \in SUBSET pool'
BY DEF BalancerTypeOK, SyncPool

LEMMA MarkFailureType ==
  ASSUME BalancerTypeOK, NEW s, NEW quota \in BOOLEAN,
         MarkFailure(s, quota), pool' = pool
  PROVE  cooling' \in SUBSET pool'
BY DEF BalancerTypeOK, MarkFailure

LEMMA ImportType ==
  ASSUME BalancerTypeOK, ImportActivation \/ UNCHANGED registryVars
  PROVE  registered' \in SUBSET Slugs /\ current' \in Slugs \cup {NoSlug}
BY DEF BalancerTypeOK, ImportActivation, registryVars

LEMMA AdministerType ==
  ASSUME BalancerTypeOK, Administer
  PROVE  BalancerTypeOK'
<1> USE SlugsAssumption, CursorAssumption, BudgetAssumption DEF BalancerTypeOK
<1>1. CASE UpdateConfig
  BY <1>1, OfferedAssumption
     DEF UpdateConfig, registryVars, poolVars
<1>2. ASSUME NEW s \in Slugs, SaveAccount(s) PROVE BalancerTypeOK'
  BY <1>2 DEF SaveAccount, SyncPool
<1>3. ASSUME NEW s \in Slugs, ActivateAccount(s) PROVE BalancerTypeOK'
  BY <1>3 DEF ActivateAccount, SyncPool
<1>4. ASSUME NEW s \in Slugs, RemoveAccount(s) PROVE BalancerTypeOK'
  BY <1>4 DEF RemoveAccount, poolVars, Cleanups
<1>5. ASSUME NEW s \in Slugs, ReloadPool(s) PROVE BalancerTypeOK'
  BY <1>5 DEF ReloadPool, SyncPool, registryVars, Cleanups
<1>6. ASSUME NEW s \in Slugs, OnAccountRemoved(s) PROVE BalancerTypeOK'
  BY <1>6 DEF OnAccountRemoved, registryVars, poolVars, Cleanups, Config
<1>7. ASSUME NEW s \in Slugs, CooldownEnds(s) PROVE BalancerTypeOK'
  BY <1>7 DEF CooldownEnds, registryVars, adminVars
<1>8. CASE AskCurrent
  BY <1>8, ImportType DEF AskCurrent, poolVars, adminVars
<1> QED
  BY <1>1, <1>2, <1>3, <1>4, <1>5, <1>6, <1>7, <1>8 DEF Administer

(* What the moves shared by several actions leave behind is well typed.    *)
LEMMA GotoType ==
  ASSUME RequestTypeOK, NEW r \in Requests, NEW to \in Points, Goto(r, to)
  PROVE  pc' \in [Requests -> Points]
BY DEF RequestTypeOK, Goto

LEMMA LeaveType ==
  ASSUME RequestTypeOK, NEW r \in Requests, LeaveAccount(r)
  PROVE  /\ acct' \in [Requests -> Slugs \cup {NoSlug}]
         /\ attempt' \in [Requests -> 0 .. 1]
BY DEF RequestTypeOK, LeaveAccount

LEMMA FinishType ==
  ASSUME RequestTypeOK, NEW r \in Requests, NEW o \in Outcomes, Finish(r, o)
  PROVE  /\ pc' \in [Requests -> Points]
         /\ outcome' \in [Requests -> Outcomes \cup {"none"}]
         /\ acct' \in [Requests -> Slugs \cup {NoSlug}]
         /\ attempt' \in [Requests -> 0 .. 1]
<1>1. PICK to \in {"piping", "done"} : Goto(r, to)
  BY DEF Finish
<1>2. pc' \in [Requests -> Points]
  BY <1>1, GotoType DEF Points, Ended
<1>3. outcome' \in [Requests -> Outcomes \cup {"none"}]
  BY DEF Finish, RequestTypeOK
<1> QED BY <1>2, <1>3, LeaveType DEF Finish

LEMMA NextAccountType ==
  ASSUME RequestTypeOK, NEW r \in Requests, NextAccount(r)
  PROVE  /\ pc' \in [Requests -> Points]
         /\ outcome' \in [Requests -> Outcomes \cup {"none"}]
         /\ acct' \in [Requests -> Slugs \cup {NoSlug}]
         /\ attempt' \in [Requests -> 0 .. 1]
         /\ acctTry' \in [Requests -> 0 .. TryCap]
<1>1. CASE acctTry[r] + 1 < budget[r]
  <2>1. /\ Goto(r, "list")
        /\ acctTry' = [acctTry EXCEPT ![r] = @ + 1]
        /\ LeaveAccount(r)
        /\ UNCHANGED outcome
    BY <1>1 DEF NextAccount
  <2>2. acctTry[r] + 1 \in 0 .. TryCap
    BY <1>1, TryCapAssumption DEF RequestTypeOK
  <2>3. acctTry' \in [Requests -> 0 .. TryCap]
    BY <2>1, <2>2 DEF RequestTypeOK
  <2>4. pc' \in [Requests -> Points]
    BY <2>1, GotoType DEF Points, Picking
  <2> QED BY <2>1, <2>3, <2>4, LeaveType DEF RequestTypeOK
<1>2. CASE ~(acctTry[r] + 1 < budget[r])
  <2>1. Finish(r, "exhausted") /\ UNCHANGED acctTry
    BY <1>2 DEF NextAccount
  <2> QED BY <2>1, FinishType DEF RequestTypeOK, Outcomes
<1> QED BY <1>1, <1>2

LEMMA ChooseType ==
  ASSUME RequestTypeOK, NEW r \in Requests, NEW s \in Slugs, Choose(r, s)
  PROVE  /\ pc' \in [Requests -> Points]
         /\ acct' \in [Requests -> Slugs \cup {NoSlug}]
         /\ byQuota' \in [Requests -> BOOLEAN]
         /\ tried' \in [Requests -> SUBSET Slugs]
<1>1. pc' \in [Requests -> Points]
  BY GotoType DEF Choose, Points, Using
<1> QED BY <1>1 DEF Choose, RequestTypeOK

LEMMA ExcludeType ==
  ASSUME RequestTypeOK, SlugsAssumption, NEW r \in Requests,
         acct[r] \in Slugs, Exclude(r)
  PROVE  excluded' \in [Requests -> SUBSET Slugs]
BY DEF RequestTypeOK, Exclude

LEMMA CountType ==
  ASSUME NEW f \in [Slugs -> Nat], NEW s
  PROVE  [f EXCEPT ![s] = @ + 1] \in [Slugs -> Nat]
<1>1. ASSUME NEW x \in Slugs
      PROVE  [f EXCEPT ![s] = @ + 1][x] \in Nat
  OBVIOUS
<1> QED BY <1>1

(* What the request path leaves behind is well typed.                      *)
LEMMA WorkType ==
  ASSUME TypeOK, FailedAreExcluded, NEW r \in Requests, Work(r)
  PROVE  TypeOK'
<1> USE DEF TypeOK, RequestTypeOK, registryVars, poolVars, adminVars,
            pickVars, loopVars, clientVars, historyVars
<1>b. ASSUME UNCHANGED balancerVars PROVE BalancerTypeOK'
  BY <1>b DEF BalancerTypeOK, balancerVars
<1>r. {registered, pool, known[r], cands[r]} \subseteq SUBSET Slugs
  BY DEF BalancerTypeOK
<1>e. ASSUME pc[r] \in Using, Exclude(r)
      PROVE  excluded' \in [Requests -> SUBSET Slugs]
  <2>1. acct[r] \in Slugs
    BY <1>e DEF FailedAreExcluded
  <2> QED BY <1>e, <2>1, ExcludeType, SlugsAssumption
<1>1. CASE ListSlugs(r)
  <2>1. pc' \in [Requests -> Points]
    BY <1>1, GotoType DEF ListSlugs, Points, Picking
  <2> QED BY <1>1, <1>b, <1>r, <2>1 DEF ListSlugs
<1>2. CASE Synchronize(r)
  <2>1. BalancerTypeOK'
    BY <1>2, <1>r, SyncPoolType DEF Synchronize, BalancerTypeOK
  <2>2. pc' \in [Requests -> Points]
    BY <1>2, GotoType DEF Synchronize, Points, Picking
  <2> QED BY <1>2, <2>1, <2>2 DEF Synchronize
<1>3. CASE ReadConfig(r)
  <2>1. \E to \in {"pinOn", "pinOff", "candidates", "current"} : Goto(r, to)
    BY <1>3 DEF ReadConfig
  <2>2. pc' \in [Requests -> Points]
    BY <2>1, GotoType DEF Points, Picking
  <2> QED BY <1>3, <1>b, <2>2 DEF ReadConfig
<1>18. CASE UsePinned(r)
  <2>1. CASE pinned[r] \in pool
    <3>1. Choose(r, pinned[r])
      BY <1>18, <2>1 DEF UsePinned
    <3> QED BY <1>18, <1>b, <1>r, <2>1, <3>1, ChooseType DEF UsePinned
  <2>2. CASE pinned[r] \notin pool
    <3>1. \E to \in {"candidates", "current"} : Goto(r, to)
      BY <1>18, <2>2 DEF UsePinned
    <3>2. pc' \in [Requests -> Points]
      BY <3>1, GotoType DEF Points, Picking
    <3> QED BY <1>18, <1>b, <2>2, <3>2 DEF UsePinned
  <2> QED BY <2>1, <2>2
<1>4. CASE ReadCurrent(r)
  <2>1. \E to \in {"useCurrent", "useFallback"} : Goto(r, to)
    BY <1>4 DEF ReadCurrent
  <2>2. pc' \in [Requests -> Points]
    BY <2>1, GotoType DEF Points, Picking
  <2>3. registered' \in SUBSET Slugs /\ current' \in Slugs \cup {NoSlug}
    BY <1>4, ImportType DEF ReadCurrent
  <2>4. BalancerTypeOK'
    BY <1>4, <2>3 DEF ReadCurrent, BalancerTypeOK
  <2> QED BY <1>4, <2>2, <2>3, <2>4 DEF ReadCurrent
<1>5. CASE UseCurrent(r)
  <2>1. name' \in [Requests -> Slugs \cup {NoSlug}]
    BY <1>5 DEF UseCurrent
  <2>2. CASE name[r] \in pool \ excluded[r]
    <3>1. Choose(r, name[r])
      BY <1>5, <2>2 DEF UseCurrent
    <3> QED BY <1>5, <1>b, <1>r, <2>1, <2>2, <3>1, ChooseType DEF UseCurrent
  <2>3. CASE ~(name[r] \in pool \ excluded[r])
    <3>1. \E to \in {"candidates", "listFallback"} : Goto(r, to)
      BY <1>5, <2>3 DEF UseCurrent
    <3>2. pc' \in [Requests -> Points]
      BY <3>1, GotoType DEF Points, Picking
    <3> QED BY <1>5, <1>b, <2>1, <2>3, <3>2 DEF UseCurrent
  <2> QED BY <2>2, <2>3
<1>6. CASE FindCandidates(r)
  <2> DEFINE available == Candidates(excluded[r])
  <2>1. available \subseteq Slugs
    BY <1>r DEF Candidates
  <2> HIDE DEF available
  <2>2. \/ /\ \E to \in {"fallback", "rank"} : Goto(r, to)
           /\ UNCHANGED cands \/ cands' = [cands EXCEPT ![r] = available]
           /\ UNCHANGED <<acct, tried, byQuota>>
        \/ (\E s \in available : Choose(r, s)) /\ UNCHANGED cands
    BY <1>6 DEF FindCandidates, available
  <2>3. cands' \in [Requests -> SUBSET Slugs]
    BY <2>1, <2>2
  <2>4. CASE \E s \in available : Choose(r, s)
    BY <1>6, <1>b, <2>1, <2>3, <2>4, ChooseType DEF FindCandidates
  <2>5. CASE /\ \E to \in {"fallback", "rank"} : Goto(r, to)
             /\ UNCHANGED <<acct, tried, byQuota>>
    <3>1. pc' \in [Requests -> Points]
      BY <2>5, GotoType DEF Points, Picking
    <3> QED BY <1>6, <1>b, <2>3, <2>5, <3>1 DEF FindCandidates
  <2> QED BY <2>2, <2>4, <2>5
<1>7. CASE Rank(r)
  <2>1. BalancerTypeOK'
    BY <1>7, CursorAssumption DEF Rank, TakeTurn, BalancerTypeOK
  <2>2. PICK s \in cands[r] : Choose(r, s)
    BY <1>7 DEF Rank
  <2> QED BY <1>7, <1>r, <2>1, <2>2, ChooseType DEF Rank
<1>8. CASE ListFallback(r)
  <2>1. pc' \in [Requests -> Points]
    BY <1>8, GotoType DEF ListFallback, Points, Picking
  <2> QED BY <1>8, <1>b, <1>r, <2>1 DEF ListFallback
<1>9. CASE Scan(r)
  <2>1. \/ /\ Finish(r, "noAccount")
           /\ byQuota' = [byQuota EXCEPT ![r] = FALSE]
           /\ UNCHANGED tried
        \/ /\ \E s \in known[r] \cap pool : Choose(r, s)
           /\ UNCHANGED <<attempt, outcome>>
    BY <1>9 DEF Scan
  <2>2. CASE Finish(r, "noAccount")
    BY <1>9, <1>b, <2>1, <2>2, FinishType, ChooseType, <1>r DEF Scan, Outcomes
  <2>3. CASE /\ \E s \in known[r] \cap pool : Choose(r, s)
             /\ UNCHANGED <<attempt, outcome>>
    BY <1>9, <1>b, <1>r, <2>3, ChooseType DEF Scan
  <2> QED BY <2>1, <2>2, <2>3
<1>10. CASE HaveKey(r)
  <2>1. pc' \in [Requests -> Points]
    BY <1>10, GotoType DEF HaveKey, Points, Using
  <2>2. attempt' \in [Requests -> 0 .. 1]
    BY <1>10 DEF HaveKey
  <2> QED BY <1>10, <1>b, <2>1, <2>2 DEF HaveKey
<1>11. CASE NoKey(r)
  <2>1. BalancerTypeOK'
    BY <1>11, MarkFailureType DEF NoKey, BalancerTypeOK
  <2>2. excluded' \in [Requests -> SUBSET Slugs]
    BY <1>11, <1>e DEF NoKey, Using
  <2> QED BY <1>11, <2>1, <2>2, NextAccountType DEF NoKey
<1>a. ASSUME NEW to \in Using, Advance(r, to) PROVE TypeOK'
  BY <1>a, <1>b, GotoType DEF Advance, Points
<1>12. CASE Send(r)
  <2>1. pc' \in [Requests -> Points]
    BY <1>12, GotoType DEF Send, Points, Using, Sent, Answered
  <2>2. sends' \in [Requests -> [Slugs -> Nat]]
    <3>1. CASE gone[r]
      BY <1>12, <3>1 DEF Send
    <3>2. CASE ~gone[r]
      <4> DEFINE counted == [sends[r] EXCEPT ![acct[r]] = @ + 1]
      <4>1. sends' = [sends EXCEPT ![r] = counted]
        BY <1>12, <3>2 DEF Send
      <4>2. sends[r] \in [Slugs -> Nat]
        OBVIOUS
      <4>3. counted \in [Slugs -> Nat]
        BY <4>2, CountType
      <4> HIDE DEF counted
      <4> QED BY <4>1, <4>3
    <3> QED BY <3>1, <3>2
  <2> QED BY <1>12, <1>b, <2>1, <2>2 DEF Send
<1>19. CASE TakenIn(r) \/ TransportFails(r) \/ Headers(r) \/ ReadErrorBody(r)
  BY <1>19, <1>a DEF TakenIn, TransportFails, Headers, ReadErrorBody, Using,
     Sent, Reading, Answered
<1>13. CASE ReplyRetryKey(r)
  <2>0. acct[r] \in Slugs
    BY <1>13 DEF FailedAreExcluded, ReplyRetryKey, Using, Sent, Answered
  <2>1. /\ excluded' \in [Requests -> SUBSET Slugs]
        /\ refused' \in [Requests -> SUBSET Slugs]
    BY <1>13, <2>0, ExcludeType, SlugsAssumption DEF ReplyRetryKey
  <2>2. CASE attempt[r] = 0
    <3>1. pc' \in [Requests -> Points]
      BY <1>13, <2>2, GotoType DEF ReplyRetryKey, Points, Using
    <3>2. attempt' \in [Requests -> 0 .. 1]
      <4>1. attempt' = [attempt EXCEPT ![r] = 1]
        BY <1>13, <2>2 DEF ReplyRetryKey
      <4> QED BY <4>1
    <3> QED BY <1>13, <1>b, <2>1, <2>2, <3>1, <3>2 DEF ReplyRetryKey
  <2>3. CASE attempt[r] # 0
    BY <1>13, <1>b, <2>1, <2>3, NextAccountType DEF ReplyRetryKey
  <2> QED BY <2>2, <2>3
<1>14. CASE ReplyQuota(r)
  <2>1. BalancerTypeOK'
    BY <1>14, MarkFailureType DEF ReplyQuota, BalancerTypeOK
  <2>2. CASE Exclude(r) /\ NextAccount(r)
    <3>1. excluded' \in [Requests -> SUBSET Slugs]
      BY <1>14, <1>e, <2>2 DEF ReplyQuota, Using, Sent, Answered
    <3> QED BY <1>14, <2>1, <2>2, <3>1, NextAccountType DEF ReplyQuota
  <2>3. CASE Finish(r, "quota") /\ UNCHANGED <<excluded, acctTry>>
    BY <1>14, <2>1, <2>3, FinishType DEF ReplyQuota, Outcomes
  <2> QED BY <1>14, <2>2, <2>3 DEF ReplyQuota
<1>15. CASE ReplyFinal(r)
  BY <1>15, <1>b, FinishType DEF ReplyFinal, Outcomes
<1>16. CASE ReplyError(r)
  <2>1. CASE gone[r]
    <3>1. cooling' \in SUBSET pool'
      BY <1>16, <2>1 DEF ReplyError, BalancerTypeOK
    <3>2. BalancerTypeOK'
      BY <1>16, <3>1 DEF ReplyError, BalancerTypeOK
    <3> QED BY <2>1, <1>16, <3>2, FinishType DEF ReplyError, Outcomes
  <2>2. CASE ~gone[r]
    <3>1. BalancerTypeOK'
      BY <2>2, <1>16, MarkFailureType DEF ReplyError, BalancerTypeOK
    <3>2. excluded' \in [Requests -> SUBSET Slugs]
      BY <1>16, <1>e, <2>2 DEF ReplyError, Using, Sent, Answered
    <3> QED
      BY <2>2, <1>16, <3>1, <3>2, NextAccountType DEF ReplyError
  <2> QED BY <2>1, <2>2
<1>17. CASE PipeEnds(r)
  <2>1. pc' \in [Requests -> Points]
    BY <1>17, GotoType DEF PipeEnds, Points, Ended
  <2> QED BY <1>17, <1>b, <2>1 DEF PipeEnds
<1> QED
  BY <1>1, <1>2, <1>3, <1>4, <1>5, <1>6, <1>7, <1>8, <1>9, <1>10, <1>11,
     <1>12, <1>13, <1>14, <1>15, <1>16, <1>17, <1>18, <1>19
     DEF Work, Pick, Forward

-----------------------------------------------------------------------------
(* The loop invariant.  It is stated for one request at a time, because a  *)
(* step of one request leaves the others alone.                            *)

RequestInv(r) ==
  /\ excluded[r] \subseteq tried[r]
  /\ pc[r] \in Picking => /\ excluded[r] = tried[r]
                          /\ Cardinality(tried[r]) = acctTry[r]
  /\ pc[r] \in Using => /\ tried[r] = excluded[r] \cup {acct[r]}
                        /\ Cardinality(tried[r]) = acctTry[r] + 1
  /\ pc[r] = "idle" => /\ tried[r] = {} /\ acctTry[r] = 0
                       /\ budget[r] = 0 /\ pinned[r] = NoSlug
  /\ pc[r] \in Ended <=> outcome[r] # "none"
  /\ pc[r] \in Picking \cup Using => acctTry[r] < budget[r]
  /\ pc[r] = "rank" => cands[r] \cap excluded[r] = {}
  /\ pc[r] \in {"pinOn", "pinOff"} => pinned[r] \notin excluded[r]
  /\ Unsent(r) /\ Paced(r)
  /\ \A s \in Slugs : sends[r][s] <= Allowed(r, s)

LoopInv == \A r \in Requests : RequestInv(r)

LEMMA LoopInvParts ==
  LoopInv <=> FailedAreExcluded /\ LoopBookkeeping /\ TwoSendsPerAccount
BY DEF LoopInv, RequestInv, FailedAreExcluded, LoopBookkeeping,
       TwoSendsPerAccount

(* What RequestInv(q) speaks of is as it was.                              *)
Same(q) ==
  /\ pc'[q] = pc[q] /\ pinned'[q] = pinned[q] /\ outcome'[q] = outcome[q]
  /\ budget'[q] = budget[q] /\ acctTry'[q] = acctTry[q]
  /\ attempt'[q] = attempt[q] /\ acct'[q] = acct[q]
  /\ excluded'[q] = excluded[q] /\ cands'[q] = cands[q]
  /\ tried'[q] = tried[q] /\ sends'[q] = sends[q]
  /\ refused'[q] = refused[q]

LEMMA SameKeeps ==
  ASSUME NEW q \in Requests, RequestInv(q), Same(q)
  PROVE  RequestInv(q)'
BY DEF RequestInv, Same, Unsent, Paced, Allowed

LEMMA StutterKeeps ==
  ASSUME LoopInv, UNCHANGED requestVars
  PROVE  LoopInv'
BY SameKeeps DEF LoopInv, Same, requestVars, loopVars, clientVars, pickVars,
                 historyVars

LEMMA OthersSame ==
  ASSUME TypeOK, NEW r \in Requests, NEW q \in Requests, q # r,
         \/ Reject(r) \/ Accept(r) \/ Work(r) \/ Disconnect(r) \/ Return(r)
  PROVE  Same(q)
<1> USE DEF TypeOK, RequestTypeOK, Same, Goto, LeaveAccount, Finish, Choose,
            Exclude, NextAccount, Advance, pickVars, loopVars, clientVars,
            historyVars
<1>1. CASE Reject(r)
  BY <1>1 DEF Reject
<1>2. CASE Accept(r)
  BY <1>2 DEF Accept
<1>3. CASE Pick(r)
  <2>1. CASE ListSlugs(r)
    BY <2>1 DEF ListSlugs
  <2>2. CASE Synchronize(r)
    BY <2>2 DEF Synchronize
  <2>3. CASE ReadConfig(r)
    BY <2>3 DEF ReadConfig
  <2>4. CASE ReadCurrent(r)
    BY <2>4 DEF ReadCurrent
  <2>5. CASE UseCurrent(r)
    BY <2>5 DEF UseCurrent
  <2>6. CASE FindCandidates(r)
    BY <2>6 DEF FindCandidates
  <2>7. CASE Rank(r)
    BY <2>7 DEF Rank
  <2>8. CASE ListFallback(r)
    BY <2>8 DEF ListFallback
  <2>9. CASE Scan(r)
    BY <2>9 DEF Scan
  <2>10. CASE UsePinned(r)
    BY <2>10 DEF UsePinned
  <2> QED
    BY <1>3, <2>1, <2>2, <2>3, <2>4, <2>5, <2>6, <2>7, <2>8, <2>9, <2>10
       DEF Pick
<1>4. CASE Forward(r)
  <2>1. CASE HaveKey(r)
    BY <2>1 DEF HaveKey
  <2>2. CASE NoKey(r)
    BY <2>2 DEF NoKey
  <2>3. CASE Send(r)
    BY <2>3 DEF Send
  <2>4. CASE ReplyRetryKey(r)
    BY <2>4 DEF ReplyRetryKey
  <2>5. CASE ReplyQuota(r)
    BY <2>5 DEF ReplyQuota
  <2>6. CASE ReplyFinal(r)
    BY <2>6 DEF ReplyFinal
  <2>7. CASE ReplyError(r)
    BY <2>7 DEF ReplyError
  <2>8. CASE PipeEnds(r)
    BY <2>8 DEF PipeEnds
  <2>9. CASE TakenIn(r) \/ TransportFails(r) \/ Headers(r) \/ ReadErrorBody(r)
    BY <2>9 DEF TakenIn, TransportFails, Headers, ReadErrorBody
  <2> QED
    BY <1>4, <2>1, <2>2, <2>3, <2>4, <2>5, <2>6, <2>7, <2>8, <2>9 DEF Forward
<1>5. CASE Disconnect(r)
  BY <1>5 DEF Disconnect
<1>6. CASE Return(r)
  BY <1>6 DEF Return
<1> QED
  BY <1>1, <1>2, <1>3, <1>4, <1>5, <1>6 DEF Work

(* The size of tried, with and without one more account.                   *)
LEMMA TriedSize ==
  ASSUME TypeOK, NEW r \in Requests
  PROVE  /\ Cardinality(tried[r]) \in Nat
         /\ \A s \in Slugs \ tried[r] :
              Cardinality(tried[r] \cup {s}) = Cardinality(tried[r]) + 1
<1>1. tried[r] \subseteq Slugs
  BY DEF TypeOK, RequestTypeOK
<1>2. IsFiniteSet(tried[r])
  BY <1>1, SlugsAssumption, FS_Subset
<1>3. \A s \in Slugs \ tried[r] :
        Cardinality(tried[r] \cup {s}) = Cardinality(tried[r]) + 1
  BY <1>2, FS_AddElement
<1> QED BY <1>2, <1>3, FS_CardinalityType

(* Pick moves on without an answer.                                        *)
LEMMA SearchKeeps ==
  ASSUME TypeOK, NEW r \in Requests, RequestInv(r), pc[r] \in Picking,
         pc'[r] \in Picking, pc'[r] = "rank" => cands'[r] \cap excluded[r] = {},
         pc'[r] \in {"pinOn", "pinOff"} => pinned[r] \notin excluded[r],
         pinned'[r] = pinned[r], outcome'[r] = outcome[r],
         budget'[r] = budget[r], acctTry'[r] = acctTry[r],
         excluded'[r] = excluded[r], tried'[r] = tried[r],
         sends'[r] = sends[r], refused'[r] = refused[r]
  PROVE  RequestInv(r)'
BY DEF RequestInv, Unsent, Paced, Allowed, Picking, Using, Sent, Reading,
       Answered, Ended

(* Pick answers with an account that has not failed, hence with one that   *)
(* has not been sent anything.                                             *)
LEMMA ChooseKeeps ==
  ASSUME TypeOK, NEW r \in Requests, RequestInv(r), pc[r] \in Picking,
         NEW s \in Slugs \ excluded[r], Choose(r, s),
         pinned'[r] = pinned[r], outcome'[r] = outcome[r],
         budget'[r] = budget[r], acctTry'[r] = acctTry[r],
         excluded'[r] = excluded[r], sends'[r] = sends[r],
         refused'[r] = refused[r]
  PROVE  RequestInv(r)'
<1>1. pc'[r] = "key" /\ acct'[r] = s /\ tried'[r] = tried[r] \cup {s}
  BY DEF Choose, Goto, TypeOK, RequestTypeOK
<1>2. /\ excluded[r] = tried[r] /\ Cardinality(tried[r]) = acctTry[r]
      /\ acctTry[r] < budget[r] /\ outcome[r] = "none"
      /\ Unsent(r)
  BY DEF RequestInv, Picking, Using, Ended
<1>3. Cardinality(tried'[r]) = Cardinality(tried[r]) + 1
  BY <1>1, <1>2, TriedSize
<1>4. Unsent(r)' /\ sends'[r][s] = 0
  BY <1>1, <1>2 DEF Unsent
<1>5. Paced(r)'
  BY <1>1, <1>4 DEF Paced, Sent, Reading, Answered
<1>6. \A t \in Slugs : sends'[r][t] <= Allowed(r, t)'
  BY DEF RequestInv, Allowed
<1> QED
  BY <1>1, <1>2, <1>3, <1>4, <1>5, <1>6
     DEF RequestInv, Picking, Using, Sent, Reading, Answered, Ended

(* A key that was refused allows a second request.                         *)
LEMMA AllowedGrows ==
  ASSUME TypeOK, NEW r \in Requests, RequestInv(r),
         tried'[r] = tried[r], sends'[r] = sends[r],
         refused[r] \subseteq refused'[r]
  PROVE  /\ Unsent(r)'
         /\ \A s \in Slugs : sends'[r][s] <= Allowed(r, s)'
<1>1. ASSUME NEW s \in Slugs PROVE sends'[r][s] <= Allowed(r, s)'
  <2>1. sends[r][s] <= Allowed(r, s) /\ sends[r][s] \in Nat
    BY DEF RequestInv, TypeOK, RequestTypeOK
  <2> QED BY <2>1 DEF Allowed
<1> QED BY <1>1 DEF RequestInv, Unsent

(* An end is reached from inside the loop.                                 *)
LEMMA FinishKeeps ==
  ASSUME TypeOK, NEW r \in Requests, RequestInv(r),
         pc[r] \in Picking \cup Using,
         NEW o \in Outcomes, Finish(r, o),
         excluded'[r] \subseteq tried[r], tried'[r] = tried[r],
         sends'[r] = sends[r], refused[r] \subseteq refused'[r]
  PROVE  RequestInv(r)'
<1>1. pc'[r] \in Ended /\ outcome'[r] = o
  BY DEF Finish, Goto, Ended, TypeOK, RequestTypeOK
<1>2. Paced(r)'
  BY <1>1 DEF Paced, Sent, Reading, Answered, Ended
<1> QED
  BY <1>1, <1>2, AllowedGrows
     DEF RequestInv, Picking, Using, Sent, Reading, Answered, Ended, Outcomes

(* The account has failed and is excluded.                                 *)
LEMMA NextAccountKeeps ==
  ASSUME TypeOK, NEW r \in Requests, RequestInv(r), pc[r] \in Using,
         NextAccount(r), Exclude(r),
         pinned'[r] = pinned[r], budget'[r] = budget[r],
         tried'[r] = tried[r], sends'[r] = sends[r],
         refused[r] \subseteq refused'[r]
  PROVE  RequestInv(r)'
<1>1. excluded'[r] = tried[r]
  BY DEF Exclude, RequestInv, TypeOK, RequestTypeOK
<1>2. CASE acctTry[r] + 1 < budget[r]
  <2>1. /\ pc'[r] = "list" /\ acctTry'[r] = acctTry[r] + 1
        /\ outcome'[r] = outcome[r]
    BY <1>2 DEF NextAccount, Goto, TypeOK, RequestTypeOK
  <2>2. /\ Cardinality(tried[r]) = acctTry[r] + 1
        /\ outcome[r] = "none"
    BY DEF RequestInv, Using, Sent, Reading, Answered, Ended
  <2>3. Paced(r)'
    BY <2>1 DEF Paced, Sent, Reading, Answered
  <2> QED
    BY <1>1, <1>2, <2>1, <2>2, <2>3, AllowedGrows
       DEF RequestInv, Picking, Using, Sent, Reading, Answered, Ended
<1>3. CASE ~(acctTry[r] + 1 < budget[r])
  BY <1>1, <1>3, FinishKeeps DEF NextAccount, Outcomes
<1> QED BY <1>2, <1>3

LEMMA PickKeeps ==
  ASSUME TypeOK, NEW r \in Requests, RequestInv(r), Pick(r)
  PROVE  RequestInv(r)'
<1> USE DEF TypeOK, RequestTypeOK, Goto, loopVars, clientVars, historyVars
<1>p. pool \subseteq Slugs
  BY DEF BalancerTypeOK
<1>1. CASE ListSlugs(r)
  BY <1>1, SearchKeeps DEF ListSlugs, Picking
<1>2. CASE Synchronize(r)
  BY <1>2, SearchKeeps DEF Synchronize, Picking
<1>3. CASE ReadConfig(r)
  BY <1>3, SearchKeeps DEF ReadConfig, Picking
<1>10. CASE UsePinned(r)
  <2>1. CASE pinned[r] \in pool
    <3>1. pinned[r] \in Slugs \ excluded[r] /\ Choose(r, pinned[r])
      BY <1>10, <1>p, <2>1 DEF UsePinned, RequestInv
    <3> QED BY <1>10, <3>1, ChooseKeeps DEF UsePinned, Picking
  <2>2. CASE pinned[r] \notin pool
    BY <1>10, <2>2, SearchKeeps DEF UsePinned, Picking
  <2> QED BY <2>1, <2>2
<1>4. CASE ReadCurrent(r)
  BY <1>4, SearchKeeps DEF ReadCurrent, Picking
<1>5. CASE UseCurrent(r)
  <2>1. CASE name[r] \in pool \ excluded[r]
    <3>1. name[r] \in Slugs \ excluded[r] /\ Choose(r, name[r])
      BY <1>5, <1>p, <2>1 DEF UseCurrent
    <3> QED BY <1>5, <3>1, ChooseKeeps DEF UseCurrent, Picking
  <2>2. CASE ~(name[r] \in pool \ excluded[r])
    BY <1>5, <2>2, SearchKeeps DEF UseCurrent, Picking
  <2> QED BY <2>1, <2>2
<1>6. CASE FindCandidates(r)
  <2> DEFINE available == Candidates(excluded[r])
  <2>1. available \subseteq Slugs \ excluded[r]
    BY <1>p DEF Candidates
  <2>2. \/ pc' = [pc EXCEPT ![r] = "fallback"] /\ UNCHANGED <<tried, cands>>
        \/ \E s \in available : Choose(r, s)
        \/ /\ pc' = [pc EXCEPT ![r] = "rank"] /\ UNCHANGED tried
           /\ cands' = [cands EXCEPT ![r] = available]
    BY <1>6 DEF FindCandidates
  <2> HIDE DEF available
  <2>3. CASE \E s \in available : Choose(r, s)
    BY <1>6, <2>1, <2>3, ChooseKeeps DEF FindCandidates, Picking
  <2>4. CASE pc' = [pc EXCEPT ![r] = "fallback"] /\ UNCHANGED <<tried, cands>>
    BY <1>6, <2>4, SearchKeeps DEF FindCandidates, Picking
  <2>5. CASE /\ pc' = [pc EXCEPT ![r] = "rank"] /\ UNCHANGED tried
             /\ cands' = [cands EXCEPT ![r] = available]
    BY <1>6, <2>1, <2>5, SearchKeeps DEF FindCandidates, Picking
  <2> QED BY <2>2, <2>3, <2>4, <2>5
<1>7. CASE Rank(r)
  <2>1. PICK s \in cands[r] : Choose(r, s)
    BY <1>7 DEF Rank
  <2>2. s \in Slugs \ excluded[r]
    BY <1>7, <2>1 DEF Rank, RequestInv
  <2> QED BY <1>7, <2>1, <2>2, ChooseKeeps DEF Rank, Picking
<1>8. CASE ListFallback(r)
  BY <1>8, SearchKeeps DEF ListFallback, Picking
<1>9. CASE Scan(r)
  <2> DEFINE usable == (known[r] \cap pool) \ excluded[r]
  <2>1. usable \subseteq Slugs \ excluded[r]
    BY <1>p
  <2>2. \/ Finish(r, "noAccount") /\ UNCHANGED tried
        \/ (\E s \in usable : Choose(r, s)) /\ UNCHANGED outcome
    BY <1>9 DEF Scan
  <2> HIDE DEF usable
  <2>3. CASE (\E s \in usable : Choose(r, s)) /\ UNCHANGED outcome
    BY <1>9, <2>1, <2>3, ChooseKeeps DEF Scan, Picking
  <2>4. CASE Finish(r, "noAccount") /\ UNCHANGED tried
    BY <1>9, <2>4, FinishKeeps DEF Scan, Picking, Outcomes, RequestInv
  <2> QED BY <2>2, <2>3, <2>4
<1> QED
  BY <1>1, <1>2, <1>3, <1>4, <1>5, <1>6, <1>7, <1>8, <1>9, <1>10 DEF Pick

LEMMA ForwardKeeps ==
  ASSUME TypeOK, NEW r \in Requests, RequestInv(r), Forward(r)
  PROVE  RequestInv(r)'
<1> USE DEF TypeOK, RequestTypeOK, loopVars, clientVars, historyVars, Using,
            Sent, Reading, Answered
<1>k. excluded[r] \subseteq tried[r]
  BY DEF RequestInv
<1>s. pc[r] \in Using => acct[r] \in Slugs
  BY DEF RequestInv
<1>f. ASSUME pc[r] \in Sent, pc'[r] \in Sent, attempt'[r] = attempt[r],
             acct'[r] = acct[r], outcome'[r] = outcome[r],
             tried'[r] = tried[r], excluded'[r] = excluded[r],
             UNCHANGED <<sends, refused, pinned, budget, acctTry>>
      PROVE  RequestInv(r)'
  BY <1>f DEF RequestInv, Unsent, Paced, Allowed, Picking, Ended
<1>1. CASE HaveKey(r)
  <2>1. /\ pc[r] = "key" /\ pc'[r] = "send" /\ attempt'[r] = 0
        /\ acct'[r] = acct[r] /\ outcome'[r] = outcome[r]
        /\ UNCHANGED <<tried, excluded, sends, refused, pinned, budget,
                       acctTry>>
    BY <1>1 DEF HaveKey, Goto
  <2> QED
    BY <2>1 DEF RequestInv, Unsent, Paced, Allowed, Picking, Ended
<1>2. CASE NoKey(r)
  BY <1>2, NextAccountKeeps DEF NoKey
<1>3. CASE Send(r)
  <2>1. CASE gone[r]
    <3>1. /\ pc[r] = "send" /\ pc'[r] = "error"
          /\ UNCHANGED <<tried, excluded, sends, refused, pinned, budget,
                         acctTry, attempt, acct, outcome>>
      BY <1>3, <2>1 DEF Send, Goto
    <3>2. Paced(r)'
      BY <3>1 DEF RequestInv, Paced
    <3> QED
      BY <3>1, <3>2 DEF RequestInv, Unsent, Allowed, Picking, Ended
  <2>2. CASE ~gone[r]
    <3>1. /\ pc[r] = "send" /\ pc'[r] = "upload"
          /\ sends'[r] = [sends[r] EXCEPT ![acct[r]] = @ + 1]
          /\ UNCHANGED <<tried, excluded, refused, pinned, budget,
                         acctTry, attempt, acct, outcome>>
      BY <1>3, <2>2 DEF Send, Goto
    <3>2. /\ acct[r] \in tried[r] /\ acct[r] \in Slugs
          /\ sends[r][acct[r]] \in Nat
          /\ sends[r][acct[r]] <= attempt[r]
          /\ attempt[r] = 1 => acct[r] \in refused[r]
      BY <3>1, <1>s DEF RequestInv, Paced
    <3>3. Unsent(r)'
      BY <3>1, <3>2 DEF RequestInv, Unsent
    <3>4. Paced(r)'
      BY <3>1, <3>2 DEF Paced
    <3>5. \A s \in Slugs : sends'[r][s] <= Allowed(r, s)'
      BY <3>1, <3>2 DEF RequestInv, Allowed
    <3> QED
      BY <3>1, <3>3, <3>4, <3>5 DEF RequestInv, Picking, Ended
  <2> QED BY <2>1, <2>2
<1>9. CASE TakenIn(r) \/ TransportFails(r) \/ Headers(r) \/ ReadErrorBody(r)
  <2>1. \E to \in Sent : pc[r] \in Sent /\ Advance(r, to)
    BY <1>9 DEF TakenIn, TransportFails, Headers, ReadErrorBody
  <2> QED BY <1>f, <2>1 DEF Advance, Goto
<1>4. CASE ReplyRetryKey(r)
  <2>1. CASE attempt[r] = 0
    <3>1. /\ pc[r] = "retryKey" /\ pc'[r] = "send" /\ attempt'[r] = 1
          /\ excluded'[r] = excluded[r] \cup {acct[r]}
          /\ refused'[r] = refused[r] \cup {acct[r]}
          /\ acct'[r] = acct[r] /\ outcome'[r] = outcome[r]
          /\ UNCHANGED <<tried, sends, pinned, budget, acctTry>>
      BY <1>4, <2>1 DEF ReplyRetryKey, Exclude, Goto
    <3>2. Paced(r)'
      BY <2>1, <3>1 DEF RequestInv, Paced
    <3> QED
      BY <3>1, <3>2, AllowedGrows DEF RequestInv, Picking, Ended
  <2>2. CASE attempt[r] # 0
    BY <1>4, <2>2, NextAccountKeeps DEF ReplyRetryKey
  <2> QED BY <2>1, <2>2
<1>5. CASE ReplyQuota(r)
  <2>1. CASE Exclude(r) /\ NextAccount(r)
    BY <1>5, <2>1, NextAccountKeeps DEF ReplyQuota
  <2>2. CASE Finish(r, "quota") /\ UNCHANGED <<excluded, acctTry>>
    BY <1>5, <1>k, <2>2, FinishKeeps DEF ReplyQuota, Outcomes
  <2> QED BY <1>5, <2>1, <2>2 DEF ReplyQuota
<1>6. CASE ReplyFinal(r)
  BY <1>6, <1>k, FinishKeeps DEF ReplyFinal, Outcomes
<1>7. CASE ReplyError(r)
  <2>1. CASE gone[r]
    BY <1>7, <1>k, <2>1, FinishKeeps DEF ReplyError, Outcomes
  <2>2. CASE ~gone[r]
    BY <1>7, <2>2, NextAccountKeeps DEF ReplyError
  <2> QED BY <2>1, <2>2
<1>8. CASE PipeEnds(r)
  BY <1>8, <1>k
     DEF PipeEnds, Goto, RequestInv, Unsent, Paced, Allowed, Picking, Ended
<1> QED
  BY <1>1, <1>2, <1>3, <1>4, <1>5, <1>6, <1>7, <1>8, <1>9 DEF Forward

(* The steps of the client and of the server's own routine.                *)
Border(r) == Reject(r) \/ Accept(r) \/ Disconnect(r) \/ Return(r)

(* maxTries is a positive number, within its cap.                          *)
LEMMA BudgetBounds ==
  ASSUME TypeOK, NEW r \in Requests, Accept(r)
  PROVE  budget'[r] \in 1 .. TryCap
<1>1. IsFiniteSet(registered)
  BY SlugsAssumption, FS_Subset DEF TypeOK, BalancerTypeOK
<1>2. Cardinality(registered) \in Nat
  BY <1>1, FS_CardinalityType
<1> QED BY <1>2, TryCapAssumption DEF Accept, TypeOK, RequestTypeOK

LEMMA BorderType ==
  ASSUME TypeOK, NEW r \in Requests, Border(r)
  PROVE  TypeOK'
<1> USE DEF TypeOK, RequestTypeOK, pickVars, loopVars, clientVars, historyVars
<1>b. BalancerTypeOK'
  BY DEF Border, Reject, Accept, Disconnect, Return, BalancerTypeOK,
         balancerVars, registryVars, poolVars, adminVars
<1>1. CASE Reject(r)
  BY <1>1, <1>b, FinishType DEF Reject, Outcomes
<1>2. CASE Accept(r)
  <2>1. pc' \in [Requests -> Points]
    BY <1>2, GotoType DEF Accept, Points, Picking
  <2>2. pinned' \in [Requests -> Slugs \cup {NoSlug}]
    BY <1>2, PinsAssumption DEF Accept
  <2>3. budget' \in [Requests -> 0 .. TryCap]
    <3>1. PICK n : budget' = [budget EXCEPT ![r] = n]
      BY <1>2 DEF Accept
    <3>2. n \in 0 .. TryCap
      BY <1>2, <3>1, BudgetBounds, TryCapAssumption
    <3> QED BY <3>1, <3>2
  <2> QED BY <1>2, <1>b, <2>1, <2>2, <2>3 DEF Accept
<1>3. CASE Disconnect(r)
  BY <1>3, <1>b DEF Disconnect
<1>4. CASE Return(r)
  <2>1. pc' \in [Requests -> Points]
    BY <1>4, GotoType DEF Return, Points
  <2>2. /\ pinned' \in [Requests -> Slugs \cup {NoSlug}]
        /\ gone' \in [Requests -> BOOLEAN]
        /\ excluded' \in [Requests -> SUBSET Slugs]
        /\ tried' \in [Requests -> SUBSET Slugs]
        /\ outcome' \in [Requests -> Outcomes \cup {"none"}]
    BY <1>4 DEF Return
  <2>3. /\ budget' \in [Requests -> 0 .. TryCap]
        /\ acctTry' \in [Requests -> 0 .. TryCap]
        /\ sends' \in [Requests -> [Slugs -> Nat]]
        /\ refused' \in [Requests -> SUBSET Slugs]
    BY <1>4, TryCapAssumption DEF Return
  <2> QED BY <1>4, <1>b, <2>1, <2>2, <2>3 DEF Return
<1> QED BY <1>1, <1>2, <1>3, <1>4 DEF Border

LEMMA BorderKeeps ==
  ASSUME TypeOK, NEW r \in Requests, RequestInv(r), Border(r)
  PROVE  RequestInv(r)'
<1> USE DEF TypeOK, RequestTypeOK, Goto, pickVars, loopVars, clientVars,
            historyVars
<1>1. CASE Reject(r)
  <2>1. /\ pc'[r] = "done" /\ outcome'[r] = "rejected"
        /\ UNCHANGED <<excluded, tried, sends, refused>>
    BY <1>1 DEF Reject, Finish
  <2>2. excluded[r] = {} /\ tried[r] = {}
    BY <1>1 DEF Reject, RequestInv
  <2>3. Paced(r)'
    BY <2>1 DEF Paced, Sent, Reading, Answered
  <2> QED
    BY <2>1, <2>2, <2>3, AllowedGrows
       DEF RequestInv, Picking, Using, Sent, Reading, Answered, Ended
<1>2. CASE Accept(r)
  <2>1. /\ excluded[r] = {} /\ tried[r] = {}
        /\ acctTry[r] = 0 /\ outcome[r] = "none"
    BY <1>2 DEF Accept, RequestInv, Ended
  <2>2. /\ pc'[r] = "list"
        /\ UNCHANGED <<acctTry, excluded, outcome, tried, sends, refused>>
    BY <1>2 DEF Accept
  <2>3. budget'[r] > 0
    BY <1>2, BudgetBounds, TryCapAssumption
  <2>4. Paced(r)'
    BY <2>2 DEF Paced, Sent, Reading, Answered
  <2> QED
    BY <2>1, <2>2, <2>3, <2>4, AllowedGrows, FS_EmptySet
       DEF RequestInv, Picking, Using, Sent, Reading, Answered, Ended
<1>3. CASE Disconnect(r)
  BY <1>3, SameKeeps DEF Disconnect, Same
<1>4. CASE Return(r)
  <2>1. /\ pc'[r] = "idle" /\ outcome'[r] = "none" /\ tried'[r] = {}
        /\ excluded'[r] = {} /\ acctTry'[r] = 0
        /\ sends'[r] = [s \in Slugs |-> 0]
        /\ budget'[r] = 0 /\ pinned'[r] = NoSlug
    BY <1>4 DEF Return
  <2>2. Unsent(r)' /\ Paced(r)'
    BY <2>1 DEF Unsent, Paced, Sent, Reading, Answered
  <2>3. \A s \in Slugs : sends'[r][s] <= Allowed(r, s)'
    BY <2>1 DEF Allowed
  <2> QED
    BY <2>1, <2>2, <2>3, FS_EmptySet
       DEF RequestInv, Picking, Using, Sent, Reading, Answered, Ended
<1> QED BY <1>1, <1>2, <1>3, <1>4 DEF Border

-----------------------------------------------------------------------------
(* The inductive invariant.                                                *)

IInv == TypeOK /\ LoopInv

LEMMA InitIInv == Init => IInv
<1> SUFFICES ASSUME Init PROVE IInv
  OBVIOUS
<1>1. BalancerTypeOK
  BY CursorAssumption, BudgetAssumption
     DEF Init, BalancerInit, BalancerTypeOK, Cleanups
<1>2. RequestTypeOK
  BY TryCapAssumption DEF Init, RequestTypeOK, Points
<1>3. LoopInv
  BY FS_EmptySet
     DEF Init, LoopInv, RequestInv, Unsent, Paced, Allowed, Picking, Using,
         Sent, Reading, Answered, Ended
<1> QED BY <1>1, <1>2, <1>3 DEF IInv, TypeOK

LEMMA NextIInv == IInv /\ [Next]_vars => IInv'
<1> SUFFICES ASSUME IInv, [Next]_vars PROVE IInv'
  OBVIOUS
<1> USE DEF IInv
<1>1. ASSUME NEW r \in Requests, Border(r) \/ Work(r)
      PROVE  IInv'
  <2>1. TypeOK'
    BY <1>1, BorderType, WorkType, LoopInvParts
  <2>2. RequestInv(r)'
    BY <1>1, BorderKeeps, PickKeeps, ForwardKeeps DEF LoopInv, Work
  <2>3. ASSUME NEW q \in Requests, q # r PROVE RequestInv(q)'
    BY <1>1, <2>3, OthersSame, SameKeeps DEF Border, LoopInv
  <2> QED BY <2>1, <2>2, <2>3 DEF LoopInv
<1>2. CASE Administer /\ UNCHANGED requestVars
  <2>1. BalancerTypeOK'
    BY <1>2, AdministerType DEF TypeOK
  <2>2. RequestTypeOK'
    BY <1>2 DEF TypeOK, RequestTypeOK, requestVars, pickVars, loopVars,
                clientVars, historyVars
  <2> QED BY <1>2, <2>1, <2>2, StutterKeeps DEF TypeOK
<1>3. CASE UNCHANGED vars
  <2>1. TypeOK'
    BY <1>3 DEF TypeOK, BalancerTypeOK, RequestTypeOK, vars, balancerVars,
                registryVars, poolVars, adminVars, requestVars, pickVars,
                loopVars, clientVars, historyVars
  <2> QED BY <1>3, <2>1, StutterKeeps DEF vars
<1> QED BY <1>1, <1>2, <1>3 DEF Next, Border

LEMMA IInvAlways == Spec => []IInv
BY InitIInv, NextIInv, PTL DEF Spec

(* Every variable keeps its type: the pool and the cooling accounts stay   *)
(* within what they may be whatever the administrator and the requests do. *)
THEOREM TypeCorrect == Spec => []TypeOK
BY IInvAlways, PTL DEF IInv

(* Whenever the retry loop looks for an account, every account it has used *)
(* so far is excluded and there is one for each round of the loop.         *)
THEOREM FailedStayExcluded == Spec => []FailedAreExcluded
<1>1. IInv => FailedAreExcluded
  BY LoopInvParts DEF IInv
<1> QED BY <1>1, IInvAlways, PTL

(* The bookkeeping the two results beside it rest on.                      *)
THEOREM BookkeepingKept == Spec => []LoopBookkeeping
<1>1. IInv => LoopBookkeeping
  BY LoopInvParts DEF IInv
<1> QED BY <1>1, IInvAlways, PTL

(* Whatever number of accounts a request goes through, each of them is     *)
(* sent it once, or twice when its key was refused in between.             *)
THEOREM AtMostTwoSends == Spec => []TwoSendsPerAccount
<1>1. IInv => TwoSendsPerAccount
  BY LoopInvParts DEF IInv
<1> QED BY <1>1, IInvAlways, PTL

-----------------------------------------------------------------------------
(* The retry loop implements Failover.                                     *)

(* The instance has its own copy of the standard operator.                 *)
LEMMA SameCardinality ==
  \A S : Promise!Cardinality(S) = Cardinality(S)
BY DEF Promise!Cardinality, Cardinality

LEMMA InitMaps == Init => Promise!Init
<1> SUFFICES ASSUME Init PROVE Promise!Init
  OBVIOUS
<1>1. free = [r \in Requests |-> TRUE]
  BY DEF Init, free
<1>2. verdict = [r \in Requests |-> "idle"]
  BY DEF Init, verdict
<1> QED BY <1>1, <1>2 DEF Init, Promise!Init

(* A step of r leaves the verdict on the others alone.                     *)
LEMMA VerdictStep ==
  ASSUME NEW r \in Requests, \A q \in Requests \ {r} : Same(q),
         NEW v, verdict'[r] = v
  PROVE  verdict' = [verdict EXCEPT ![r] = v]
<1>1. \A q \in Requests \ {r} : verdict'[q] = verdict[q]
  BY DEF verdict, Same
<1>2. verdict = [q \in Requests |-> verdict[q]]
  BY DEF verdict
<1>3. verdict' = [q \in Requests |-> verdict'[q]]
  BY DEF verdict
<1> QED BY <1>1, <1>2, <1>3, Zenon

(* A step of r that shows nothing.                                         *)
LEMMA HiddenStep ==
  ASSUME NEW r \in Requests, \A q \in Requests \ {r} : Same(q),
         UNCHANGED <<tried, budget, pinned>>, verdict'[r] = verdict[r]
  PROVE  UNCHANGED Promise!fvars
<1>1. UNCHANGED verdict
  BY DEF verdict, Same
<1>2. UNCHANGED free
  BY DEF free
<1> QED BY <1>1, <1>2 DEF Promise!fvars

(* A step of r that ends it.                                               *)
LEMMA EndStep ==
  ASSUME NEW r \in Requests, \A q \in Requests \ {r} : Same(q),
         UNCHANGED <<tried, budget, pinned>>,
         NEW o \in Outcomes, outcome'[r] = o,
         outcome[r] = "none", pc[r] # "idle", Promise!MayEnd(r, o)
  PROVE  Promise!End(r, o)
<1>1. verdict[r] = "open"
  BY DEF verdict
<1>2. verdict' = [verdict EXCEPT ![r] = o]
  BY DEF verdict, Same, Outcomes
<1>3. UNCHANGED free
  BY DEF free
<1> QED BY <1>1, <1>2, <1>3 DEF Promise!End

(* A step of r that hands it to an account.                                *)
LEMMA TryStep ==
  ASSUME IInv, NEW r \in Requests, \A q \in Requests \ {r} : Same(q),
         pc[r] \in Picking, NEW s \in Slugs \ excluded[r], Choose(r, s),
         UNCHANGED <<budget, pinned, outcome>>
  PROVE  Promise!Try(r, s)
<1>1. RequestInv(r) /\ TypeOK
  BY DEF IInv, LoopInv
<1>2. /\ outcome[r] = "none" /\ s \notin tried[r]
      /\ Cardinality(tried[r]) < budget[r]
  BY <1>1 DEF RequestInv, Picking, Ended
<1>3. verdict[r] = "open"
  BY <1>2 DEF verdict, Picking
<1>4. pc'[r] = "key"
  BY <1>1 DEF Choose, Goto, TypeOK, RequestTypeOK
<1>5. UNCHANGED verdict
  <2>1. verdict'[r] = verdict[r]
    BY <1>2, <1>4 DEF verdict, Picking
  <2> QED BY <2>1 DEF verdict, Same
<1>6. UNCHANGED free
  BY DEF free
<1> QED
  BY <1>2, <1>3, <1>5, <1>6, SameCardinality DEF Promise!Try, Choose

(* An action whose moves are those of Pick.                                *)
LEMMA PickMaps ==
  ASSUME IInv, NEW r \in Requests, Pick(r)
  PROVE  Promise!Next \/ UNCHANGED Promise!fvars
<1> USE DEF TypeOK, RequestTypeOK, Goto, loopVars, clientVars, historyVars
<1>t. TypeOK /\ RequestInv(r)
  BY DEF IInv, LoopInv
<1>s. \A q \in Requests \ {r} : Same(q)
  BY <1>t, OthersSame DEF Work
<1>o. pc[r] \in Picking => outcome[r] = "none"
  BY <1>t DEF RequestInv, Picking, Ended
<1>p. pool \subseteq Slugs
  BY <1>t DEF BalancerTypeOK
<1>h. ASSUME pc[r] \in Picking, pc'[r] \in Picking,
             UNCHANGED <<tried, budget, pinned, outcome>>
      PROVE  UNCHANGED Promise!fvars
  <2>1. verdict'[r] = verdict[r]
    BY <1>h DEF verdict, Picking
  <2> QED BY <1>h, <1>s, <2>1, HiddenStep
<1>c. ASSUME pc[r] \in Picking,
             \E s \in Slugs \ excluded[r] : Choose(r, s),
             UNCHANGED <<budget, pinned, outcome>>
      PROVE  Promise!Next
  BY <1>c, <1>s, TryStep DEF Promise!Next
<1>1. CASE ListSlugs(r)
  BY <1>1, <1>t, <1>h DEF ListSlugs, Picking
<1>2. CASE Synchronize(r)
  BY <1>2, <1>t, <1>h DEF Synchronize, Picking
<1>3. CASE ReadConfig(r)
  BY <1>3, <1>t, <1>h DEF ReadConfig, Picking
<1>10. CASE UsePinned(r)
  <2>1. CASE pinned[r] \in pool
    <3>1. pinned[r] \in Slugs \ excluded[r]
      BY <1>10, <1>t, <1>p, <2>1 DEF UsePinned, RequestInv
    <3> QED BY <1>10, <1>c, <2>1, <3>1 DEF UsePinned, Picking
  <2>2. CASE pinned[r] \notin pool
    BY <1>10, <1>t, <1>h, <2>2 DEF UsePinned, Picking
  <2> QED BY <2>1, <2>2
<1>4. CASE ReadCurrent(r)
  BY <1>4, <1>t, <1>h DEF ReadCurrent, Picking
<1>5. CASE UseCurrent(r)
  <2>1. CASE name[r] \in pool \ excluded[r]
    BY <1>5, <1>c, <1>p, <2>1 DEF UseCurrent, Picking
  <2>2. CASE ~(name[r] \in pool \ excluded[r])
    BY <1>5, <1>t, <1>h, <2>2 DEF UseCurrent, Picking
  <2> QED BY <2>1, <2>2
<1>6. CASE FindCandidates(r)
  <2> DEFINE available == Candidates(excluded[r])
  <2>1. available \subseteq Slugs \ excluded[r]
    BY <1>p DEF Candidates
  <2>2. \/ pc' = [pc EXCEPT ![r] = "fallback"] /\ UNCHANGED tried
        \/ \E s \in available : Choose(r, s)
        \/ pc' = [pc EXCEPT ![r] = "rank"] /\ UNCHANGED tried
    BY <1>6 DEF FindCandidates
  <2> HIDE DEF available
  <2>3. CASE \E s \in available : Choose(r, s)
    BY <1>6, <1>c, <2>1, <2>3 DEF FindCandidates, Picking
  <2>4. CASE \/ pc' = [pc EXCEPT ![r] = "fallback"] /\ UNCHANGED tried
             \/ pc' = [pc EXCEPT ![r] = "rank"] /\ UNCHANGED tried
    BY <1>6, <1>t, <1>h, <2>4 DEF FindCandidates, Picking
  <2> QED BY <2>2, <2>3, <2>4
<1>7. CASE Rank(r)
  <2>1. PICK s \in cands[r] : Choose(r, s)
    BY <1>7 DEF Rank
  <2>2. s \in Slugs \ excluded[r]
    BY <1>7, <1>t, <2>1 DEF Rank, RequestInv
  <2> QED BY <1>7, <1>c, <2>1, <2>2 DEF Rank, Picking
<1>8. CASE ListFallback(r)
  BY <1>8, <1>t, <1>h DEF ListFallback, Picking
<1>9. CASE Scan(r)
  <2> DEFINE usable == (known[r] \cap pool) \ excluded[r]
  <2>1. usable \subseteq Slugs \ excluded[r]
    BY <1>p
  <2>2. \/ Finish(r, "noAccount") /\ UNCHANGED tried
        \/ (\E s \in usable : Choose(r, s)) /\ UNCHANGED outcome
    BY <1>9 DEF Scan
  <2> HIDE DEF usable
  <2>3. CASE (\E s \in usable : Choose(r, s)) /\ UNCHANGED outcome
    BY <1>9, <1>c, <2>1, <2>3 DEF Scan, Picking
  <2>4. CASE Finish(r, "noAccount") /\ UNCHANGED tried
    <3>1. outcome'[r] = "noAccount"
      BY <1>t, <2>4 DEF Finish
    <3>2. Promise!MayEnd(r, "noAccount")
      BY <1>9, <1>t, SameCardinality
         DEF Promise!MayEnd, Scan, RequestInv, Picking
    <3>3. Promise!End(r, "noAccount")
      BY <1>9, <1>s, <1>o, <2>4, <3>1, <3>2, EndStep
         DEF Scan, Picking, Outcomes
    <3> QED BY <3>3 DEF Promise!Next, Promise!Outcomes
  <2> QED BY <2>2, <2>3, <2>4
<1> QED
  BY <1>1, <1>2, <1>3, <1>4, <1>5, <1>6, <1>7, <1>8, <1>9, <1>10 DEF Pick

LEMMA ForwardMaps ==
  ASSUME IInv, NEW r \in Requests, Forward(r)
  PROVE  Promise!Next \/ UNCHANGED Promise!fvars
<1> USE DEF TypeOK, RequestTypeOK, Goto, loopVars, clientVars, historyVars,
            Using, Sent, Reading, Answered
<1>t. TypeOK /\ RequestInv(r)
  BY DEF IInv, LoopInv
<1>s. \A q \in Requests \ {r} : Same(q)
  BY <1>t, OthersSame DEF Work
<1>u. pc[r] \in Using => /\ outcome[r] = "none"
                        /\ tried[r] # {}
                        /\ Cardinality(tried[r]) = acctTry[r] + 1
                        /\ acctTry[r] < budget[r]
  BY <1>t DEF RequestInv, Ended
<1>h. ASSUME pc[r] \in Using, pc'[r] # "idle",
             UNCHANGED <<tried, budget, pinned, outcome>>
      PROVE  UNCHANGED Promise!fvars
  <2>1. verdict'[r] = verdict[r]
    BY <1>h, <1>u DEF verdict
  <2> QED BY <1>h, <1>s, <2>1, HiddenStep
<1>e. ASSUME pc[r] \in Using, NEW o \in Outcomes, Finish(r, o),
             UNCHANGED <<tried, budget, pinned>>, Promise!MayEnd(r, o)
      PROVE  Promise!Next
  <2>1. outcome'[r] = o
    BY <1>e, <1>t DEF Finish
  <2>2. Promise!End(r, o)
    BY <1>e, <1>s, <1>u, <2>1, EndStep
  <2> QED BY <2>2 DEF Promise!Next, Promise!Outcomes, Outcomes
<1>n. ASSUME pc[r] \in Using, NextAccount(r), UNCHANGED <<tried, budget, pinned>>
      PROVE  Promise!Next \/ UNCHANGED Promise!fvars
  <2>1. CASE acctTry[r] + 1 < budget[r]
    BY <1>n, <1>t, <1>h, <2>1 DEF NextAccount
  <2>2. CASE ~(acctTry[r] + 1 < budget[r])
    <3>1. Finish(r, "exhausted")
      BY <1>n, <2>2 DEF NextAccount
    <3>2. Promise!MayEnd(r, "exhausted")
      BY <1>n, <1>t, <1>u, <2>2, SameCardinality DEF Promise!MayEnd
    <3> QED BY <1>n, <1>e, <3>1, <3>2 DEF Outcomes
  <2> QED BY <2>1, <2>2
<1>1. CASE HaveKey(r)
  BY <1>1, <1>t, <1>h DEF HaveKey
<1>2. CASE NoKey(r)
  BY <1>2, <1>n DEF NoKey
<1>3. CASE Send(r)
  <2>1. pc'[r] \in {"error", "upload"}
    BY <1>3, <1>t DEF Send
  <2> QED BY <1>3, <1>h, <2>1 DEF Send
<1>9. CASE TakenIn(r) \/ TransportFails(r) \/ Headers(r) \/ ReadErrorBody(r)
  <2>1. \E to \in Sent : pc[r] \in Sent /\ Advance(r, to)
    BY <1>9 DEF TakenIn, TransportFails, Headers, ReadErrorBody
  <2> QED BY <1>h, <1>t, <2>1 DEF Advance
<1>4. CASE ReplyRetryKey(r)
  <2>1. CASE attempt[r] = 0
    BY <1>4, <1>t, <1>h, <2>1 DEF ReplyRetryKey
  <2>2. CASE attempt[r] # 0
    BY <1>4, <1>n, <2>2 DEF ReplyRetryKey
  <2> QED BY <2>1, <2>2
<1>5. CASE ReplyQuota(r)
  <2>1. CASE pinned[r] = NoSlug /\ acctTry[r] < budget[r] - 1
    BY <1>5, <1>n, <2>1 DEF ReplyQuota, FailsOver
  <2>2. CASE ~(pinned[r] = NoSlug /\ acctTry[r] < budget[r] - 1)
    <3>1. Finish(r, "quota")
      BY <1>5, <2>2 DEF ReplyQuota, FailsOver
    <3>2. free[r] => Cardinality(tried[r]) = budget[r]
      <4>1. free[r] => ~(acctTry[r] < budget[r] - 1)
        BY <2>2 DEF free
      <4>2. Cardinality(tried[r]) = acctTry[r] + 1 /\ acctTry[r] < budget[r]
        BY <1>5, <1>u DEF ReplyQuota
      <4>3. acctTry[r] \in Int /\ budget[r] \in Int
        BY <1>t
      <4> QED BY <4>1, <4>2, <4>3
    <3>3. Promise!MayEnd(r, "quota")
      BY <1>5, <1>u, <3>2, SameCardinality
         DEF Promise!MayEnd, ReplyQuota
    <3> QED BY <1>5, <1>e, <3>1, <3>3 DEF ReplyQuota, Outcomes
  <2> QED BY <2>1, <2>2
<1>6. CASE ReplyFinal(r)
  <2>1. Promise!MayEnd(r, pc[r])
    BY <1>6, <1>u DEF Promise!MayEnd, ReplyFinal
  <2> QED BY <1>6, <1>e, <2>1 DEF ReplyFinal, Outcomes
<1>7. CASE ReplyError(r)
  <2>1. CASE gone[r]
    <3>1. Promise!MayEnd(r, "aborted")
      BY <1>7, <1>u DEF Promise!MayEnd, ReplyError
    <3> QED BY <1>7, <1>e, <2>1, <3>1 DEF ReplyError, Outcomes
  <2>2. CASE ~gone[r]
    BY <1>7, <1>n, <2>2 DEF ReplyError
  <2> QED BY <2>1, <2>2
<1>8. CASE PipeEnds(r)
  <2>1. verdict'[r] = verdict[r]
    BY <1>8, <1>t DEF PipeEnds, verdict
  <2> QED BY <1>8, <1>s, <2>1, HiddenStep DEF PipeEnds
<1> QED
  BY <1>1, <1>2, <1>3, <1>4, <1>5, <1>6, <1>7, <1>8, <1>9 DEF Forward

LEMMA BorderMaps ==
  ASSUME IInv, NEW r \in Requests, Border(r)
  PROVE  Promise!Next \/ UNCHANGED Promise!fvars
<1> USE DEF TypeOK, RequestTypeOK, Goto, loopVars, clientVars, historyVars
<1>t. TypeOK /\ RequestInv(r)
  BY DEF IInv, LoopInv
<1>s. \A q \in Requests \ {r} : Same(q)
  BY <1>t, OthersSame DEF Border
<1>i. pc[r] = "idle" => outcome[r] = "none"
  BY <1>t DEF RequestInv, Ended
<1>1. CASE Reject(r)
  <2>1. verdict[r] = "idle"
    BY <1>1, <1>i DEF Reject, verdict
  <2>2. verdict'[r] = "rejected"
    BY <1>1, <1>t DEF Reject, Finish, verdict
  <2>3. verdict' = [verdict EXCEPT ![r] = "rejected"]
    BY <1>s, <2>2, VerdictStep
  <2>4. UNCHANGED <<tried, budget, free>>
    BY <1>1 DEF Reject, free
  <2> QED BY <2>1, <2>3, <2>4 DEF Promise!Reject, Promise!Next
<1>2. CASE Accept(r)
  <2>1. verdict[r] = "idle"
    BY <1>2, <1>i DEF Accept, verdict
  <2>2. verdict'[r] = "open"
    BY <1>2, <1>t, <1>i DEF Accept, verdict
  <2>3. verdict' = [verdict EXCEPT ![r] = "open"]
    BY <1>s, <2>2, VerdictStep
  <2>4. \E n \in 1 .. TryCap : budget' = [budget EXCEPT ![r] = n]
    BY <1>2, <1>t, BudgetBounds DEF Accept
  <2>5. \E f \in BOOLEAN : free' = [free EXCEPT ![r] = f]
    <3>1. free' = [free EXCEPT ![r] = pinned'[r] = NoSlug]
      BY <1>s DEF free, Same
    <3> QED BY <3>1
  <2> QED
    BY <1>2, <2>1, <2>3, <2>4, <2>5 DEF Accept, Promise!Accept, Promise!Next
<1>3. CASE Disconnect(r)
  BY <1>3 DEF Disconnect, Promise!fvars, verdict, free
<1>4. CASE Return(r)
  <2>1. verdict[r] \in Outcomes
    BY <1>4, <1>t DEF Return, RequestInv, Ended, verdict
  <2>2. verdict'[r] = "idle"
    BY <1>4, <1>t DEF Return, verdict
  <2>3. verdict' = [verdict EXCEPT ![r] = "idle"]
    BY <1>s, <2>2, VerdictStep
  <2>4. free' = [free EXCEPT ![r] = TRUE]
    BY <1>4, <1>t, <1>s DEF Return, free, Same
  <2> QED
    BY <1>4, <2>1, <2>3, <2>4
       DEF Return, Promise!Reset, Promise!Next, Promise!Outcomes, Outcomes
<1> QED BY <1>1, <1>2, <1>3, <1>4 DEF Border

(* Whatever the balancer, the administrator and the other requests do, a   *)
(* request meets different accounts only, within its budget, and ends with *)
(* an outcome it is entitled to.                                           *)
THEOREM HandlerImplementsFailover == Spec => FailoverKept
<1>1. IInv /\ [Next]_vars => [Promise!Next]_Promise!fvars
  <2> SUFFICES ASSUME IInv, [Next]_vars
               PROVE  Promise!Next \/ UNCHANGED Promise!fvars
    OBVIOUS
  <2>1. ASSUME NEW r \in Requests, Border(r) \/ Work(r)
        PROVE  Promise!Next \/ UNCHANGED Promise!fvars
    BY <2>1, BorderMaps, PickMaps, ForwardMaps DEF Work
  <2>2. CASE UNCHANGED requestVars
    BY <2>2 DEF requestVars, loopVars, clientVars, historyVars,
                Promise!fvars, verdict, free
  <2> QED BY <2>1, <2>2 DEF Next, Border, vars
<1> QED
  BY <1>1, InitMaps, IInvAlways, PTL DEF FailoverKept, Promise!Spec, Spec

-----------------------------------------------------------------------------
(* Which step gives a request its verdict, and what it does to the pool.   *)

LEMMA FinishOutcome ==
  ASSUME TypeOK, NEW r \in Requests, NEW o, Finish(r, o)
  PROVE  outcome'[r] = o
BY DEF TypeOK, RequestTypeOK, Finish

LEMMA NextAccountOutcome ==
  ASSUME TypeOK, NEW r \in Requests, NextAccount(r)
  PROVE  outcome'[r] \in {outcome[r], "exhausted"}
BY FinishOutcome DEF NextAccount

(* Choosing an account never ends a request with either of these two.      *)
LEMMA PickEnds ==
  ASSUME TypeOK, NEW r \in Requests, Pick(r)
  PROVE  outcome'[r] \in {outcome[r], "noAccount"}
<1>1. CASE Scan(r)
  BY <1>1, FinishOutcome DEF Scan
<1>2. CASE ListSlugs(r) \/ Synchronize(r) \/ ReadConfig(r) \/ ReadCurrent(r)
  BY <1>2 DEF ListSlugs, Synchronize, ReadConfig, ReadCurrent
<1>4. CASE UsePinned(r)
  BY <1>4 DEF UsePinned
<1>3. CASE UseCurrent(r) \/ FindCandidates(r) \/ Rank(r) \/ ListFallback(r)
  BY <1>3 DEF UseCurrent, FindCandidates, Rank, ListFallback
<1> QED BY <1>1, <1>2, <1>3, <1>4 DEF Pick

(* Nor does the border of a request.                                       *)
LEMMA BorderEnds ==
  ASSUME TypeOK, NEW r \in Requests, Border(r)
  PROVE  outcome'[r] \in {outcome[r], "rejected", "none"}
<1>1. CASE Reject(r)
  BY <1>1, FinishOutcome DEF Reject
<1>2. CASE Accept(r) \/ Disconnect(r)
  BY <1>2 DEF Accept, Disconnect
<1>3. CASE Return(r)
  BY <1>3 DEF Return, TypeOK, RequestTypeOK
<1> QED BY <1>1, <1>2, <1>3 DEF Border

(* A 402/429 is passed on only in the answer to it.                        *)
LEMMA ForwardEnds ==
  ASSUME TypeOK, NEW r \in Requests, Forward(r)
  PROVE  \/ ReplyQuota(r)
         \/ outcome'[r] \in {outcome[r]} \cup (Outcomes \ {"quota"})
<1>1. CASE HaveKey(r) \/ Send(r) \/ PipeEnds(r)
  BY <1>1 DEF HaveKey, Send, PipeEnds
<1>2. CASE NoKey(r)
  BY <1>2, NextAccountOutcome DEF NoKey, Outcomes
<1>3. CASE TakenIn(r) \/ TransportFails(r) \/ Headers(r) \/ ReadErrorBody(r)
  BY <1>3 DEF TakenIn, TransportFails, Headers, ReadErrorBody, Advance
<1>4. CASE ReplyRetryKey(r)
  BY <1>4, NextAccountOutcome DEF ReplyRetryKey, Outcomes
<1>6. CASE ReplyFinal(r)
  BY <1>6, FinishOutcome DEF ReplyFinal, Outcomes
<1>7. CASE ReplyError(r)
  BY <1>7, NextAccountOutcome, FinishOutcome DEF ReplyError, Outcomes
<1> QED BY <1>1, <1>2, <1>3, <1>4, <1>6, <1>7 DEF Forward

(* The request whose place or outcome changes is the one that steps.       *)
LEMMA WhoseStep ==
  ASSUME TypeOK, [Next]_vars, NEW r \in Requests,
         pc'[r] # pc[r] \/ outcome'[r] # outcome[r]
  PROVE  Border(r) \/ Work(r)
<1>1. ASSUME NEW q \in Requests, Border(q) \/ Work(q)
      PROVE  Border(r) \/ Work(r)
  <2>1. CASE q = r
    BY <1>1, <2>1
  <2>2. CASE q # r
    BY <1>1, <2>2, OthersSame DEF Border, Same
  <2> QED BY <2>1, <2>2
<1>2. CASE UNCHANGED requestVars
  BY <1>2 DEF requestVars
<1> QED BY <1>1, <1>2 DEF Next, Border, vars

(* Which of a request's own steps put an account into cooldown, and whom.  *)
LEMMA WhoCools ==
  ASSUME NEW r \in Requests, Border(r) \/ Work(r),
         NEW s \in cooling' \ cooling
  PROVE  /\ s = acct[r]
         /\ \/ pc[r] \in {"key", "quota"}
            \/ pc[r] = "error" /\ ~gone[r]
<1> USE DEF balancerVars, poolVars
<1>1. ASSUME NEW quota, MarkFailure(acct[r], quota) PROVE s = acct[r]
  BY <1>1 DEF MarkFailure
<1>2. CASE Border(r)
  BY <1>2 DEF Border, Reject, Accept, Disconnect, Return
<1>3. CASE Pick(r)
  <2>1. CASE Synchronize(r)
    BY <2>1 DEF Synchronize, SyncPool
  <2>2. CASE \/ ListSlugs(r) \/ ReadConfig(r) \/ UsePinned(r)
             \/ ReadCurrent(r) \/ UseCurrent(r)
    BY <2>2 DEF ListSlugs, ReadConfig, UsePinned, ReadCurrent, UseCurrent
  <2>3. CASE FindCandidates(r) \/ Rank(r) \/ ListFallback(r) \/ Scan(r)
    BY <2>3 DEF FindCandidates, Rank, ListFallback, Scan
  <2> QED BY <1>3, <2>1, <2>2, <2>3 DEF Pick
<1>4. CASE Forward(r)
  <2>1. CASE \/ HaveKey(r) \/ Send(r) \/ ReplyRetryKey(r) \/ ReplyFinal(r)
             \/ PipeEnds(r)
    BY <2>1 DEF HaveKey, Send, ReplyRetryKey, ReplyFinal, PipeEnds
  <2>2. CASE \/ TakenIn(r) \/ TransportFails(r) \/ Headers(r)
             \/ ReadErrorBody(r)
    BY <2>2 DEF TakenIn, TransportFails, Headers, ReadErrorBody, Advance
  <2>3. CASE NoKey(r)
    BY <1>1, <2>3 DEF NoKey
  <2>4. CASE ReplyQuota(r)
    BY <1>1, <2>4 DEF ReplyQuota
  <2>5. CASE ReplyError(r)
    BY <1>1, <2>5 DEF ReplyError
  <2> QED BY <1>4, <2>1, <2>2, <2>3, <2>4, <2>5 DEF Forward
<1> QED BY <1>2, <1>3, <1>4 DEF Work

(* The client's leaving is never taken for a failure of the account: not   *)
(* before the send, not during the upload, the wait or the reading of an   *)
(* error body, and in no later round of the loop either.                   *)
THEOREM LeaversCoolNobody == Spec => LeaversBlameNobody
<1>1. ASSUME TypeOK, [Next]_vars, NEW r \in Requests,
             gone[r], pc'[r] # pc[r], NEW s \in cooling' \ cooling
      PROVE  s = acct[r] /\ pc[r] \in {"quota", "key"}
  <2>1. Border(r) \/ Work(r)
    BY <1>1, WhoseStep
  <2> QED BY <1>1, <2>1, WhoCools
<1>2. TypeOK /\ [Next]_vars
        => [\A r \in Requests : gone[r] /\ pc'[r] # pc[r] =>
              \A s \in cooling' \ cooling :
                s = acct[r] /\ pc[r] \in {"quota", "key"}]_vars
  BY <1>1
<1> QED BY <1>2, TypeCorrect, PTL DEF Spec, LeaversBlameNobody

(* An account whose 402/429 is passed on to the client cools from that     *)
(* very step on, unless it left the pool meanwhile.                        *)
THEOREM PassedOnQuotasCool == Spec => PassedOnQuotaCools
<1>1. ASSUME TypeOK, [Next]_vars, NEW r \in Requests,
             outcome'[r] = "quota", outcome[r] # "quota", acct[r] \in pool
      PROVE  acct[r] \in cooling'
  <2>1. Border(r) \/ Work(r)
    BY <1>1, WhoseStep
  <2>2. ReplyQuota(r)
    BY <1>1, <2>1, BorderEnds, PickEnds, ForwardEnds DEF Work
  <2> QED BY <1>1, <2>2 DEF ReplyQuota, MarkFailure
<1>2. TypeOK /\ [Next]_vars
        => [\A r \in Requests :
              outcome'[r] = "quota" /\ outcome[r] # "quota" /\ acct[r] \in pool
                => acct[r] \in cooling']_vars
  BY <1>1
<1> QED BY <1>2, TypeCorrect, PTL DEF Spec, PassedOnQuotaCools
=============================================================================
