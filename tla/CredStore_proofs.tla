-------------------------- MODULE CredStore_proofs --------------------------
(***************************************************************************)
(* Proofs about the credentials of the accounts, for any users, names,     *)
(* workers and numbers of tokens and failures.                             *)
(***************************************************************************)
EXTENDS CredStore, NaturalOrder

-----------------------------------------------------------------------------
(* What is true of a worker wherever it stands.                            *)

AccountJobs == {"key", "quota", "fetch", "activate"}
Rotated == {"persist", "retry", "ask", "align"}
OfActivation == {"check", "write", "report", "rescue"}

WorkerOK(w) ==
  /\ pc[w] \in {"refresh", "joined"} => job[w] \in AccountJobs \cup {"global"}
  /\ pc[w] \in Rotated => job[w] \in AccountJobs
  /\ pc[w] \in OfActivation => job[w] = "global"
  /\ pc[w] = "cascade" =>
       job[w] = "remove" /\ held[w] = NoToken /\ fresh[w] = NoToken
  /\ job[w] \in AccountJobs => slug[w] \in Slugs
  /\ job[w] = "global" => slug[w] = NoSlug
  /\ pc[w] \notin {"idle", "cascade"} => held[w] \in Token
  /\ pc[w] \in Rotated \cup OfActivation => fresh[w] \in Token
  /\ pc[w] = "refresh" /\ job[w] \in Flown => fresh[w] = NoToken

WorkersOK == \A w \in Workers : WorkerOK(w)

TypeInv == TypeOK /\ WorkersOK

(* The part of TypeInv that depends on the files and the upstream alone.   *)
DiskOK ==
  /\ index \in [Slugs -> Users \cup {NoUser}]
  /\ current \in Slugs \cup {NoSlug}
  /\ file \in [Slugs -> Stored]
  /\ activation \in Stored
  /\ live \subseteq Token /\ unheard \subseteq Token
  /\ issued \in 0 .. MaxTokens
  /\ faults \in 0 .. MaxFaults
  /\ unwritten \subseteq Slugs
  /\ \A t \in live : t.nr <= issued

(* ... and that of the goroutines.                                         *)
HandOK(w) ==
  /\ pc[w] \in Points
  /\ job[w] \in AllJobs \cup {"none"}
  /\ slug[w] \in Slugs \cup {NoSlug}
  /\ held[w] \in Stored
  /\ fresh[w] \in Stored
  /\ pc[w] = "idle" =>
       job[w] = "none" /\ slug[w] = NoSlug /\ held[w] = NoToken
       /\ fresh[w] = NoToken
  /\ WorkerOK(w)

HandsOK ==
  /\ pc = [w \in Workers |-> pc[w]] /\ job = [w \in Workers |-> job[w]]
  /\ slug = [w \in Workers |-> slug[w]] /\ held = [w \in Workers |-> held[w]]
  /\ fresh = [w \in Workers |-> fresh[w]]
  /\ \A w \in Workers : HandOK(w)

LEMMA TypeInvParts == TypeInv <=> DiskOK /\ HandsOK
<1>1. TypeInv => DiskOK /\ HandsOK
  BY DEF TypeInv, TypeOK, WorkersOK, DiskOK, HandsOK, HandOK
<1>2. DiskOK /\ HandsOK => TypeInv
  <2> SUFFICES ASSUME DiskOK, HandsOK PROVE TypeInv
    OBVIOUS
  <2>1. pc \in [Workers -> Points]
    BY DEF HandsOK, HandOK
  <2>2. job \in [Workers -> AllJobs \cup {"none"}]
    BY DEF HandsOK, HandOK
  <2>3. slug \in [Workers -> Slugs \cup {NoSlug}]
    BY DEF HandsOK, HandOK
  <2>4. held \in [Workers -> Stored]
    BY DEF HandsOK, HandOK
  <2>5. fresh \in [Workers -> Stored]
    BY DEF HandsOK, HandOK
  <2>6. \A w \in Workers : WorkerOK(w) /\ (pc[w] = "idle" =>
          job[w] = "none" /\ slug[w] = NoSlug /\ held[w] = NoToken
          /\ fresh[w] = NoToken)
    BY DEF HandsOK, HandOK
  <2> QED
    BY <2>1, <2>2, <2>3, <2>4, <2>5, <2>6
       DEF TypeInv, TypeOK, WorkersOK, DiskOK
<1> QED BY <1>1, <1>2

-----------------------------------------------------------------------------
(* What the shared moves do.                                               *)

LEMMA Numbers ==
  /\ MaxTokens \in Nat /\ MaxFaults \in Nat /\ NoSlug = 0 /\ NoSlug \notin Slugs
  /\ Slugs \subseteq Nat /\ NoUser \notin Users /\ NoToken \notin Token
  /\ \A t \in Token : t.user \in Users /\ t.nr \in 1 .. MaxTokens
BY NamesAssumption, BoundsAssumption, TokenAssumption DEF Token

(* ensureLocked's import.                                                  *)
LEMMA EnsuredIs ==
  ASSUME DiskOK
  PROVE  /\ Ensured.index \in [Slugs -> Users \cup {NoUser}]
         /\ Ensured.current \in Slugs \cup {NoSlug}
         /\ Ensured.file \in [Slugs -> Stored]
         /\ ~ Importing => /\ Ensured.index = index
                           /\ Ensured.current = current
                           /\ Ensured.file = file
         /\ Importing =>
              \E s \in Slugs :
                /\ s = AutoName[activation.user]
                /\ activation \in Token
                /\ Ensured.index = [index EXCEPT ![s] = activation.user]
                /\ Ensured.current = s
                /\ Ensured.file = [file EXCEPT ![s] = activation]
<1> USE NamesAssumption, Numbers
<1>1. CASE ~ Importing
  BY <1>1 DEF Ensured, DiskOK
<1>2. CASE Importing
  <2>1. activation \in Token /\ activation.user \in Users
        /\ AutoName[activation.user] \in Slugs
    BY <1>2 DEF Importing, DiskOK, Stored
  <2> QED BY <1>2, <2>1 DEF Ensured, DiskOK, Stored
<1> QED BY <1>1, <1>2

LEMMA FirstOfIs ==
  ASSUME NEW rest \in SUBSET Slugs
  PROVE  FirstOf(rest) \in rest \cup {NoSlug}
         /\ (rest # {} => FirstOf(rest) \in rest)
<1>1. rest # {} => \E t \in rest : \A u \in rest : t <= u
  BY Numbers, LeastNatural
<1> QED BY <1>1 DEF FirstOf

LEMMA SuccessorIs ==
  ASSUME DiskOK, NEW t \in Token, issued < MaxTokens
  PROVE  /\ Successor(t) \in Token
         /\ Successor(t).user = t.user
         /\ Successor(t).nr = issued + 1
BY Numbers DEF DiskOK, Successor, Token

LEMMA BeginKeeps ==
  ASSUME HandsOK, NEW w \in Workers, NEW to, NEW j, NEW s, NEW t,
         Begin(w, to, j, s, t),
         \/ to = "refresh" /\ t \in Token /\ j = "global" /\ s = NoSlug
         \/ to = "cascade" /\ t = NoToken /\ j = "remove"
            /\ s \in Slugs \cup {NoSlug} /\ fresh[w] = NoToken
  PROVE  HandsOK'
<1> SUFFICES ASSUME NEW v \in Workers PROVE HandOK(v)'
  BY DEF HandsOK, Begin, Goto
<1>1. HandOK(v)
  BY DEF HandsOK
<1>2. CASE v # w
  BY <1>1, <1>2 DEF HandsOK, HandOK, WorkerOK, Begin, Goto
<1>3. CASE v = w
  BY <1>1, <1>3 DEF HandsOK, HandOK, WorkerOK, Begin, Goto, Points, AllJobs,
     AccountJobs, Flown, Rotated, OfActivation, Stored
<1> QED BY <1>2, <1>3

LEMMA BeginRefreshKeeps ==
  ASSUME HandsOK, NEW w \in Workers, NEW j \in AccountJobs, NEW s \in Slugs,
         NEW t \in Token, Begin(w, "refresh", j, s, t),
         j \in Flown => fresh[w] = NoToken
  PROVE  HandsOK'
<1> SUFFICES ASSUME NEW v \in Workers PROVE HandOK(v)'
  BY DEF HandsOK, Begin, Goto
<1>1. HandOK(v)
  BY DEF HandsOK
<1>2. CASE v # w
  BY <1>1, <1>2 DEF HandsOK, HandOK, WorkerOK, Begin, Goto
<1>3. CASE v = w
  BY <1>1, <1>3 DEF HandsOK, HandOK, WorkerOK, Begin, Goto, Points, AllJobs,
     AccountJobs, Flown, Rotated, OfActivation, Stored
<1> QED BY <1>2, <1>3

LEMMA StopKeeps ==
  ASSUME HandsOK, NEW W, Stop(W)
  PROVE  HandsOK'
<1> SUFFICES ASSUME NEW v \in Workers PROVE HandOK(v)'
  BY DEF HandsOK, Stop
<1>1. HandOK(v)
  BY DEF HandsOK
<1>2. CASE v \in W
  BY <1>1, <1>2 DEF HandsOK, HandOK, WorkerOK, Stop, Points, AllJobs,
     AccountJobs, Rotated, OfActivation, Stored
<1>3. CASE v \notin W
  BY <1>1, <1>3 DEF HandsOK, HandOK, WorkerOK, Stop
<1> QED BY <1>2, <1>3

LEMMA GotoKeeps ==
  ASSUME HandsOK, NEW w \in Workers, NEW to \in Points,
         Goto(w, to), UNCHANGED <<job, slug, held, fresh>>,
         \/ pc[w] \in Rotated /\ to \in Rotated
         \/ pc[w] \in OfActivation /\ to \in OfActivation
  PROVE  HandsOK'
<1> SUFFICES ASSUME NEW v \in Workers PROVE HandOK(v)'
  BY DEF HandsOK, Goto
<1>1. HandOK(v) /\ pc \in [Workers -> Points]
  BY DEF HandsOK, HandOK
<1>2. CASE v # w
  BY <1>1, <1>2 DEF HandOK, WorkerOK, Goto
<1>3. CASE v = w
  BY <1>1, <1>3 DEF HandOK, WorkerOK, Goto, Rotated, OfActivation
<1> QED BY <1>2, <1>3

LEMMA LandKeeps ==
  ASSUME HandsOK, NEW J \in SUBSET Workers, NEW h \in Token, NEW t \in Token,
         Land(J, h, t),
         \A v \in J : pc[v] \in {"refresh", "joined"} \cup OfActivation
  PROVE  HandsOK'
<1> SUFFICES ASSUME NEW v \in Workers PROVE HandOK(v)'
  BY DEF HandsOK, Land
<1>1. HandOK(v)
  BY DEF HandsOK
<1>2. CASE v \notin J
  BY <1>1, <1>2 DEF HandOK, WorkerOK, Land
<1>3. CASE v \in J /\ job[v] = "global"
  <2>1. slug[v] = NoSlug
    BY <1>1, <1>3 DEF HandOK, WorkerOK
  <2> QED
    BY <1>1, <1>3, <2>1 DEF HandOK, WorkerOK, Land, Points, AllJobs,
       AccountJobs, Rotated, OfActivation, Stored
<1>4. CASE v \in J /\ job[v] # "global"
  <2>1. pc[v] \in {"refresh", "joined"} /\ job[v] \in AccountJobs
    BY <1>1, <1>4 DEF HandOK, WorkerOK, OfActivation
  <2>2. /\ pc'[v] = "persist" /\ job'[v] = job[v] /\ held'[v] = h
        /\ fresh'[v] = t /\ slug'[v] = slug[v]
    BY <1>4 DEF Land
  <2> QED
    BY <1>1, <2>1, <2>2 DEF HandOK, WorkerOK, Points, AllJobs,
       AccountJobs, Rotated, OfActivation, Stored
<1> QED BY <1>2, <1>3, <1>4

LEMMA ConcludeKeeps ==
  ASSUME HandsOK, NEW w \in Workers, pc[w] \in Rotated, Conclude(w)
  PROVE  HandsOK'
<1>1. CASE Stop({w})
  BY <1>1, StopKeeps
<1>2. CASE Begin(w, "refresh", "fetch", slug[w], fresh[w]) /\ job[w] = "key"
  <2>1. HandOK(w)
    BY DEF HandsOK
  <2>2. fresh[w] \in Token /\ slug[w] \in Slugs
    BY <2>1, <1>2 DEF HandOK, WorkerOK, AccountJobs
  <2> HIDE <1>2
  <2>3. "fetch" \in AccountJobs /\ "fetch" \notin Flown
    BY DEF AccountJobs, Flown
  <2> QED BY <1>2, <2>2, <2>3, BeginRefreshKeeps
<1> QED BY <1>1, <1>2 DEF Conclude

LEMMA PrefetchKeeps ==
  ASSUME HandsOK, NEW w \in Workers, NEW s \in Slugs, file[s] \in Token,
         Prefetch(w, s)
  PROVE  HandsOK'
<1>1. CASE Stop({w})
  BY <1>1, StopKeeps
<1>2. CASE Begin(w, "refresh", "activate", s, file[s])
  <2>1. "activate" \in AccountJobs /\ "activate" \notin Flown
    BY DEF AccountJobs, Flown
  <2> QED BY <1>2, <2>1, BeginRefreshKeeps
<1> QED BY <1>1, <1>2 DEF Prefetch

-----------------------------------------------------------------------------
(* Type correctness: the goroutines.                                       *)

LEMMA AdministerKeepsHands ==
  ASSUME TypeInv, NEW w \in Workers, Administer(w)
  PROVE  HandsOK'
<1>0. DiskOK /\ HandsOK /\ HandOK(w)
  BY TypeInvParts DEF HandsOK
<1> USE Numbers
<1>1. ASSUME NEW s \in Slugs, ActivateAccount(w, s) PROVE HandsOK'
  <2>1. file[s] \in Token
    BY <1>0, <1>1 DEF DiskOK, Stored, ActivateAccount
  <2>2. CASE Prefetch(w, s)
    BY <1>0, <2>1, <2>2, PrefetchKeeps
  <2>3. CASE UNCHANGED workerVars
    BY <1>0, <2>3 DEF HandsOK, HandOK, WorkerOK, workerVars
  <2> QED BY <1>1, <2>2, <2>3 DEF ActivateAccount
<1>2. ASSUME NEW s \in Slugs, RemoveAccount(w, s) PROVE HandsOK'
  <2>1. CASE current # s
    BY <1>0, <1>2, <2>1 DEF RemoveAccount, HandsOK, HandOK, WorkerOK, workerVars
  <2>2. CASE current = s
    <3>1. /\ Begin(w, "cascade", "remove", current', NoToken)
          /\ current' \in Slugs \cup {NoSlug} /\ pc[w] = "idle"
      BY <1>2, <2>2, FirstOfIs DEF RemoveAccount, Registered
    <3>2. fresh[w] = NoToken
      BY <1>0, <3>1 DEF HandOK
    <3> QED BY <1>0, <3>1, <3>2, BeginKeeps
  <2> QED BY <2>1, <2>2
<1>3. ASSUME Cascade(w) PROVE HandsOK'
  <2>1. CASE slug[w] # NoSlug /\ file[slug[w]] # NoToken /\ Prefetch(w, slug[w])
    <3>1. slug[w] \in Slugs /\ file[slug[w]] \in Token
      BY <1>0, <2>1 DEF HandOK, DiskOK, Stored
    <3> QED BY <1>0, <2>1, <3>1, PrefetchKeeps
  <2>2. CASE Stop({w})
    BY <1>0, <2>2, StopKeeps
  <2> QED BY <1>3, <2>1, <2>2 DEF Cascade
<1> QED BY <1>1, <1>2, <1>3 DEF Administer

LEMMA RefreshKeepsHands ==
  ASSUME TypeInv, NEW w \in Workers, Refresh(w)
  PROVE  HandsOK'
<1>0. DiskOK /\ HandsOK /\ HandOK(w) /\ held[w] \in Stored
  BY TypeInvParts DEF HandsOK, HandOK
<1> USE Numbers
<1>w. pc[w] \notin {"idle", "cascade"} => held[w] \in Token
  BY <1>0 DEF HandOK, WorkerOK
<1>f. pc[w] \in OfActivation \cup Rotated => fresh[w] \in Token
  BY <1>0 DEF HandOK, WorkerOK
<1>1. ASSUME NEW s \in Slugs, NEW j \in Refreshers, Load(w, s, j)
      PROVE  HandsOK'
  <2>1. file[s] \in Token /\ j \in AccountJobs /\ fresh[w] = NoToken
    BY <1>0, <1>1 DEF DiskOK, Stored, Load, Refreshers, AccountJobs, HandOK
  <2>2. Begin(w, "refresh", j, s, file[s])
    BY <1>1 DEF Load
  <2> QED BY <1>0, <2>1, <2>2, BeginRefreshKeeps
<1>2. ASSUME LoadActivation(w) PROVE HandsOK'
  <2>1. activation \in Token
    BY <1>0, <1>2 DEF DiskOK, Stored, LoadActivation
  <2>2. Begin(w, "refresh", "global", NoSlug, activation)
    BY <1>2 DEF LoadActivation
  <2> QED BY <1>0, <2>1, <2>2, BeginKeeps
<1>3. ASSUME RefreshAccount(w) PROVE HandsOK'
  <2>1. pc[w] = "refresh" /\ held[w] \in Token /\ issued < MaxTokens
    BY <1>3, <1>w DEF RefreshAccount, Rotate
  <2>2. Successor(held[w]) \in Token
    BY <1>0, <2>1, SuccessorIs
  <2>3. PICK J \in SUBSET Waiting(w) : Land(J, held[w], Successor(held[w]))
    BY <1>3 DEF RefreshAccount
  <2>4. J \in SUBSET Workers /\ \A v \in J : pc[v] = "refresh"
    BY <2>3 DEF Waiting
  <2> QED BY <1>0, <2>1, <2>2, <2>3, <2>4, LandKeeps
<1>4. ASSUME RefreshActivation(w) PROVE HandsOK'
  <2>1. /\ pc[w] = "refresh" /\ held[w] \in Token /\ issued < MaxTokens
        /\ job[w] = "global"
        /\ fresh' = [fresh EXCEPT ![w] = Successor(held[w])]
        /\ UNCHANGED <<job, slug>>
    BY <1>4, <1>w DEF RefreshActivation, Rotate
  <2>2. Successor(held[w]) \in Token
    BY <1>0, <2>1, SuccessorIs
  <2>3. PICK J \in SUBSET (Waiting(w) \ {w}) :
          /\ pc' = [v \in Workers |-> IF v = w THEN "check"
                                      ELSE IF v \in J THEN "joined" ELSE pc[v]]
          /\ held' = [v \in Workers |-> IF v \in J THEN held[w] ELSE held[v]]
    BY <1>4 DEF RefreshActivation
  <2>4. w \notin J /\ \A v \in J : v \in Workers /\ pc[v] = "refresh"
    BY <2>3 DEF Waiting
  <2> SUFFICES ASSUME NEW v \in Workers PROVE HandOK(v)'
    BY <1>0, <2>1, <2>3 DEF HandsOK
  <2>5. HandOK(v)
    BY <1>0 DEF HandsOK
  <2>6. CASE v = w
    BY <1>0, <2>1, <2>2, <2>3, <2>5, <2>6 DEF HandsOK, HandOK, WorkerOK, Points,
       AllJobs, AccountJobs, Rotated, OfActivation, Stored
  <2>7. CASE v \in J
    BY <1>0, <2>1, <2>3, <2>4, <2>5, <2>7 DEF HandsOK, HandOK, WorkerOK,
       Points, Rotated, OfActivation, Stored
  <2>8. CASE v # w /\ v \notin J
    BY <1>0, <2>1, <2>3, <2>5, <2>8 DEF HandsOK, HandOK, WorkerOK
  <2> QED BY <2>6, <2>7, <2>8
<1>5. ASSUME RefreshFails(w) PROVE HandsOK'
  BY <1>0, <1>5, StopKeeps DEF RefreshFails
<1>6. ASSUME Persist(w) PROVE HandsOK'
  <2>1. PICK to \in {"retry", "ask"} : Goto(w, to)
    BY <1>6 DEF Persist
  <2>2. to \in Points /\ to \in Rotated /\ pc[w] \in Rotated
    BY <1>6 DEF Persist, Points, Rotated
  <2>3. UNCHANGED <<job, slug, held, fresh>>
    BY <1>6 DEF Persist
  <2> QED BY <1>0, <2>1, <2>2, <2>3, GotoKeeps
<1>7. ASSUME AskCurrent(w) PROVE HandsOK'
  <2>1. pc[w] \in Rotated /\ "align" \in Points /\ "align" \in Rotated
    BY <1>7 DEF AskCurrent, Rotated, Points
  <2>2. CASE Conclude(w)
    BY <1>0, <2>1, <2>2, ConcludeKeeps
  <2>3. CASE Goto(w, "align") /\ UNCHANGED <<job, slug, held, fresh>>
    BY <1>0, <2>1, <2>3, GotoKeeps
  <2> QED BY <1>7, <2>2, <2>3 DEF AskCurrent
<1>8. ASSUME Align(w) PROVE HandsOK'
  BY <1>0, <1>8, ConcludeKeeps DEF Align, Rotated
<1>9. ASSUME CheckActivation(w) \/ WriteActivation(w) PROVE HandsOK'
  <2>1. PICK to \in {"write", "rescue", "report"} : Goto(w, to)
    BY <1>9 DEF CheckActivation, WriteActivation
  <2>2. to \in Points /\ to \in OfActivation /\ pc[w] \in OfActivation
    BY <1>9 DEF CheckActivation, WriteActivation, Points, OfActivation
  <2>3. UNCHANGED <<job, slug, held, fresh>>
    BY <1>9 DEF CheckActivation, WriteActivation
  <2> QED BY <1>0, <2>1, <2>2, <2>3, GotoKeeps
<1>10. ASSUME ReportRefreshed(w) \/ RescueRotation(w) PROVE HandsOK'
  <2>1. pc[w] \in OfActivation /\ Land({w} \cup Joined(w), held[w], fresh[w])
        /\ held[w] \in Token
    BY <1>10, <1>w DEF ReportRefreshed, RescueRotation, OfActivation
  <2>2. {w} \cup Joined(w) \in SUBSET Workers
        /\ \A v \in {w} \cup Joined(w) :
             pc[v] \in {"refresh", "joined"} \cup OfActivation
    BY <2>1 DEF Joined
  <2> HIDE DEF Joined
  <2> QED BY <1>0, <1>f, <2>1, <2>2, LandKeeps
<1> QED BY <1>1, <1>2, <1>3, <1>4, <1>5, <1>6, <1>7, <1>8, <1>9, <1>10 DEF Refresh

-----------------------------------------------------------------------------
(* Type correctness: the files and the upstream.                           *)

UpstreamOK ==
  /\ live \subseteq Token /\ unheard \subseteq Token
  /\ issued \in 0 .. MaxTokens
  /\ \A t \in live : t.nr <= issued

LEMMA RotateKeeps ==
  ASSUME DiskOK, NEW t \in Token, Rotate(t)
  PROVE  UpstreamOK'
<1>1. issued < MaxTokens /\ issued' = issued + 1
      /\ live' = (live \ {t}) \cup {Successor(t)} /\ unheard' = unheard
  BY DEF Rotate
<1>2. Successor(t) \in Token /\ Successor(t).nr = issued + 1
  BY <1>1, SuccessorIs
<1>3. \A u \in live : u.nr <= issued' /\ u.nr \in 1 .. MaxTokens
  BY <1>1, Numbers DEF DiskOK
<1> QED BY <1>1, <1>2, <1>3, Numbers DEF DiskOK, UpstreamOK

LEMMA FailsKeeps ==
  ASSUME DiskOK, NEW part, Fails(part)
  PROVE  faults' \in 0 .. MaxFaults
BY Numbers DEF DiskOK, Fails

LEMMA RestoredIs ==
  ASSUME NEW prev \in Slugs \cup {NoSlug}, NEW files \in [Slugs -> Stored],
         NEW t \in Stored
  PROVE  Restored(prev, files, t) \in Stored
BY Numbers DEF Restored, Stored

LEMMA NextToken ==
  ASSUME DiskOK, NEW u \in Users, issued < MaxTokens
  PROVE  /\ [user |-> u, nr |-> issued + 1] \in Token
         /\ /\ issued' = issued + 1
            /\ live' = live \cup {[user |-> u, nr |-> issued + 1]}
            /\ UNCHANGED unheard
            => UpstreamOK'
<1> DEFINE t == [user |-> u, nr |-> issued + 1]
<1>1. t \in Token /\ t.nr = issued + 1
  BY Numbers DEF DiskOK, Token
<1>2. \A v \in live : v.nr <= issued + 1
  BY Numbers DEF DiskOK
<1> HIDE DEF t
<1>3. issued' = issued + 1 /\ live' = live \cup {t} /\ UNCHANGED unheard
        => UpstreamOK'
  BY <1>1, <1>2, Numbers DEF DiskOK, UpstreamOK
<1> QED BY <1>1, <1>3 DEF t

LEMMA SwitchKeeps ==
  ASSUME DiskOK, NEW s \in Slugs, file[s] # NoToken, Switch(s),
         UNCHANGED upstreamVars, unwritten' \subseteq Slugs
  PROVE  DiskOK'
<1>1. file[s] \in Token /\ file[s].user \in Users
  BY Numbers DEF DiskOK, Stored
<1>2. CASE activation' = file[s]
  <2>1. faults' \in 0 .. MaxFaults
    BY FailsKeeps DEF Switch, DiskOK
  <2> QED BY <1>1, <1>2, <2>1 DEF Switch, DiskOK, upstreamVars
<1>3. CASE UNCHANGED <<index, current, file>> /\ Fails("switch")
           /\ activation' \in {activation, Restored(current, file, file[s])}
  <2>1. Restored(current, file, file[s]) \in Stored
    BY <1>1, RestoredIs DEF DiskOK, Stored
  <2>2. faults' \in 0 .. MaxFaults
    BY <1>3, FailsKeeps
  <2> QED BY <1>3, <2>1, <2>2 DEF DiskOK, upstreamVars
<1> QED BY <1>2, <1>3 DEF Switch

LEMMA LoginKeepsDisk ==
  ASSUME DiskOK, NEW u \in Users, NEW s \in Slugs, Login(u, s),
         unwritten' \subseteq Slugs
  PROVE  DiskOK'
<1> DEFINE t == [user |-> u, nr |-> issued + 1]
           files == [Ensured.file EXCEPT ![s] = t]
<1>1. t \in Token /\ UpstreamOK'
  BY NextToken DEF Login
<1>2. /\ Ensured.index \in [Slugs -> Users \cup {NoUser}]
      /\ Ensured.current \in Slugs \cup {NoSlug}
      /\ Ensured.file \in [Slugs -> Stored]
  BY EnsuredIs
<1>3. files \in [Slugs -> Stored]
  BY <1>1, <1>2 DEF Stored
<1>4. CASE /\ file' = files
           /\ index' = [Ensured.index EXCEPT ![s] = u]
           /\ current' = s
           /\ activation' = t
           /\ UNCHANGED faults
  BY <1>1, <1>2, <1>3, <1>4 DEF DiskOK, UpstreamOK, Stored
<1>5. CASE /\ Fails("login")
           /\ index' = Ensured.index
           /\ current' = Ensured.current
           /\ \/ file' = Ensured.file /\ UNCHANGED activation
              \/ /\ file' = files
                 /\ activation' \in {activation, Restored(current', files, t)}
  <2>1. Restored(current', files, t) \in Stored
    <3>1. current' \in Slugs \cup {NoSlug} /\ t \in Stored
      BY <1>1, <1>2, <1>5 DEF Stored
    <3> HIDE DEF files, t
    <3> QED BY <1>3, <3>1, RestoredIs
  <2>2. faults' \in 0 .. MaxFaults
    BY <1>5, FailsKeeps
  <2> QED BY <1>1, <1>2, <1>3, <1>5, <2>1, <2>2 DEF DiskOK, UpstreamOK
<1>6. \/ /\ file' = files
         /\ index' = [Ensured.index EXCEPT ![s] = u]
         /\ current' = s
         /\ activation' = t
         /\ UNCHANGED faults
      \/ /\ Fails("login")
         /\ index' = Ensured.index
         /\ current' = Ensured.current
         /\ \/ file' = Ensured.file /\ UNCHANGED activation
            \/ /\ file' = files
               /\ activation' \in {activation, Restored(current', files, t)}
  BY DEF Login
<1> QED BY <1>4, <1>5, <1>6

LEMMA AdministerKeepsDisk ==
  ASSUME TypeInv, NEW w \in Workers, Administer(w),
         unwritten' \subseteq Slugs
  PROVE  DiskOK'
<1> USE Numbers
<1>0. DiskOK /\ HandOK(w)
  BY TypeInvParts DEF HandsOK
<1>1. ASSUME NEW s \in Slugs, ActivateAccount(w, s) PROVE DiskOK'
  BY <1>0, <1>1, SwitchKeeps DEF ActivateAccount
<1>2. ASSUME NEW s \in Slugs, RemoveAccount(w, s) PROVE DiskOK'
  <2>1. current' \in Slugs \cup {NoSlug}
    BY <1>0, <1>2, FirstOfIs DEF RemoveAccount, Registered, DiskOK
  <2> QED BY <1>0, <1>2, <2>1 DEF RemoveAccount, DiskOK, upstreamVars, Stored
<1>3. ASSUME Cascade(w) PROVE DiskOK'
  <2>1. CASE slug[w] # NoSlug /\ file[slug[w]] # NoToken /\ Switch(slug[w])
    <3>1. slug[w] \in Slugs
      BY <1>0, <2>1 DEF HandOK
    <3> QED BY <1>0, <1>3, <2>1, <3>1, SwitchKeeps DEF Cascade
  <2>2. CASE /\ UNCHANGED faults \/ Fails("switch")
             /\ activation' = NoToken
             /\ UNCHANGED <<index, current, file>>
    <3>1. faults' \in 0 .. MaxFaults
      BY <1>0, <2>2, FailsKeeps DEF DiskOK
    <3> QED BY <1>0, <1>3, <2>2, <3>1 DEF Cascade, DiskOK, upstreamVars, Stored
  <2> QED BY <1>3, <2>1, <2>2 DEF Cascade
<1> QED BY <1>1, <1>2, <1>3 DEF Administer

LEMMA RefreshKeepsDisk ==
  ASSUME TypeInv, NEW w \in Workers, Refresh(w),
         unwritten' \subseteq Slugs
  PROVE  DiskOK'
<1> USE Numbers
<1>0. DiskOK /\ HandOK(w)
  BY TypeInvParts DEF HandsOK
<1>w. pc[w] \notin {"idle", "cascade"} => held[w] \in Token
  BY <1>0 DEF HandOK, WorkerOK
<1>f. pc[w] \in OfActivation \cup Rotated =>
        fresh[w] \in Token /\ fresh[w] \in Stored /\ fresh[w].user \in Users
  BY <1>0 DEF HandOK, WorkerOK, Stored
<1>1. ASSUME UNCHANGED <<diskVars, upstreamVars, faults>> PROVE DiskOK'
  BY <1>0, <1>1 DEF DiskOK, diskVars, upstreamVars
<1>2. ASSUME RefreshAccount(w) \/ RefreshActivation(w) PROVE DiskOK'
  <2>1. Rotate(held[w]) /\ held[w] \in Token /\ UNCHANGED <<diskVars, faults>>
    BY <1>2, <1>w DEF RefreshAccount, RefreshActivation
  <2>2. UpstreamOK'
    BY <1>0, <2>1, RotateKeeps
  <2> QED BY <1>0, <2>1, <2>2 DEF DiskOK, UpstreamOK, diskVars
<1>3. ASSUME Persist(w) PROVE DiskOK'
  <2>1. pc[w] \in Rotated
    BY <1>3 DEF Persist, Rotated
  <2>2. /\ index' \in [Slugs -> Users \cup {NoUser}]
        /\ file' \in [Slugs -> Stored]
    BY <1>0, <1>3, <1>f, <2>1 DEF Persist, SyncRotatedCreds, DiskOK
  <2> QED BY <1>0, <1>3, <2>2 DEF Persist, DiskOK, upstreamVars
<1>4. ASSUME AskCurrent(w) PROVE DiskOK'
  BY <1>0, <1>4, EnsuredIs DEF AskCurrent, DiskOK, upstreamVars
<1>5. ASSUME Align(w) \/ WriteActivation(w) PROVE DiskOK'
  <2>1. activation' \in Stored
    BY <1>0, <1>5, <1>f DEF Align, WriteActivation, SyncActivationCreds,
       Rotated, OfActivation, DiskOK
  <2> QED BY <1>0, <1>5, <2>1 DEF Align, WriteActivation, DiskOK, upstreamVars
<1>6. ASSUME ReportRefreshed(w) \/ RescueRotation(w) PROVE DiskOK'
  <2>1. file' \in [Slugs -> Stored]
    <3>1. CASE ReportRefreshed(w)
      BY <1>0, <3>1 DEF ReportRefreshed, SyncCurrent, DiskOK
    <3>2. CASE RescueRotation(w)
      BY <1>0, <1>f, <3>2 DEF RescueRotation, OfActivation, Registered, DiskOK
    <3> QED BY <1>6, <3>1, <3>2
  <2> QED
    BY <1>0, <1>6, <2>1 DEF ReportRefreshed, RescueRotation, DiskOK,
       upstreamVars
<1>7. ASSUME RefreshFails(w), AnswerLost(w) PROVE DiskOK'
  <2>1. faults' \in 0 .. MaxFaults
    BY <1>0, <1>7, FailsKeeps DEF AnswerLost
  <2>2. held[w] \in Token
    BY <1>7, <1>w DEF RefreshFails
  <2> QED BY <1>0, <1>7, <2>1, <2>2 DEF RefreshFails, AnswerLost, DiskOK, diskVars
<1> QED
  BY <1>1, <1>2, <1>3, <1>4, <1>5, <1>6, <1>7
     DEF Refresh, Load, LoadActivation, RefreshFails, CheckActivation

LEMMA CrashKeepsDisk ==
  ASSUME TypeInv, Crash, unwritten' \subseteq Slugs
  PROVE  DiskOK'
<1> USE Numbers
<1>0. DiskOK /\ HandsOK
  BY TypeInvParts
<1>1. faults' \in 0 .. MaxFaults
  BY <1>0, FailsKeeps DEF Crash
<1>2. CASE CutLogin
  <2>0. PICK u \in Users : \E s \in Named[u] :
          LET t == [user |-> u, nr |-> issued + 1]
          IN  /\ issued < MaxTokens
              /\ issued' = issued + 1
              /\ live' = live \cup {t} /\ UNCHANGED unheard
              /\ file' = [Ensured.file EXCEPT ![s] = t]
              /\ index' = Ensured.index
              /\ current' = Ensured.current
              /\ activation' \in {activation, t}
    BY <1>2 DEF CutLogin
  <2>1. PICK s \in Named[u] :
          LET t == [user |-> u, nr |-> issued + 1]
          IN  /\ issued < MaxTokens
              /\ issued' = issued + 1
              /\ live' = live \cup {t} /\ UNCHANGED unheard
              /\ file' = [Ensured.file EXCEPT ![s] = t]
              /\ index' = Ensured.index
              /\ current' = Ensured.current
              /\ activation' \in {activation, t}
    BY <2>0
  <2> DEFINE t == [user |-> u, nr |-> issued + 1]
  <2>2. t \in Token /\ UpstreamOK'
    BY <1>0, <2>1, NextToken
  <2>3. s \in Slugs
    BY NamesAssumption
  <2> QED BY <1>0, <1>1, <2>1, <2>2, <2>3, EnsuredIs DEF DiskOK, UpstreamOK,
             Stored
<1>3. CASE CutSwitch
  BY <1>0, <1>1, <1>3 DEF CutSwitch, DiskOK, upstreamVars
<1>4. CASE CutRemoval
  <2>1. PICK s \in Registered :
          /\ index' = [index EXCEPT ![s] = NoUser]
          /\ current' = IF current = s THEN FirstOf(Registered \ {s})
                        ELSE current
          /\ UNCHANGED <<file, activation, upstreamVars>>
    BY <1>4 DEF CutRemoval
  <2>2. FirstOf(Registered \ {s}) \in Slugs \cup {NoSlug}
    BY FirstOfIs DEF Registered
  <2> QED BY <1>0, <1>1, <2>1, <2>2 DEF DiskOK, upstreamVars
<1>5. CASE CutImport
  BY <1>0, <1>1, <1>5, EnsuredIs DEF CutImport, DiskOK, upstreamVars
<1>6. CASE CutPersist
  <2>1. PICK w \in Workers :
          /\ pc[w] \in Rotated /\ slug[w] \in Slugs
          /\ file' = [file EXCEPT ![slug[w]] = fresh[w]]
          /\ UNCHANGED <<index, current, activation, upstreamVars>>
    BY <1>6 DEF CutPersist, Rotated, Registered
  <2>2. fresh[w] \in Stored
    BY <1>0 DEF HandsOK, HandOK
  <2> QED BY <1>0, <1>1, <2>1, <2>2 DEF DiskOK, upstreamVars
<1>7. CASE UNCHANGED <<diskVars, upstreamVars>>
  BY <1>0, <1>1, <1>7 DEF DiskOK, diskVars, upstreamVars
<1> QED BY <1>2, <1>3, <1>4, <1>5, <1>6, <1>7 DEF Crash

-----------------------------------------------------------------------------
LEMMA TypeInitial == Init => TypeInv
BY Numbers DEF Init, TypeInv, TypeOK, WorkersOK, WorkerOK, Stored, Points,
   Registered, AccountJobs, Rotated, OfActivation

LEMMA TypeNext == TypeInv /\ [Next]_vars => TypeInv'
<1> SUFFICES ASSUME TypeInv, [Next]_vars PROVE TypeInv'
  OBVIOUS
<1>0. DiskOK /\ HandsOK
  BY TypeInvParts
<1>p. DiskOK' /\ HandsOK' => TypeInv'
  BY TypeInvParts, PTL
<1>1. CASE Next
  <2>1. unwritten' \subseteq Slugs
    BY <1>1 DEF Next, Registered, TypeInv, TypeOK
  <2>2. ASSUME NEW u \in Users, NEW s \in Slugs, Login(u, s) PROVE TypeInv'
    <3>1. HandsOK'
      BY <1>0, <2>2 DEF Login, workerVars, HandsOK, HandOK, WorkerOK
    <3> QED BY <1>0, <2>1, <2>2, <1>p, <3>1, LoginKeepsDisk
  <2>3. ASSUME NEW w \in Workers, Administer(w) PROVE TypeInv'
    BY <1>p, <2>1, <2>3, AdministerKeepsDisk, AdministerKeepsHands
  <2>4. ASSUME NEW w \in Workers, Refresh(w) PROVE TypeInv'
    BY <1>p, <2>1, <2>4, RefreshKeepsDisk, RefreshKeepsHands
  <2>5. ASSUME Crash PROVE TypeInv'
    <3>1. HandsOK'
      BY <1>0, <2>5, StopKeeps DEF Crash
    <3> QED BY <2>1, <2>5, <1>p, <3>1, CrashKeepsDisk
  <2>6. ASSUME Look PROVE TypeInv'
    <3>1. HandsOK'
      BY <1>0, <2>6 DEF Look, workerVars, HandsOK, HandOK, WorkerOK
    <3>2. DiskOK'
      BY <1>0, <2>1, <2>6, EnsuredIs DEF Look, DiskOK, upstreamVars
    <3> QED BY <1>p, <3>1, <3>2
  <2> QED BY <1>1, <2>2, <2>3, <2>4, <2>5, <2>6 DEF Next
<1>2. CASE UNCHANGED vars
  BY <1>2 DEF vars, diskVars, upstreamVars, workerVars, TypeInv, TypeOK,
     WorkersOK, WorkerOK, Registered
<1> QED BY <1>1, <1>2

LEMMA TypeInvAlways == Spec => []TypeInv
BY TypeInitial, TypeNext, PTL DEF Spec

(* Whatever is under way, fails or is cut short, the registry, the files,  *)
(* codely-creds.json and every goroutine's credentials are what they       *)
(* should be, the upstream accepts only tokens it has issued, and a        *)
(* goroutine that is done holds nothing.                                   *)
THEOREM TypeCorrect == Spec => []TypeOK
BY TypeInvAlways, PTL DEF TypeInv

-----------------------------------------------------------------------------
(* While the process lives, no account is without a file.                  *)

NoCrash == "crash" \notin Failing

(* The steps of Next, as far as the files are concerned.                   *)
Switching(s) == file[s] \in Token /\ Switch(s)
Dropping == activation' = NoToken /\ UNCHANGED <<index, current, file>>
Ensuring ==
  /\ index' = Ensured.index /\ current' = Ensured.current
  /\ file' = Ensured.file /\ UNCHANGED activation

LEMMA NeverCrashes == NoCrash => ~ Crash
BY DEF NoCrash, Crash, Fails

LEMMA DiskCases ==
  ASSUME ~ Crash, TypeInv, [Next]_vars
  PROVE  \/ \E u \in Users, s \in Slugs : Login(u, s)
         \/ \E s \in Slugs : Switching(s)
         \/ \E w \in Workers, s \in Slugs : RemoveAccount(w, s)
         \/ Dropping
         \/ \E w \in Workers : Persist(w)
         \/ Ensuring
         \/ \E w \in Workers : Align(w)
         \/ \E w \in Workers : WriteActivation(w)
         \/ \E w \in Workers : ReportRefreshed(w)
         \/ \E w \in Workers : RescueRotation(w)
         \/ UNCHANGED diskVars
<1>0. DiskOK /\ \A w \in Workers : HandOK(w)
  BY TypeInvParts DEF HandsOK
<1>2. ASSUME NEW w \in Workers, NEW s \in Slugs, ActivateAccount(w, s)
      PROVE  Switching(s)
  BY <1>0, <1>2 DEF ActivateAccount, Switching, DiskOK, Stored
<1>3. ASSUME NEW w \in Workers, Cascade(w)
      PROVE  Dropping \/ \E s \in Slugs : Switching(s)
  <2>1. CASE slug[w] # NoSlug /\ file[slug[w]] # NoToken /\ Switch(slug[w])
    <3>1. slug[w] \in Slugs
      BY <1>0, <2>1 DEF HandOK
    <3> QED BY <1>0, <2>1, <3>1 DEF Switching, DiskOK, Stored
  <2> QED BY <1>3, <2>1 DEF Cascade, Dropping
<1>4. CASE UNCHANGED vars
  BY <1>4 DEF vars
<1>5. ASSUME NEW w \in Workers,
             \/ \E s \in Slugs, j \in Refreshers : Load(w, s, j)
             \/ LoadActivation(w) \/ RefreshAccount(w)
             \/ RefreshActivation(w) \/ RefreshFails(w) \/ CheckActivation(w)
      PROVE  UNCHANGED diskVars
  BY <1>5 DEF Load, LoadActivation, RefreshAccount, RefreshActivation,
     RefreshFails, CheckActivation
<1>6. ASSUME Look \/ \E w \in Workers : AskCurrent(w) PROVE Ensuring
  BY <1>6 DEF Look, AskCurrent, Ensuring
<1> QED BY <1>2, <1>3, <1>4, <1>5, <1>6 DEF Next, Administer, Refresh

FilesThere ==
  /\ \A s \in Slugs : index[s] # NoUser => file[s] # NoToken
  /\ current # NoSlug => index[current] # NoUser

LEMMA FilesThereNext ==
  ASSUME NoCrash, TypeInv, FilesThere, [Next]_vars
  PROVE  FilesThere'
<1> USE Numbers
<1>0. DiskOK /\ \A w \in Workers : HandOK(w)
  BY TypeInvParts DEF HandsOK
<1>e. /\ \A s \in Slugs : Ensured.index[s] # NoUser => Ensured.file[s] # NoToken
      /\ Ensured.current # NoSlug => Ensured.index[Ensured.current] # NoUser
  <2>1. CASE Importing
    <3>1. PICK s \in Slugs :
                /\ activation \in Token
                /\ Ensured.index = [index EXCEPT ![s] = activation.user]
                /\ Ensured.current = s
                /\ Ensured.file = [file EXCEPT ![s] = activation]
      BY <1>0, <2>1, EnsuredIs
    <3>2. activation.user \in Users
      BY <3>1
    <3> QED BY <1>0, <3>1, <3>2 DEF FilesThere, DiskOK
  <2>2. CASE ~ Importing
    BY <1>0, <2>2, EnsuredIs DEF FilesThere
  <2> QED BY <2>1, <2>2
<1>1. ASSUME NEW u \in Users, NEW s \in Slugs, Login(u, s) PROVE FilesThere'
  <2> DEFINE t == [user |-> u, nr |-> issued + 1]
  <2>1. t \in Token
    BY <1>0, <1>1, NextToken DEF Login
  <2>2. file' \in {Ensured.file, [Ensured.file EXCEPT ![s] = t]}
    BY <1>1 DEF Login
  <2>3. \/ /\ index' = [Ensured.index EXCEPT ![s] = u] /\ current' = s
           /\ file' = [Ensured.file EXCEPT ![s] = t]
        \/ index' = Ensured.index /\ current' = Ensured.current
    BY <1>1 DEF Login
  <2> HIDE DEF t
  <2> QED BY <1>0, <1>e, <2>1, <2>2, <2>3, EnsuredIs DEF FilesThere
<1>2. ASSUME NEW s \in Slugs, Switching(s) PROVE FilesThere'
  <2>1. file[s].user \in Users /\ file[s] # NoToken
    BY <1>2 DEF Switching
  <2> QED BY <1>0, <1>2, <2>1 DEF Switching, Switch, FilesThere, DiskOK
<1>3. ASSUME NEW w \in Workers, NEW s \in Slugs, RemoveAccount(w, s)
      PROVE  FilesThere'
  <2>1. FirstOf(Registered \ {s}) \in (Registered \ {s}) \cup {NoSlug}
    BY FirstOfIs DEF Registered
  <2>2. \/ current # s /\ current' = current
        \/ current' = FirstOf(Registered \ {s})
    BY <1>3 DEF RemoveAccount
  <2>3. /\ index' = [index EXCEPT ![s] = NoUser]
        /\ file' = [file EXCEPT ![s] = NoToken]
    BY <1>3 DEF RemoveAccount
  <2> QED BY <1>0, <2>1, <2>2, <2>3 DEF FilesThere, DiskOK, Registered
<1>4. ASSUME NEW w \in Workers, Persist(w) PROVE FilesThere'
  <2>1. fresh[w] \in Token /\ fresh[w].user \in Users
    BY <1>0, <1>4 DEF Persist, HandOK, WorkerOK, Rotated
  <2> QED BY <1>0, <1>4, <2>1 DEF Persist, SyncRotatedCreds, FilesThere,
             DiskOK, Registered
<1>5. ASSUME Ensuring PROVE FilesThere'
  BY <1>e, <1>5 DEF Ensuring, FilesThere
<1>6. ASSUME NEW w \in Workers, ReportRefreshed(w) PROVE FilesThere'
  BY <1>0, <1>6 DEF ReportRefreshed, SyncCurrent, FilesThere, DiskOK
<1>7. ASSUME NEW w \in Workers, RescueRotation(w) PROVE FilesThere'
  <2>1. fresh[w] \in Token
    BY <1>0, <1>7 DEF RescueRotation, HandOK, WorkerOK, OfActivation
  <2> QED BY <1>0, <1>7, <2>1 DEF RescueRotation, FilesThere, DiskOK,
             Registered
<1>8. ASSUME UNCHANGED <<index, current, file>> PROVE FilesThere'
  BY <1>8 DEF FilesThere
<1> QED
  BY <1>1, <1>2, <1>3, <1>4, <1>5, <1>6, <1>7, <1>8, DiskCases,
     NeverCrashes DEF Dropping, Align, WriteActivation, diskVars

-----------------------------------------------------------------------------
(* The file of a registered account is its own user's.                     *)

FilesOwn == \A s \in Slugs : index[s] # NoUser => file[s].user = index[s]

(* A login that fails half-way must not share the name of an import.       *)
Orderly ==
  /\ NoCrash
  /\ "login" \in Failing =>
       \A u, v \in Users : AutoName[v] \in Named[u] => u = v

LEMMA FilesOwnNext ==
  ASSUME Orderly, TypeInv, FilesThere, FilesOwn, [Next]_vars
  PROVE  FilesOwn'
<1> USE Numbers
<1>0. DiskOK /\ \A w \in Workers : HandOK(w)
  BY TypeInvParts DEF HandsOK
<1>e. \A s \in Slugs : Ensured.index[s] # NoUser =>
        \/ Ensured.index[s] = index[s] /\ Ensured.file[s] = file[s]
        \/ Importing /\ activation.user \in Users /\ s = AutoName[activation.user]
           /\ Ensured.index[s] = activation.user /\ Ensured.file[s] = activation
  <2>1. CASE Importing
    <3>1. PICK s \in Slugs :
                /\ s = AutoName[activation.user]
                /\ activation \in Token
                /\ Ensured.index = [index EXCEPT ![s] = activation.user]
                /\ Ensured.file = [file EXCEPT ![s] = activation]
      BY <1>0, <2>1, EnsuredIs
    <3>2. activation.user \in Users
      BY <3>1
    <3> QED BY <1>0, <2>1, <3>1, <3>2 DEF DiskOK
  <2>2. CASE ~ Importing
    BY <1>0, <2>2, EnsuredIs
  <2> QED BY <2>1, <2>2
<1>1. ASSUME NEW u \in Users, NEW s \in Slugs, Login(u, s) PROVE FilesOwn'
  <2> DEFINE t == [user |-> u, nr |-> issued + 1]
  <2>1. t.user = u /\ s \in Named[u] /\ index[s] \in {NoUser, u}
    BY <1>1 DEF Login
  <2>2. file' \in {Ensured.file, [Ensured.file EXCEPT ![s] = t]}
    BY <1>1 DEF Login
  <2> HIDE DEF t
  <2> SUFFICES ASSUME NEW r \in Slugs, index'[r] # NoUser
               PROVE  file'[r].user = index'[r]
    BY DEF FilesOwn
  <2>3. CASE /\ index' = [Ensured.index EXCEPT ![s] = u]
             /\ file' = [Ensured.file EXCEPT ![s] = t]
    BY <1>0, <1>e, <2>1, <2>2, <2>3, EnsuredIs DEF FilesOwn
  <2>4. CASE index' = Ensured.index /\ "login" \in Failing
    <3>1. CASE r = s
      BY <1>0, <1>e, <2>1, <2>2, <2>4, <3>1, EnsuredIs DEF Orderly, FilesOwn
    <3>2. CASE r # s
      BY <1>0, <1>e, <2>2, <2>4, <3>2, EnsuredIs DEF FilesOwn
    <3> QED BY <3>1, <3>2
  <2>5. \/ /\ index' = [Ensured.index EXCEPT ![s] = u]
           /\ file' = [Ensured.file EXCEPT ![s] = t]
        \/ index' = Ensured.index /\ "login" \in Failing
    BY <1>1 DEF Login, Fails, t
  <2> QED BY <2>3, <2>4, <2>5
<1>2. ASSUME NEW s \in Slugs, Switching(s) PROVE FilesOwn'
  <2>1. file[s].user \in Users
    BY <1>2 DEF Switching
  <2> QED BY <1>0, <1>2, <2>1 DEF Switching, Switch, FilesOwn, DiskOK
<1>3. ASSUME NEW w \in Workers, NEW s \in Slugs, RemoveAccount(w, s)
      PROVE  FilesOwn'
  BY <1>0, <1>3 DEF RemoveAccount, FilesOwn, DiskOK
<1>4. ASSUME NEW w \in Workers, Persist(w) PROVE FilesOwn'
  <2>1. fresh[w] \in Token /\ fresh[w].user \in Users
    BY <1>0, <1>4 DEF Persist, HandOK, WorkerOK, Rotated
  <2> QED BY <1>0, <1>4, <2>1 DEF Persist, SyncRotatedCreds, FilesOwn,
             DiskOK, Registered
<1>5. ASSUME Ensuring PROVE FilesOwn'
  BY <1>e, <1>5 DEF Ensuring, FilesOwn
<1>6. ASSUME NEW w \in Workers, ReportRefreshed(w) PROVE FilesOwn'
  BY <1>0, <1>6 DEF ReportRefreshed, SyncCurrent, FilesOwn, FilesThere, DiskOK
<1>7. ASSUME NEW w \in Workers, RescueRotation(w) PROVE FilesOwn'
  BY <1>0, <1>7 DEF RescueRotation, FilesOwn, DiskOK, Registered
<1>8. ASSUME UNCHANGED <<index, current, file>> PROVE FilesOwn'
  BY <1>8 DEF FilesOwn
<1> QED
  BY <1>1, <1>2, <1>3, <1>4, <1>5, <1>6, <1>7, <1>8, DiskCases,
     NeverCrashes DEF Dropping, Align, WriteActivation, diskVars, Orderly

(* While the process lives and names are not shared by an aborted login,   *)
(* the file of a registered account is that of the account's own user,     *)
(* whichever refreshes overlap with whichever logins, switches, removals   *)
(* and failed writes (SyncRotatedCreds, SyncCurrentFromActivation and      *)
(* SyncCredsByIdentity all write files that others read).                  *)
THEOREM FilesKeepIdentity ==
  Orderly => (Spec => []FilesOwnIdentity)
<1> SUFFICES ASSUME Orderly PROVE Spec => []FilesOwnIdentity
  OBVIOUS
<1> DEFINE I == TypeInv /\ FilesThere /\ FilesOwn
<1>1. Init => I
  BY TypeInitial DEF Init, FilesThere, FilesOwn
<1>2. I /\ [Next]_vars => I'
  BY TypeNext, FilesThereNext, FilesOwnNext DEF Orderly
<1>3. I => FilesOwnIdentity
  BY DEF FilesOwn, FilesOwnIdentity, Registered
<1> HIDE DEF I
<1> QED BY <1>1, <1>2, <1>3, PTL DEF Spec

-----------------------------------------------------------------------------
(* A removed account is gone.                                              *)

NoneLeft ==
  (\A s \in Slugs : index[s] = NoUser) =>
    activation = NoToken /\ \A w \in Workers : pc[w] \notin OfActivation

LEMMA NoneLeftNext ==
  ASSUME NoCrash, KeepOne, TypeInv, FilesThere, NoneLeft, [Next]_vars
  PROVE  NoneLeft'
<1> USE Numbers
<1>0. DiskOK /\ \A w \in Workers : HandOK(w)
  BY TypeInvParts DEF HandsOK
<1> SUFFICES ASSUME \A s \in Slugs : index'[s] = NoUser PROVE NoneLeft'
  BY DEF NoneLeft
<1> DEFINE Empty == \A s \in Slugs : index[s] = NoUser
<1>e. Empty => Ensured.index = index /\ Ensured.current = current
  BY <1>0, EnsuredIs DEF NoneLeft, Importing
<1>1. Empty
  <2>1. ASSUME NEW u \in Users, NEW s \in Slugs, Login(u, s) PROVE Empty
    <3>1. \A r \in Slugs : Ensured.index[r] = NoUser => index[r] = NoUser
      <4>1. CASE Importing
        BY <4>1 DEF Importing, Registered
      <4> QED BY <1>0, <4>1, EnsuredIs
    <3>2. index' = [Ensured.index EXCEPT ![s] = u] \/ index' = Ensured.index
      BY <2>1 DEF Login
    <3> QED BY <1>0, <3>1, <3>2, EnsuredIs
  <2>2. ASSUME NEW s \in Slugs, Switching(s) PROVE Empty
    <3>1. file[s].user \in Users
      BY <2>2 DEF Switching
    <3> QED BY <1>0, <2>2, <3>1 DEF Switching, Switch, DiskOK
  <2>3. ASSUME NEW w \in Workers, NEW s \in Slugs, RemoveAccount(w, s)
        PROVE  Empty
    <3>1. PICK r \in Slugs : r # s /\ index[r] # NoUser
      BY <2>3 DEF RemoveAccount, Registered
    <3> QED BY <1>0, <2>3, <3>1 DEF RemoveAccount, DiskOK
  <2>4. ASSUME NEW w \in Workers, Persist(w) PROVE Empty
    <3>1. fresh[w] \in Token /\ fresh[w].user \in Users
      BY <1>0, <2>4 DEF Persist, HandOK, WorkerOK, Rotated
    <3> QED BY <1>0, <2>4, <3>1 DEF Persist, SyncRotatedCreds, DiskOK,
               Registered
  <2>5. ASSUME Ensuring PROVE Empty
    <3>1. CASE Importing
      BY <3>1 DEF Importing, Registered
    <3> QED BY <1>0, <2>5, <3>1, EnsuredIs DEF Ensuring
  <2>6. ASSUME UNCHANGED index PROVE Empty
    BY <2>6
  <2> QED
    BY <2>1, <2>2, <2>3, <2>4, <2>5, <2>6, DiskCases,
     NeverCrashes
       DEF Dropping, Align, WriteActivation, ReportRefreshed, RescueRotation,
           diskVars
<1>2. activation = NoToken /\ current = NoSlug
      /\ \A w \in Workers : pc[w] \notin OfActivation
  BY <1>0, <1>1 DEF NoneLeft, FilesThere, DiskOK
<1>3. activation' = NoToken
  <2>1. ASSUME NEW u \in Users, NEW s \in Slugs, Login(u, s)
        PROVE  activation' = NoToken
    <3>1. CASE index' = [Ensured.index EXCEPT ![s] = u]
      BY <1>0, <3>1, EnsuredIs
    <3>2. CASE /\ current' = Ensured.current
               /\ \/ activation' = activation
                  \/ \E t \in Token : \E files :
                       activation' = Restored(current', files, t)
      BY <1>e, <1>1, <1>2, <3>2 DEF Restored
    <3>3. issued < MaxTokens
      BY <2>1 DEF Login
    <3> QED BY <1>0, <2>1, <3>1, <3>2, <3>3, NextToken DEF Login
  <2>2. ASSUME NEW s \in Slugs, Switching(s) PROVE activation' = NoToken
    <3>1. file[s].user \in Users
      BY <2>2 DEF Switching
    <3> QED BY <1>0, <1>2, <2>2, <3>1 DEF Switching, Switch, Restored, DiskOK
  <2>3. ASSUME NEW w \in Workers, Align(w) PROVE activation' = NoToken
    <3>1. slug[w] \in Slugs
      BY <1>0, <2>3 DEF Align, HandOK, WorkerOK, Rotated
    <3> QED BY <1>2, <2>3, <3>1 DEF Align, SyncActivationCreds
  <2>4. ASSUME NEW w \in Workers, WriteActivation(w) PROVE FALSE
    BY <1>2, <2>4 DEF WriteActivation, OfActivation
  <2>5. ASSUME UNCHANGED activation PROVE activation' = NoToken
    BY <1>2, <2>5
  <2> QED
    BY <2>1, <2>2, <2>3, <2>4, <2>5, DiskCases,
     NeverCrashes
       DEF Dropping, RemoveAccount, Persist, Ensuring, ReportRefreshed,
           RescueRotation, diskVars
<1>4. \A w \in Workers : pc'[w] \notin OfActivation
  <2>1. pc \in [Workers -> Points] /\ ~ Crash
    BY DEF TypeInv, TypeOK, Crash, Fails, NoCrash
  <2>2. ASSUME NEW w \in Workers, NEW s, Prefetch(w, s)
        PROVE  \A v \in Workers : pc'[v] \notin OfActivation
    BY <1>2, <2>1, <2>2 DEF Prefetch, Stop, Begin, Goto, OfActivation
  <2>3. ASSUME NEW w \in Workers, Administer(w)
        PROVE  \A v \in Workers : pc'[v] \notin OfActivation
    BY <1>2, <2>1, <2>2, <2>3 DEF Administer, ActivateAccount, RemoveAccount,
       Cascade, Stop, Begin, Goto, OfActivation, workerVars
  <2>4. ASSUME NEW w \in Workers, Refresh(w)
        PROVE  \A v \in Workers : pc'[v] \notin OfActivation
    <3>1. ~ RefreshActivation(w)
      BY <1>0, <1>2 DEF RefreshActivation, HandOK, WorkerOK
    <3>2. ~ CheckActivation(w) /\ ~ WriteActivation(w) /\ ~ ReportRefreshed(w)
          /\ ~ RescueRotation(w)
      BY <1>2 DEF CheckActivation, WriteActivation, ReportRefreshed,
         RescueRotation, OfActivation
    <3>3. CASE \/ \E s \in Slugs, j \in Refreshers : Load(w, s, j)
               \/ LoadActivation(w) \/ Persist(w) \/ RefreshFails(w)
      BY <1>2, <2>1, <3>3 DEF Load, LoadActivation, Persist, Begin, Goto,
         RefreshFails, Stop, OfActivation
    <3>4. CASE RefreshAccount(w)
      BY <1>2, <2>1, <3>4 DEF RefreshAccount, Land, OfActivation
    <3>5. CASE AskCurrent(w) \/ Align(w)
      BY <1>2, <2>1, <3>5 DEF AskCurrent, Align, Conclude, Stop, Begin, Goto,
         OfActivation
    <3> QED BY <2>4, <3>1, <3>2, <3>3, <3>4, <3>5 DEF Refresh
  <2> QED
    BY <1>2, <2>1, <2>3, <2>4 DEF Next, Login, Look, workerVars, vars
<1> QED BY <1>3, <1>4 DEF NoneLeft

(* While at least one account is kept, the credentials of a removed one    *)
(* only come back with a new login: a refresh that was under way when the  *)
(* account was removed does not write its file (SyncRotatedCreds looks the *)
(* name up in the index, under the lock), and neither does the import of   *)
(* an activation that is left over.                                        *)
THEOREM RemovedStayGone ==
  NoCrash /\ KeepOne => (Spec => NoResurrection)
<1> SUFFICES ASSUME NoCrash, KeepOne PROVE Spec => NoResurrection
  OBVIOUS
<1> USE Numbers
<1> DEFINE I == TypeInv /\ FilesThere /\ NoneLeft
           A == \A s \in Slugs :
                  file[s] = NoToken /\ file'[s] # NoToken => issued' > issued
<1>1. Init => I
  BY TypeInitial DEF Init, FilesThere, NoneLeft, OfActivation
<1>2. I /\ [Next]_vars => I'
  BY TypeNext, FilesThereNext, NoneLeftNext
<1>3. I /\ [Next]_vars => A
  <2> SUFFICES ASSUME I, [Next]_vars, NEW s \in Slugs,
                      file[s] = NoToken, file'[s] # NoToken
               PROVE  issued' > issued
    OBVIOUS
  <2>0. DiskOK /\ \A w \in Workers : HandOK(w)
    BY TypeInvParts DEF HandsOK
  <2>1. index[s] = NoUser
    BY DEF FilesThere
  <2>2. ~ Importing
    BY DEF NoneLeft, Importing, Registered
  <2>3. ASSUME NEW u \in Users, NEW r \in Slugs, Login(u, r)
        PROVE  issued' > issued
    BY <2>0, <2>3 DEF Login, DiskOK
  <2>4. ASSUME NEW r \in Slugs, Switching(r) PROVE FALSE
    BY <2>4 DEF Switching, Switch
  <2>5. ASSUME NEW w \in Workers, NEW r \in Slugs, RemoveAccount(w, r)
        PROVE  FALSE
    BY <2>0, <2>5 DEF RemoveAccount, DiskOK
  <2>6. ASSUME NEW w \in Workers,
               Persist(w) \/ ReportRefreshed(w) \/ RescueRotation(w)
        PROVE  FALSE
    <3>1. ~ Persist(w)
      BY <2>0, <2>1 DEF Persist, SyncRotatedCreds, Registered, DiskOK
    <3>3. ~ ReportRefreshed(w)
      BY <2>0, <2>1 DEF ReportRefreshed, SyncCurrent, FilesThere, DiskOK
    <3>4. ~ RescueRotation(w)
      BY <2>0, <2>1 DEF RescueRotation, Registered, DiskOK
    <3> QED BY <2>6, <3>1, <3>3, <3>4
  <2>7. ~ UNCHANGED file
    OBVIOUS
  <2>8. ~ Ensuring
    BY <2>0, <2>2, EnsuredIs DEF Ensuring
  <2> QED
    BY <2>3, <2>4, <2>5, <2>6, <2>7, <2>8, DiskCases,
     NeverCrashes
       DEF Dropping, Align, WriteActivation, diskVars
<1> HIDE DEF I
<1>4. I /\ [Next]_vars => [A]_vars
  BY <1>3
<1> QED BY <1>1, <1>2, <1>4, PTL DEF Spec, NoResurrection

-----------------------------------------------------------------------------
(* The files' users, when the process may be killed at any time.           *)

GoesBy(u, s) == s \in Named[u] \cup {AutoName[u]}

(* No two users go by the same name.                                       *)
NamesApart ==
  \A u, v \in Users, s \in Slugs : GoesBy(u, s) /\ GoesBy(v, s) => u = v

(* Names whose files were never written by somebody else.                  *)
Sound == Slugs \ unwritten

NameOK(s) ==
  /\ file[s] # NoToken => GoesBy(file[s].user, s)
  /\ index[s] # NoUser => file[s] # NoToken /\ GoesBy(index[s], s)

HeldOK(w) ==
  /\ fresh[w] # NoToken => held[w] # NoToken /\ fresh[w].user = held[w].user
  /\ slug[w] \in Sound /\ held[w] # NoToken => GoesBy(held[w].user, slug[w])

(* The token the upstream hands out next, to u.                            *)
NewToken(u) == [user |-> u, nr |-> issued + 1]

CurrentThere == current # NoSlug => index[current] # NoUser

NamesInv ==
  /\ \A s \in Sound : NameOK(s)
  /\ \A w \in Workers : HeldOK(w)
  /\ CurrentThere

(* A name that has become sound is a name that is not in use.              *)
LEMMA SoundBefore ==
  ASSUME TypeInv, [Next]_vars, NEW s \in Slugs, s \notin unwritten'
  PROVE  /\ s \in Sound \/ ~ InUse(s)'
         /\ index'[s] # NoUser => file'[s] # NoToken \/ UNCHANGED vars
<1>1. CASE Next
  BY <1>1 DEF Next, Sound, Registered
<1>2. CASE UNCHANGED vars
  BY <1>2 DEF vars, Sound
<1> QED BY <1>1, <1>2

(* What a step leaves of the account of that name.                         *)
EntryFits(s) ==
  /\ file'[s] # NoToken => GoesBy(file'[s].user, s)
  /\ index'[s] # NoUser => GoesBy(index'[s], s)

LEMMA EnsuredFits ==
  ASSUME DiskOK, NEW s \in Slugs, NameOK(s)
  PROVE  /\ Ensured.file[s] # NoToken => GoesBy(Ensured.file[s].user, s)
         /\ Ensured.index[s] # NoUser => GoesBy(Ensured.index[s], s)
<1>1. CASE Importing
  <2>1. PICK r \in Slugs :
          /\ r = AutoName[activation.user]
          /\ Ensured.index = [index EXCEPT ![r] = activation.user]
          /\ Ensured.file = [file EXCEPT ![r] = activation]
    BY <1>1, EnsuredIs
  <2>2. GoesBy(activation.user, r)
    BY <2>1 DEF GoesBy
  <2> QED BY <2>1, <2>2 DEF NameOK, DiskOK
<1>2. CASE ~ Importing
  BY <1>2, EnsuredIs DEF NameOK
<1> QED BY <1>1, <1>2

LEMMA CrashFits ==
  ASSUME TypeInv, NamesInv, Crash, NEW s \in Sound
  PROVE  EntryFits(s)
<1> USE Numbers
<1>0. DiskOK /\ \A w \in Workers : HandOK(w) /\ HeldOK(w)
  BY TypeInvParts DEF HandsOK, NamesInv
<1>n. s \in Slugs /\ NameOK(s)
  BY DEF NamesInv, Sound
<1>e. /\ Ensured.file[s] # NoToken => GoesBy(Ensured.file[s].user, s)
      /\ Ensured.index[s] # NoUser => GoesBy(Ensured.index[s], s)
  BY <1>0, <1>n, EnsuredFits
<1>1. CASE CutLogin
  <2>1. PICK u \in Users, r \in Slugs :
          /\ r \in Named[u]
          /\ file' = [Ensured.file EXCEPT ![r] = NewToken(u)]
          /\ index' = Ensured.index
    BY <1>1, NamesAssumption DEF CutLogin, NewToken
  <2>2. NewToken(u).user = u /\ GoesBy(u, r)
    BY <2>1 DEF NewToken, GoesBy
  <2> QED BY <1>0, <1>n, <1>e, <2>1, <2>2, EnsuredIs DEF EntryFits
<1>2. CASE CutSwitch \/ UNCHANGED <<diskVars, upstreamVars>>
  BY <1>n, <1>2 DEF CutSwitch, diskVars, EntryFits, NameOK
<1>3. CASE CutRemoval
  BY <1>0, <1>n, <1>3 DEF CutRemoval, EntryFits, NameOK, DiskOK, Registered
<1>4. CASE CutImport
  BY <1>0, <1>n, <1>e, <1>4 DEF CutImport, EntryFits, NameOK
<1>5. CASE CutPersist
  <2>1. PICK w \in Workers :
          /\ pc[w] \in Rotated /\ slug[w] \in Slugs
          /\ file' = [file EXCEPT ![slug[w]] = fresh[w]]
          /\ index' = index
    BY <1>5 DEF CutPersist, Rotated, Registered
  <2>2. fresh[w] # NoToken /\ (slug[w] = s => GoesBy(fresh[w].user, s))
    BY <1>0, <2>1 DEF HandOK, WorkerOK, HeldOK
  <2> QED BY <1>0, <1>n, <2>1, <2>2 DEF EntryFits, NameOK, DiskOK
<1> QED BY <1>1, <1>2, <1>3, <1>4, <1>5 DEF Crash

LEMMA StepFits ==
  ASSUME NamesApart, TypeInv, NamesInv, [Next]_vars, NEW s \in Sound
  PROVE  EntryFits(s)
<1> USE Numbers
<1>0. DiskOK /\ \A w \in Workers : HandOK(w) /\ HeldOK(w)
  BY TypeInvParts DEF HandsOK, NamesInv
<1>n. s \in Slugs /\ NameOK(s)
  BY DEF NamesInv, Sound
<1>e. /\ Ensured.file[s] # NoToken => GoesBy(Ensured.file[s].user, s)
      /\ Ensured.index[s] # NoUser => GoesBy(Ensured.index[s], s)
  BY <1>0, <1>n, EnsuredFits
<1>1. ASSUME NEW u \in Users, NEW r \in Slugs, Login(u, r) PROVE EntryFits(s)
  <2>1. file' \in {Ensured.file, [Ensured.file EXCEPT ![r] = NewToken(u)]}
    BY <1>1 DEF Login, NewToken
  <2>2. index' \in {Ensured.index, [Ensured.index EXCEPT ![r] = u]}
    BY <1>1 DEF Login
  <2>3. NewToken(u).user = u /\ GoesBy(u, r)
    BY <1>1 DEF Login, NewToken, GoesBy
  <2> QED BY <1>0, <1>n, <1>e, <2>1, <2>2, <2>3, EnsuredIs DEF EntryFits
<1>2. ASSUME NEW r \in Slugs, Switching(r) PROVE EntryFits(s)
  <2>1. index' \in {index, [index EXCEPT ![r] = file[r].user]}
        /\ file' = file /\ file[r] # NoToken
    BY <1>2 DEF Switching, Switch
  <2> QED BY <1>0, <1>n, <2>1 DEF EntryFits, NameOK, DiskOK
<1>3. ASSUME NEW w \in Workers, NEW r \in Slugs, RemoveAccount(w, r)
      PROVE  EntryFits(s)
  BY <1>0, <1>n, <1>3 DEF RemoveAccount, EntryFits, NameOK, DiskOK
<1>4. ASSUME NEW w \in Workers, Persist(w) PROVE EntryFits(s)
  <2>1. fresh[w] # NoToken /\ (slug[w] = s => GoesBy(fresh[w].user, s))
    BY <1>0, <1>4 DEF Persist, HandOK, WorkerOK, HeldOK, Rotated
  <2> QED BY <1>0, <1>n, <1>4, <2>1 DEF Persist, SyncRotatedCreds, EntryFits,
             NameOK, DiskOK, Registered
<1>5. ASSUME Ensuring PROVE EntryFits(s)
  BY <1>e, <1>5 DEF Ensuring, EntryFits
<1>6. ASSUME NEW w \in Workers, ReportRefreshed(w) PROVE EntryFits(s)
  <2>1. file' = file \/ /\ current # NoSlug
                        /\ file' = [file EXCEPT ![current] = activation]
                        /\ file[current] # NoToken =>
                             file[current].user = activation.user
    BY <1>6 DEF ReportRefreshed, SyncCurrent
  <2>2. current = s => file[s] # NoToken
    BY <1>n DEF NamesInv, CurrentThere, NameOK
  <2> QED BY <1>0, <1>n, <1>6, <2>1, <2>2 DEF ReportRefreshed, EntryFits,
             NameOK, DiskOK
<1>7. ASSUME NEW w \in Workers, RescueRotation(w) PROVE EntryFits(s)
  <2>1. file' = file \/ \E r \in Slugs : /\ index[r] # NoUser
                                         /\ index[r] = fresh[w].user
                                         /\ file' = [file EXCEPT ![r] = fresh[w]]
    BY <1>7 DEF RescueRotation, Registered
  <2>2. index' = index
    BY <1>7 DEF RescueRotation
  <2> QED BY <1>0, <1>n, <2>1, <2>2 DEF EntryFits, NameOK, DiskOK
<1>8. ASSUME UNCHANGED <<index, file>> PROVE EntryFits(s)
  BY <1>n, <1>8 DEF EntryFits, NameOK
<1> QED
  BY <1>1, <1>2, <1>3, <1>4, <1>5, <1>6, <1>7, <1>8, DiskCases, CrashFits
     DEF Dropping, Align, WriteActivation, diskVars

LEMMA CurrentThereNext ==
  ASSUME TypeInv, CurrentThere, [Next]_vars
  PROVE  CurrentThere'
<1> USE Numbers
<1>0. DiskOK /\ \A w \in Workers : HandOK(w)
  BY TypeInvParts DEF HandsOK
<1>e. /\ Ensured.current # NoSlug => Ensured.index[Ensured.current] # NoUser
      /\ Ensured.index \in [Slugs -> Users \cup {NoUser}]
      /\ Ensured.current \in Slugs \cup {NoSlug}
  <2>1. CASE Importing
    <3>1. PICK s \in Slugs :
                /\ activation \in Token
                /\ Ensured.index = [index EXCEPT ![s] = activation.user]
                /\ Ensured.current = s
      BY <1>0, <2>1, EnsuredIs
    <3>2. activation.user \in Users
      BY <3>1
    <3> QED BY <1>0, <3>1, <3>2, EnsuredIs DEF DiskOK
  <2>2. CASE ~ Importing
    BY <1>0, <2>2, EnsuredIs DEF CurrentThere
  <2> QED BY <2>1, <2>2
<1>r. ASSUME NEW s \in Slugs, index' = [index EXCEPT ![s] = NoUser],
             \/ current # s /\ current' = current
             \/ current' = FirstOf(Registered \ {s})
      PROVE  CurrentThere'
  <2>1. FirstOf(Registered \ {s}) \in (Registered \ {s}) \cup {NoSlug}
    BY FirstOfIs DEF Registered
  <2> QED BY <1>0, <1>r, <2>1 DEF CurrentThere, DiskOK, Registered
<1>1. ASSUME NEW u \in Users, NEW s \in Slugs, Login(u, s)
      PROVE  CurrentThere'
  <2>1. \/ index' = [Ensured.index EXCEPT ![s] = u] /\ current' = s
        \/ index' = Ensured.index /\ current' = Ensured.current
    BY <1>1 DEF Login
  <2> QED BY <1>e, <2>1 DEF CurrentThere
<1>2. ASSUME NEW s \in Slugs, Switching(s) PROVE CurrentThere'
  <2>1. file[s].user \in Users
    BY <1>2 DEF Switching
  <2> QED BY <1>0, <1>2, <2>1 DEF Switching, Switch, CurrentThere, DiskOK
<1>3. ASSUME NEW w \in Workers, NEW s \in Slugs, RemoveAccount(w, s)
      PROVE  CurrentThere'
  BY <1>3, <1>r DEF RemoveAccount
<1>4. ASSUME NEW w \in Workers, Persist(w) PROVE CurrentThere'
  <2>1. fresh[w] \in Token /\ fresh[w].user \in Users
    BY <1>0, <1>4 DEF Persist, HandOK, WorkerOK, Rotated
  <2> QED BY <1>0, <1>4, <2>1 DEF Persist, SyncRotatedCreds, CurrentThere,
             DiskOK, Registered
<1>5. ASSUME Ensuring PROVE CurrentThere'
  BY <1>e, <1>5 DEF Ensuring, CurrentThere
<1>6. ASSUME UNCHANGED <<index, current>> PROVE CurrentThere'
  BY <1>6 DEF CurrentThere
<1>7. CASE Crash
  <2>1. CASE CutRemoval
    <3>1. PICK s \in Slugs :
            /\ index' = [index EXCEPT ![s] = NoUser]
            /\ current' = IF current = s THEN FirstOf(Registered \ {s})
                          ELSE current
      BY <2>1 DEF CutRemoval, Registered
    <3> QED BY <3>1, <1>r
  <2>2. CutLogin \/ CutImport => CurrentThere'
    BY <1>e DEF CutLogin, CutImport, CurrentThere
  <2> QED BY <1>6, <1>7, <2>1, <2>2 DEF Crash, CutSwitch, CutPersist, diskVars
<1> QED
  BY <1>1, <1>2, <1>3, <1>4, <1>5, <1>6, <1>7, DiskCases
     DEF Dropping, Align, WriteActivation, ReportRefreshed, RescueRotation,
         diskVars

(* What a step leaves in the hands of a goroutine.                         *)
HandFits(w) ==
  /\ fresh'[w] # NoToken =>
       held'[w] # NoToken /\ fresh'[w].user = held'[w].user
  /\ slug'[w] \in Sound /\ held'[w] # NoToken =>
       GoesBy(held'[w].user, slug'[w])

LEMMA HandsFit ==
  ASSUME TypeInv, NamesInv, [Next]_vars, NEW v \in Workers
  PROVE  HandFits(v)
<1> USE Numbers
<1>0. DiskOK /\ HandsOK /\ \A w \in Workers : HandOK(w) /\ HeldOK(w)
  BY TypeInvParts DEF HandsOK, NamesInv
<1>f. \A s \in Sound : file[s] # NoToken => GoesBy(file[s].user, s)
  BY DEF NamesInv, NameOK
<1>s. ASSUME UNCHANGED <<slug, held, fresh>> PROVE HandFits(v)
  BY <1>0, <1>s DEF HandFits, HeldOK
<1>d. ASSUME NEW W, Stop(W) PROVE HandFits(v)
  BY <1>0, <1>d DEF HandFits, HeldOK, Stop, Sound
<1>b. ASSUME NEW w \in Workers, NEW to, NEW j, NEW s, NEW t,
             Begin(w, to, j, s, t),
             fresh[w] # NoToken => t = fresh[w],
             s \in Sound /\ t # NoToken => GoesBy(t.user, s)
      PROVE  HandFits(v)
  BY <1>0, <1>b DEF HandFits, HeldOK, HandsOK, Begin
<1>l. ASSUME NEW J \in SUBSET Workers, NEW h, NEW t, Land(J, h, t),
             h # NoToken /\ t.user = h.user,
             \A w \in J : slug[w] \in Sound => GoesBy(h.user, slug[w])
      PROVE  HandFits(v)
  BY <1>0, <1>l DEF HandFits, HeldOK, Land
<1>g. ASSUME NEW w \in Workers, held[w] # NoToken, NEW u \in Waiting(w),
             slug[u] \in Sound
      PROVE  GoesBy(held[w].user, slug[u])
  <2>1. PICK x \in Workers : held[x] = held[w] /\ slug[x] = slug[u]
    BY DEF Waiting
  <2> QED BY <1>0, <1>g, <2>1 DEF HeldOK
<1>i. \A w \in Workers : pc[w] \in {"idle", "cascade"} => fresh[w] = NoToken
  BY <1>0 DEF HandOK, WorkerOK
<1>p. ASSUME NEW w \in Workers, NEW s \in Slugs, Prefetch(w, s),
             pc[w] \in {"idle", "cascade"}, file[s] # NoToken
      PROVE  HandFits(v)
  BY <1>b, <1>d, <1>f, <1>i, <1>p DEF Prefetch
<1>c. ASSUME NEW w \in Workers, pc[w] \in Rotated, Conclude(w)
      PROVE  HandFits(v)
  <2>1. slug[w] \in Sound /\ fresh[w] # NoToken =>
          GoesBy(fresh[w].user, slug[w])
    BY <1>0 DEF HeldOK
  <2> QED BY <1>b, <1>c, <1>d, <2>1 DEF Conclude
<1>1. ASSUME NEW w \in Workers, NEW s \in Slugs, ActivateAccount(w, s)
      PROVE  HandFits(v)
  BY <1>1, <1>p, <1>s DEF ActivateAccount, workerVars
<1>2. ASSUME NEW w \in Workers, NEW s \in Slugs, RemoveAccount(w, s)
      PROVE  HandFits(v)
  BY <1>2, <1>b, <1>i, <1>s DEF RemoveAccount, workerVars
<1>3. ASSUME NEW w \in Workers, Cascade(w) PROVE HandFits(v)
  <2>1. slug[w] \in Slugs \cup {NoSlug}
    BY <1>0 DEF HandOK
  <2> QED BY <1>3, <1>d, <1>p, <2>1 DEF Cascade
<1>4. ASSUME NEW w \in Workers, NEW s \in Slugs, NEW j \in Refreshers,
             Load(w, s, j)
      PROVE  HandFits(v)
  BY <1>4, <1>b, <1>f, <1>i DEF Load
<1>5. ASSUME NEW w \in Workers, LoadActivation(w) PROVE HandFits(v)
  BY <1>5, <1>b, <1>i DEF LoadActivation, Sound
<1>6. ASSUME NEW w \in Workers, RefreshAccount(w) PROVE HandFits(v)
  <2>1. PICK J \in SUBSET Waiting(w) : Land(J, held[w], Successor(held[w]))
    BY <1>6 DEF RefreshAccount
  <2>2. held[w] # NoToken
    BY <1>0, <1>6 DEF RefreshAccount, HandOK, WorkerOK
  <2>3. /\ J \in SUBSET Workers
        /\ \A u \in J : slug[u] \in Sound => GoesBy(held[w].user, slug[u])
    BY <2>2, <1>g DEF Waiting
  <2>4. Successor(held[w]).user = held[w].user
    BY DEF Successor
  <2> QED BY <1>l, <2>1, <2>2, <2>3, <2>4
<1>7. ASSUME NEW w \in Workers, RefreshActivation(w) PROVE HandFits(v)
  <2>1. held[w] # NoToken /\ Successor(held[w]).user = held[w].user
    BY <1>0, <1>7 DEF RefreshActivation, HandOK, WorkerOK, Successor
  <2>2. PICK J \in SUBSET (Waiting(w) \ {w}) :
          /\ held' = [u \in Workers |-> IF u \in J THEN held[w] ELSE held[u]]
          /\ fresh' = [fresh EXCEPT ![w] = Successor(held[w])]
          /\ UNCHANGED slug
    BY <1>7 DEF RefreshActivation
  <2>3. CASE v \in J
    <3>1. slug[v] \in Sound => GoesBy(held[w].user, slug[v])
      BY <2>1, <2>3, <1>g DEF Waiting
    <3>2. fresh[v] # NoToken => fresh[v].user = held[w].user
      BY <1>0, <2>3 DEF Waiting, HandOK, WorkerOK, HeldOK
    <3> QED BY <1>0, <2>1, <2>2, <2>3, <3>1, <3>2 DEF HandFits, HandsOK
  <2>4. CASE v \notin J
    BY <1>0, <2>1, <2>2, <2>4 DEF HandFits, HeldOK, HandsOK
  <2> QED BY <2>3, <2>4
<1>8. ASSUME NEW w \in Workers, AskCurrent(w) PROVE HandFits(v)
  BY <1>8, <1>c, <1>s DEF AskCurrent, Rotated
<1>9. ASSUME NEW w \in Workers, Align(w) PROVE HandFits(v)
  BY <1>9, <1>c DEF Align, Rotated
<1>10. ASSUME NEW w \in Workers, ReportRefreshed(w) \/ RescueRotation(w)
       PROVE  HandFits(v)
  <2>1. Land({w} \cup Joined(w), held[w], fresh[w]) /\ pc[w] \in OfActivation
    BY <1>10 DEF ReportRefreshed, RescueRotation, OfActivation
  <2>2. fresh[w] # NoToken
    BY <1>0, <2>1 DEF HandOK, WorkerOK
  <2>3. held[w] # NoToken /\ fresh[w].user = held[w].user
    BY <1>0, <2>2 DEF HeldOK
  <2>4. /\ {w} \cup Joined(w) \in SUBSET Workers
        /\ \A u \in {w} \cup Joined(w) :
             slug[u] \in Sound => GoesBy(held[w].user, slug[u])
    BY <1>0, <2>3 DEF Joined, HeldOK
  <2> QED BY <1>l, <2>1, <2>3, <2>4
<1>11. ASSUME NEW w \in Workers,
              \/ RefreshFails(w) \/ Persist(w) \/ CheckActivation(w)
              \/ WriteActivation(w)
       PROVE  HandFits(v)
  BY <1>11, <1>d, <1>s DEF RefreshFails, Persist, CheckActivation,
     WriteActivation
<1>12. ASSUME Crash PROVE HandFits(v)
  BY <1>12, <1>d DEF Crash
<1>13. ASSUME NEW u \in Users, NEW s \in Slugs, Login(u, s) PROVE HandFits(v)
  BY <1>13, <1>s DEF Login, workerVars
<1>17. ASSUME Look PROVE HandFits(v)
  BY <1>17, <1>s DEF Look, workerVars
<1>14. CASE UNCHANGED vars
  BY <1>14, <1>s DEF vars, workerVars
<1>15. ASSUME NEW w \in Workers, Administer(w) PROVE HandFits(v)
  BY <1>15, <1>1, <1>2, <1>3 DEF Administer
<1>16. ASSUME NEW w \in Workers, Refresh(w) PROVE HandFits(v)
  BY <1>16, <1>4, <1>5, <1>6, <1>7, <1>8, <1>9, <1>10, <1>11 DEF Refresh
<1> QED BY <1>12, <1>13, <1>14, <1>15, <1>16, <1>17 DEF Next

LEMMA NamesInvNext ==
  ASSUME NamesApart, TypeInv, NamesInv, [Next]_vars
  PROVE  NamesInv'
<1>1. ASSUME NEW s \in Sound' PROVE NameOK(s)'
  <2>1. s \in Slugs /\ s \notin unwritten'
    BY <1>1 DEF Sound
  <2>2. CASE UNCHANGED vars
    BY <2>1, <2>2 DEF vars, diskVars, NamesInv, Sound, NameOK, GoesBy
  <2>3. CASE ~ InUse(s)'
    BY <2>3 DEF InUse, NameOK
  <2>4. CASE s \in Sound
    BY <2>1, <2>2, <2>4, SoundBefore, StepFits DEF EntryFits, NameOK, GoesBy
  <2> QED BY <2>1, <2>3, <2>4, SoundBefore
<1>2. ASSUME NEW w \in Workers PROVE HeldOK(w)'
  <2>1. HandFits(w)
    BY HandsFit
  <2>2. slug'[w] \in Sound' => slug'[w] \in Sound
    BY SoundBefore DEF Sound, InUse
  <2> QED BY <2>1, <2>2 DEF HandFits, HeldOK, GoesBy
<1> QED BY <1>1, <1>2, CurrentThereNext DEF NamesInv

(* When no two users go by the same name, the file of a registered account *)
(* is that of its own user whatever overlaps, fails or is killed: every    *)
(* name that was not left without a file has only its own user's           *)
(* credentials in its file and in the hands of the goroutines that work    *)
(* under it, so that not even a file without its entry, or one that a      *)
(* killed SyncRotatedCreds leaves ahead of the index, is a stranger's.     *)
THEOREM FilesSurviveCrashes ==
  NamesApart => (Spec => []FilesOwnIdentity)
<1> SUFFICES ASSUME NamesApart PROVE Spec => []FilesOwnIdentity
  OBVIOUS
<1> DEFINE I == TypeInv /\ NamesInv
<1>1. Init => I
  BY TypeInitial DEF Init, NamesInv, NameOK, HeldOK, CurrentThere, Sound
<1>2. I /\ [Next]_vars => I'
  BY TypeNext, NamesInvNext
<1>3. I => FilesOwnIdentity
  <2> SUFFICES ASSUME I, NEW s \in Registered \ unwritten
               PROVE  file[s].user = index[s]
    BY DEF FilesOwnIdentity
  <2>1. s \in Slugs /\ s \in Sound /\ index[s] # NoUser
    BY DEF Registered, Sound
  <2>2. file[s] # NoToken /\ GoesBy(file[s].user, s) /\ GoesBy(index[s], s)
    BY <2>1 DEF NamesInv, NameOK
  <2>3. file[s].user \in Users /\ index[s] \in Users
    BY <2>1, <2>2, Numbers DEF TypeInv, TypeOK, Stored
  <2> QED BY <2>1, <2>2, <2>3 DEF NamesApart
<1> HIDE DEF I
<1> QED BY <1>1, <1>2, <1>3, PTL DEF Spec
=============================================================================
