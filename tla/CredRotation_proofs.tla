------------------------ MODULE CredRotation_proofs -------------------------
(***************************************************************************)
(* Proofs that the refreshes of single accounts (RefreshAPIKey, the quota  *)
(* fetches and the prefetch of ActivateAccount) keep the activation with   *)
(* the current account and, while those of one account do not overlap,     *)
(* lose no rotated token whose answer arrives, for any users, names,       *)
(* workers and numbers of tokens.  The run CrossedActivation shows that    *)
(* the refresh of codely-creds.json itself does not, LostRotation that     *)
(* overlapping refreshes do not.                                           *)
(***************************************************************************)
EXTENDS CredStore_proofs

NoGlobalRefresh == "global" \notin Jobs
NoneGlobal == \A w \in Workers : job[w] # "global"

Cascading == \E w \in Workers : pc[w] = "cascade"

LEMMA NoneGlobalNext ==
  ASSUME NoGlobalRefresh, NoneGlobal, TypeInv, [Next]_vars
  PROVE  NoneGlobal'
<1>0. job \in [Workers -> AllJobs \cup {"none"}]
  BY DEF TypeInv, TypeOK
<1>1. ASSUME NEW w \in Workers, NEW to, NEW j, NEW s, NEW t,
             Begin(w, to, j, s, t), j # "global"
      PROVE  NoneGlobal'
  BY <1>0, <1>1 DEF Begin, NoneGlobal
<1>2. ASSUME NEW W, Stop(W) PROVE NoneGlobal'
  BY <1>0, <1>2 DEF Stop, NoneGlobal
<1>3. ASSUME NEW J, NEW h, NEW t, Land(J, h, t) PROVE NoneGlobal'
  BY <1>0, <1>3 DEF Land, NoneGlobal
<1>4. ASSUME UNCHANGED job PROVE NoneGlobal'
  BY <1>4 DEF NoneGlobal
<1>5. ASSUME NEW w \in Workers, NEW s, Prefetch(w, s) PROVE NoneGlobal'
  BY <1>1, <1>2, <1>5 DEF Prefetch
<1>6. ASSUME NEW w \in Workers, Conclude(w) PROVE NoneGlobal'
  BY <1>1, <1>2, <1>6 DEF Conclude
<1>7. ASSUME NEW w \in Workers, Administer(w) PROVE NoneGlobal'
  BY <1>1, <1>2, <1>4, <1>5, <1>7 DEF Administer, ActivateAccount,
     RemoveAccount, Cascade, workerVars
<1>8. ASSUME NEW w \in Workers, Refresh(w) PROVE NoneGlobal'
  <2>1. ~ LoadActivation(w)
    BY DEF LoadActivation, NoGlobalRefresh
  <2>2. ASSUME NEW s \in Slugs, NEW j \in Refreshers, Load(w, s, j)
        PROVE  NoneGlobal'
    BY <1>1, <2>2 DEF Load, Refreshers
  <2> QED
    BY <1>2, <1>3, <1>4, <1>6, <1>8, <2>1, <2>2 DEF Refresh, RefreshAccount,
       RefreshActivation, RefreshFails, Persist, AskCurrent, Align, Goto,
       CheckActivation, WriteActivation, ReportRefreshed, RescueRotation
<1> QED
  BY <1>2, <1>4, <1>7, <1>8 DEF Next, Login, Look, Crash, workerVars, vars

(* So much for the steps of the global refresh.                            *)
LEMMA NoGlobalSteps ==
  ASSUME TypeInv, NoneGlobal, NEW w \in Workers
  PROVE  /\ ~ RefreshActivation(w) /\ ~ CheckActivation(w)
         /\ ~ WriteActivation(w) /\ ~ ReportRefreshed(w)
         /\ ~ RescueRotation(w)
         /\ pc[w] \notin OfActivation
<1>1. HandOK(w)
  BY TypeInvParts DEF HandsOK
<1>2. pc[w] \notin OfActivation
  BY <1>1 DEF HandOK, WorkerOK, NoneGlobal
<1> QED
  BY <1>2 DEF RefreshActivation, CheckActivation, WriteActivation,
     ReportRefreshed, RescueRotation, OfActivation, NoneGlobal

-----------------------------------------------------------------------------
(* Which tokens are an account's: its file's and its goroutines'.          *)

Bears(s, t) ==
  \/ file[s] = t
  \/ \E w \in Workers : slug[w] = s /\ (held[w] = t \/ fresh[w] = t)

Imports(s, t) == Importing /\ t = activation /\ s = AutoName[t.user]

(* A step hands out one token, to the accounts that bear its predecessor   *)
(* or to the one that logs in, and moves none from account to account.     *)
BearingOf(s, t) == Bears(s, t) \/ Imports(s, t)

LEMMA Bearing ==
  ASSUME NoCrash, TypeInv, NoneGlobal, [Next]_vars
  PROVE
    \/ \E u \in Users, s \in Slugs :
         /\ Login(u, s)
         /\ \A r \in Slugs, t \in Token :
              Bears(r, t)' => BearingOf(r, t) \/ (r = s /\ t = NewToken(u))
    \/ \E p \in Token :
         /\ Rotate(p)
         /\ UNCHANGED diskVars
         /\ \A r \in Slugs, t \in Token :
              Bears(r, t)' => Bears(r, t) \/ (t = Successor(p) /\ Bears(r, p))
    \/ /\ UNCHANGED issued
       /\ \A r \in Slugs, t \in Token : Bears(r, t)' => BearingOf(r, t)
<1> USE Numbers
<1>0. DiskOK /\ HandsOK /\ \A w \in Workers : HandOK(w)
  BY TypeInvParts DEF HandsOK
<1>d. ~ Crash
  BY DEF Crash, Fails, NoCrash
<1> DEFINE Same == \A r \in Slugs, t \in Token : Bears(r, t)' => BearingOf(r, t)
<1>i. \A r \in Slugs, t \in Token : Ensured.file[r] = t => BearingOf(r, t)
  <2> SUFFICES ASSUME NEW r \in Slugs, NEW t \in Token, Ensured.file[r] = t
               PROVE  BearingOf(r, t)
    OBVIOUS
  <2>1. CASE Importing
    <3>1. PICK i \in Slugs :
            /\ i = AutoName[activation.user]
            /\ Ensured.file = [file EXCEPT ![i] = activation]
      BY <1>0, <2>1, EnsuredIs
    <3> QED BY <1>0, <2>1, <3>1 DEF BearingOf, Bears, Imports, DiskOK
  <2> QED BY <1>0, <2>1, EnsuredIs DEF BearingOf, Bears
<1>1. ASSUME NEW u \in Users, NEW s \in Slugs, Login(u, s)
      PROVE  \A r \in Slugs, t \in Token :
               Bears(r, t)' => BearingOf(r, t) \/ (r = s /\ t = NewToken(u))
  <2> SUFFICES ASSUME NEW r \in Slugs, NEW t \in Token, Bears(r, t)'
               PROVE  BearingOf(r, t) \/ (r = s /\ t = NewToken(u))
    OBVIOUS
  <2>1. file' \in {Ensured.file, [Ensured.file EXCEPT ![s] = NewToken(u)]}
        /\ UNCHANGED workerVars
    BY <1>1 DEF Login, NewToken
  <2>2. Ensured.file[r] = t => BearingOf(r, t)
    BY <1>i
  <2> QED BY <1>0, <2>1, <2>2, EnsuredIs DEF Bears, BearingOf, workerVars
<1>2. ASSUME UNCHANGED file, NEW w \in Workers, NEW s \in Slugs,
             Prefetch(w, s), fresh[w] = NoToken
      PROVE  Same
  BY <1>0, <1>2 DEF Prefetch, Stop, Begin, Bears, BearingOf, HandsOK
<1>3. ASSUME NEW w \in Workers, Administer(w)
      PROVE  Same /\ UNCHANGED issued
  <2>1. ASSUME NEW s \in Slugs, ActivateAccount(w, s) PROVE Same
    <3>1. UNCHANGED file
      BY <2>1 DEF ActivateAccount, Switch
    <3>2. CASE UNCHANGED workerVars
      BY <3>1, <3>2 DEF Bears, BearingOf, workerVars
    <3>3. fresh[w] = NoToken
      BY <1>0, <2>1 DEF ActivateAccount, HandOK
    <3> QED BY <1>2, <2>1, <3>1, <3>2, <3>3 DEF ActivateAccount
  <2>2. ASSUME NEW s \in Slugs, RemoveAccount(w, s) PROVE Same
    <3>1. file' = [file EXCEPT ![s] = NoToken]
      BY <2>2 DEF RemoveAccount
    <3>2. CASE UNCHANGED workerVars
      BY <1>0, <3>1, <3>2 DEF Bears, BearingOf, workerVars, DiskOK
    <3>3. CASE Begin(w, "cascade", "remove", current', NoToken)
               /\ pc[w] = "idle"
      <4>1. fresh[w] = NoToken
        BY <1>0, <3>3 DEF HandOK
      <4> QED BY <1>0, <3>1, <3>3, <4>1 DEF Bears, BearingOf, Begin, HandsOK,
                 DiskOK
    <3> QED BY <2>2, <3>2, <3>3 DEF RemoveAccount
  <2>3. ASSUME Cascade(w) PROVE Same
    <3>1. UNCHANGED file
      BY <2>3 DEF Cascade, Switch
    <3>2. CASE Stop({w})
      BY <1>0, <3>1, <3>2 DEF Stop, Bears, BearingOf, HandsOK
    <3>3. CASE slug[w] # NoSlug /\ Prefetch(w, slug[w])
      <4>1. slug[w] \in Slugs /\ fresh[w] = NoToken
        BY <1>0, <2>3, <3>3 DEF HandOK, WorkerOK, Cascade
      <4> QED BY <1>2, <3>1, <3>3, <4>1
    <3> QED BY <2>3, <3>2, <3>3 DEF Cascade
  <2>4. UNCHANGED issued
    BY <1>3 DEF Administer, ActivateAccount, RemoveAccount, Cascade,
       upstreamVars
  <2> QED BY <1>3, <2>1, <2>2, <2>3, <2>4 DEF Administer
<1>4. ASSUME NEW w \in Workers, RefreshAccount(w)
      PROVE  /\ held[w] \in Token
             /\ \A r \in Slugs, t \in Token :
                  Bears(r, t)' =>
                    Bears(r, t) \/ (t = Successor(held[w]) /\ Bears(r, held[w]))
  <2>1. held[w] \in Token
    BY <1>0, <1>4 DEF RefreshAccount, HandOK, WorkerOK
  <2>2. PICK J \in SUBSET Waiting(w) : Land(J, held[w], Successor(held[w]))
    BY <1>4 DEF RefreshAccount
  <2>3. \A v \in J : /\ v \in Workers
                     /\ slug[v] \in Slugs => Bears(slug[v], held[w])
    BY <2>2 DEF Waiting, Bears
  <2>4. UNCHANGED file
    BY <1>4 DEF RefreshAccount, diskVars
  <2>5. \A v \in Workers : /\ slug'[v] = slug[v]
                           /\ \/ held'[v] \in {held[v], NoToken}
                              \/ v \in J /\ held'[v] = held[w]
                           /\ \/ fresh'[v] \in {fresh[v], NoToken}
                              \/ v \in J /\ fresh'[v] = Successor(held[w])
    BY <1>0, <2>2 DEF Land, HandsOK
  <2> QED BY <2>1, <2>3, <2>4, <2>5 DEF Bears
<1>5. ASSUME UNCHANGED file, NEW w \in Workers, Conclude(w) PROVE Same
  BY <1>0, <1>5 DEF Conclude, Stop, Begin, Bears, BearingOf, HandsOK
<1>6. ASSUME NEW w \in Workers, Refresh(w), ~ RefreshAccount(w)
      PROVE  Same /\ UNCHANGED issued
  <2>1. ASSUME NEW s \in Slugs, NEW j, Load(w, s, j) PROVE Same
    <3>1. fresh[w] = NoToken
      BY <1>0, <2>1 DEF Load, HandOK
    <3> QED
      BY <1>0, <2>1, <3>1 DEF Load, Begin, Bears, BearingOf, HandsOK, diskVars
  <2>2. ASSUME RefreshFails(w) PROVE Same
    BY <1>0, <2>2 DEF RefreshFails, Stop, Bears, BearingOf, HandsOK, diskVars
  <2>3. ASSUME Persist(w) PROVE Same
    BY <1>0, <2>3 DEF Persist, SyncRotatedCreds, Goto, Bears, BearingOf,
       HandsOK, DiskOK
  <2>4. ASSUME AskCurrent(w) PROVE Same
    <3> SUFFICES ASSUME NEW r \in Slugs, NEW t \in Token, Bears(r, t)'
                 PROVE  BearingOf(r, t)
      OBVIOUS
    <3>1. Ensured.file[r] = t => BearingOf(r, t)
      BY <1>i
    <3>2. file' = Ensured.file
      BY <2>4 DEF AskCurrent
    <3>3. CASE UNCHANGED <<job, slug, held, fresh>>
      BY <3>1, <3>2, <3>3 DEF Bears, BearingOf
    <3>4. CASE Conclude(w)
      <4>1. \A v \in Workers :
              slug'[v] = r /\ (held'[v] = t \/ fresh'[v] = t) =>
              slug[v] = r /\ (held[v] = t \/ fresh[v] = t)
        BY <1>0, <3>4 DEF Conclude, Stop, Begin, HandsOK
      <4> QED BY <3>1, <3>2, <4>1 DEF Bears, BearingOf
    <3> QED BY <2>4, <3>3, <3>4 DEF AskCurrent
  <2>5. ASSUME Align(w) PROVE Same
    BY <1>5, <2>5 DEF Align
  <2>6. ASSUME LoadActivation(w) PROVE Same
    <3>1. slug'[w] = NoSlug /\ NoSlug \notin Slugs
      BY <1>0, <2>6 DEF LoadActivation, Begin, HandsOK
    <3> QED
      BY <1>0, <2>6, <3>1 DEF LoadActivation, Begin, Bears, BearingOf, HandsOK,
         diskVars
  <2>7. /\ ~ RefreshActivation(w) /\ ~ CheckActivation(w)
        /\ ~ WriteActivation(w) /\ ~ ReportRefreshed(w) /\ ~ RescueRotation(w)
    BY NoGlobalSteps
  <2>8. UNCHANGED issued
    BY <1>6, <2>7 DEF Refresh, Load, LoadActivation, RefreshFails, AnswerLost,
       Persist, AskCurrent, Align, upstreamVars
  <2> QED BY <1>6, <2>1, <2>2, <2>3, <2>4, <2>5, <2>6, <2>7, <2>8 DEF Refresh
<1>9. ASSUME Look PROVE Same /\ UNCHANGED issued
  <2>1. file' = Ensured.file /\ UNCHANGED <<workerVars, issued>>
    BY <1>9 DEF Look, upstreamVars
  <2> QED BY <1>i, <2>1 DEF Bears, BearingOf, workerVars
<1>7. ASSUME UNCHANGED vars PROVE Same /\ UNCHANGED issued
  BY <1>7 DEF vars, diskVars, workerVars, upstreamVars, Bears, BearingOf
<1>8. ASSUME NEW w \in Workers, RefreshAccount(w)
      PROVE  Rotate(held[w]) /\ UNCHANGED diskVars
  BY <1>8 DEF RefreshAccount
<1> HIDE DEF Same
<1>10. CASE \E w \in Workers : Administer(w) \/ Refresh(w)
  BY <1>3, <1>4, <1>6, <1>8, <1>10 DEF Same
<1>11. CASE Look \/ UNCHANGED vars
  BY <1>7, <1>9, <1>11 DEF Same
<1>12. CASE \E u \in Users, s \in Slugs : Login(u, s)
  BY <1>1, <1>12
<1> QED BY <1>d, <1>10, <1>11, <1>12 DEF Next

-----------------------------------------------------------------------------
(* What codely-creds.json is changed to: the credentials of the account    *)
(* that is then current.                                                   *)

LEMMA CascadesGoOn ==
  ASSUME TypeInv, NoCrash, [Next]_vars, Cascading, ~ Cascading'
  PROVE  \E w \in Workers : Cascade(w)
<1>1. PICK c \in Workers : pc[c] = "cascade"
  BY DEF Cascading
<1>2. pc'[c] # "cascade"
  BY DEF Cascading
<1>0. ~ Crash /\ pc \in [Workers -> Points]
  BY DEF Crash, Fails, NoCrash, TypeInv, TypeOK
<1> SUFFICES ASSUME \A w \in Workers : ~ Cascade(w) PROVE FALSE
  OBVIOUS
<1>3. ASSUME NEW w \in Workers, pc[w] # "cascade",
             \/ Stop({w})
             \/ \E to, j, s, t : Begin(w, to, j, s, t)
             \/ \E to : Goto(w, to)
      PROVE  FALSE
  BY <1>0, <1>1, <1>2, <1>3 DEF Stop, Begin, Goto
<1>4. ASSUME UNCHANGED pc PROVE FALSE
  BY <1>1, <1>2, <1>4
<1>5. ASSUME NEW w \in Workers, Administer(w) PROVE FALSE
  BY <1>3, <1>4, <1>5 DEF Administer, ActivateAccount, RemoveAccount, Prefetch,
     workerVars
<1>6. ASSUME NEW w \in Workers, Refresh(w) PROVE FALSE
  <2>1. ASSUME NEW J, NEW h, NEW t, Land(J, h, t), pc[c] = "cascade", c \notin J
        PROVE  FALSE
    BY <1>1, <1>2, <2>1 DEF Land
  <2>2. ~ RefreshAccount(w)
    <3> SUFFICES ASSUME RefreshAccount(w) PROVE FALSE
      OBVIOUS
    <3>1. PICK J \in SUBSET Waiting(w) : Land(J, held[w], Successor(held[w]))
      BY DEF RefreshAccount
    <3> QED BY <1>1, <2>1, <3>1 DEF Waiting
  <2>3. ~ ReportRefreshed(w) /\ ~ RescueRotation(w)
    <3> SUFFICES ASSUME ReportRefreshed(w) \/ RescueRotation(w) PROVE FALSE
      OBVIOUS
    <3>1. Land({w} \cup Joined(w), held[w], fresh[w]) /\ c \notin {w} \cup Joined(w)
      BY <1>1 DEF ReportRefreshed, RescueRotation, Joined
    <3> HIDE DEF Joined
    <3> QED BY <1>1, <2>1, <3>1
  <2>4. ~ RefreshActivation(w)
    BY <1>1, <1>2 DEF RefreshActivation, Waiting
  <2>5. \A s \in Slugs, j \in Refreshers : ~ Load(w, s, j)
    BY <1>3 DEF Load
  <2>6. ~ LoadActivation(w) /\ ~ RefreshFails(w)
    BY <1>3 DEF LoadActivation, RefreshFails
  <2>7. ~ Persist(w) /\ ~ AskCurrent(w) /\ ~ Align(w)
    BY <1>3 DEF Persist, AskCurrent, Align, Conclude
  <2>8. ~ CheckActivation(w) /\ ~ WriteActivation(w)
    BY <1>3 DEF CheckActivation, WriteActivation
  <2> QED
    BY <1>6, <2>2, <2>3, <2>4, <2>5, <2>6, <2>7, <2>8 DEF Refresh
<1> QED BY <1>0, <1>4, <1>5, <1>6 DEF Next, Login, Look, workerVars, vars

(* The token t is, or was a step ago, one of the current account's.        *)
WillBear(s, t) ==
  \/ file'[s] = t
  \/ \E w \in Workers : slug'[w] = s /\ (held'[w] = t \/ fresh'[w] = t)

OfCurrent(t) ==
  /\ current' \in Slugs /\ t \in Token
  /\ \/ WillBear(current', t)
     \/ current' = current /\ Bears(current, t)

LEMMA ActivationMoves ==
  ASSUME NoCrash, TypeInv, NoneGlobal, FilesThere, [Next]_vars, ~ Cascading'
  PROVE  \/ ~ Cascading /\ UNCHANGED <<activation, current>>
         \/ activation' = NoToken
         \/ OfCurrent(activation')
         \/ Importing /\ UNCHANGED activation
            /\ current' = AutoName[activation.user]
<1> USE Numbers
<1>0. DiskOK /\ \A w \in Workers : HandOK(w)
  BY TypeInvParts DEF HandsOK
<1>d. ~ Crash
  BY DEF Crash, Fails, NoCrash
<1>f. FilesThere' /\ file' \in [Slugs -> Stored]
      /\ current' \in Slugs \cup {NoSlug}
  BY FilesThereNext, TypeNext DEF TypeInv, TypeOK
<1> DEFINE G == \/ UNCHANGED <<activation, current>>
                \/ activation' = NoToken
                \/ OfCurrent(activation')
                \/ Importing /\ UNCHANGED activation
                   /\ current' = AutoName[activation.user]
<1>e. \/ Ensured.current = current
      \/ Importing /\ Ensured.current = AutoName[activation.user]
  BY <1>0, EnsuredIs
<1>r. ASSUME NEW t, activation' = Restored(current', file', t) PROVE G
  <2>1. CASE current' = NoSlug
    BY <1>r, <2>1 DEF Restored
  <2>2. CASE current' # NoSlug
    <3>1. current' \in Slugs /\ file'[current'] \in Token
      BY <1>f, <2>2 DEF FilesThere, Stored
    <3>2. activation' = file'[current']
      BY <1>r, <2>2, <3>1 DEF Restored
    <3> QED BY <3>1, <3>2 DEF OfCurrent, WillBear
  <2> QED BY <2>1, <2>2
<1>1. ASSUME NEW u \in Users, NEW s \in Slugs, Login(u, s) PROVE G
  <2> DEFINE t == NewToken(u)
  <2>1. t \in Token
    BY <1>0, <1>1, NextToken DEF Login, NewToken
  <2>2. Ensured.file \in [Slugs -> Stored]
    BY <1>0, EnsuredIs
  <2>3. \/ /\ current' = s /\ activation' = t
           /\ file' = [Ensured.file EXCEPT ![s] = t]
        \/ /\ current' = Ensured.current
           /\ activation' \in {activation, Restored(current', file', t)}
    BY <1>1 DEF Login, NewToken
  <2> HIDE DEF t, G
  <2>4. CASE /\ current' = s /\ activation' = t
             /\ file' = [Ensured.file EXCEPT ![s] = t]
    BY <2>1, <2>2, <2>4 DEF G, OfCurrent, WillBear
  <2>5. CASE current' = Ensured.current /\ activation' = activation
    BY <1>e, <2>5 DEF G
  <2> QED BY <1>r, <2>3, <2>4, <2>5
<1>2. ASSUME NEW s \in Slugs, file[s] \in Token, Switch(s) PROVE G
  <2>1. CASE activation' = file[s] /\ current' = s /\ UNCHANGED file
    BY <1>2, <2>1 DEF OfCurrent, WillBear
  <2>2. CASE /\ activation' \in {activation, Restored(current, file, file[s])}
             /\ UNCHANGED <<index, current, file>>
    BY <1>r, <2>2
  <2> HIDE DEF G
  <2> QED BY <1>2, <2>1, <2>2 DEF Switch
<1>3. ASSUME NEW w \in Workers, Cascade(w)
      PROVE  activation' = NoToken \/ OfCurrent(activation')
  <2>1. CASE slug[w] # NoSlug /\ file[slug[w]] # NoToken /\ Switch(slug[w])
             /\ Switched(slug[w])
    <3>0. slug[w] \in Slugs
      BY <1>0, <2>1 DEF HandOK
    <3>1. slug[w] \in Slugs /\ file[slug[w]] \in Token
      BY <1>0, <2>1, <3>0 DEF DiskOK, Stored
    <3>2. activation' = file[slug[w]] /\ current' = slug[w] /\ UNCHANGED file
      BY <1>0, <2>1 DEF Switch, Switched, Fails, DiskOK
    <3> QED BY <3>1, <3>2 DEF OfCurrent, WillBear
  <2> QED BY <1>3, <2>1 DEF Cascade
<1>4. ASSUME NEW w \in Workers, NEW s \in Slugs, RemoveAccount(w, s) PROVE G
  <2>1. current # s
    <3> SUFFICES ASSUME current = s PROVE FALSE
      OBVIOUS
    <3>1. pc \in [Workers -> Points] /\ pc' = [pc EXCEPT ![w] = "cascade"]
      BY <1>4 DEF RemoveAccount, Begin, Goto, TypeInv, TypeOK
    <3> QED BY <3>1 DEF Cascading
  <2> QED BY <1>4, <2>1 DEF RemoveAccount
<1>5. ASSUME NEW w \in Workers, Align(w) PROVE G
  <2>1. slug[w] \in Slugs /\ fresh[w] \in Token
    BY <1>0, <1>5 DEF Align, HandOK, WorkerOK, Rotated
  <2>2. CASE current = slug[w]
    BY <1>5, <2>1, <2>2 DEF Align, SyncActivationCreds, OfCurrent, Bears
  <2> QED BY <1>5, <2>2 DEF Align, SyncActivationCreds
<1>6. ASSUME Look \/ \E w \in Workers : AskCurrent(w) PROVE G
  BY <1>e, <1>6 DEF Look, AskCurrent
<1>7. ASSUME NEW w \in Workers, Refresh(w), ~ Align(w), ~ AskCurrent(w)
      PROVE  UNCHANGED <<activation, current>>
  <2>1. /\ ~ RefreshActivation(w) /\ ~ CheckActivation(w)
        /\ ~ WriteActivation(w) /\ ~ ReportRefreshed(w) /\ ~ RescueRotation(w)
    BY NoGlobalSteps
  <2> QED
    BY <1>7, <2>1 DEF Refresh, Load, LoadActivation, RefreshAccount,
       RefreshFails, Persist, diskVars
<1>8. CASE Cascading
  BY <1>3, <1>8, CascadesGoOn
<1>9. CASE ~ Cascading
  <2>1. \A w \in Workers : ~ Cascade(w)
    BY <1>9 DEF Cascade, Cascading
  <2>2. ASSUME NEW w \in Workers, NEW s \in Slugs, ActivateAccount(w, s)
        PROVE  G
    <3>1. file[s] \in Token /\ Switch(s)
      BY <1>0, <2>2 DEF ActivateAccount, DiskOK, Stored
    <3> HIDE DEF G
    <3> QED BY <1>2, <3>1
  <2>3. UNCHANGED vars => G
    BY DEF vars, diskVars
  <2>4. ASSUME NEW w \in Workers, Refresh(w) PROVE G
    BY <1>5, <1>6, <1>7, <2>4
  <2>5. G
    <3> HIDE DEF G
    <3> QED BY <1>d, <1>1, <1>4, <1>6, <2>1, <2>2, <2>3, <2>4
            DEF Next, Administer
  <2> QED BY <1>9, <2>5
<1> QED BY <1>8, <1>9

-----------------------------------------------------------------------------
(* The activation belongs to the current account.                          *)

BearersNamed == \A s \in Slugs, t \in Token : Bears(s, t) => GoesBy(t.user, s)

EntriesNamed == \A s \in Slugs : index[s] # NoUser => GoesBy(index[s], s)

ActivationNamed ==
  \/ Cascading
  \/ activation = NoToken
  \/ current # NoSlug /\ GoesBy(activation.user, current)

LEMMA BearersNamedNext ==
  ASSUME NoCrash, TypeInv, NoneGlobal, BearersNamed, [Next]_vars
  PROVE  BearersNamed'
<1> USE Numbers
<1> SUFFICES ASSUME NEW r \in Slugs, NEW t \in Token, Bears(r, t)'
             PROVE  GoesBy(t.user, r)
  BY DEF BearersNamed, GoesBy
<1>1. BearingOf(r, t) => GoesBy(t.user, r)
  BY DEF BearingOf, Imports, BearersNamed, GoesBy
<1>2. CASE \E u \in Users, s \in Slugs :
             /\ Login(u, s)
             /\ BearingOf(r, t) \/ (r = s /\ t = NewToken(u))
  BY <1>1, <1>2 DEF NewToken, Login, GoesBy
<1>3. CASE \E p \in Token : Bears(r, p) /\ t = Successor(p)
  BY <1>3 DEF Successor, BearersNamed
<1>4. CASE BearingOf(r, t)
  BY <1>1, <1>4
<1>5. Bears(r, t) => BearingOf(r, t)
  BY DEF BearingOf
<1> QED BY <1>2, <1>3, <1>4, <1>5, Bearing

LEMMA EntriesNamedNext ==
  ASSUME NoCrash, TypeInv, NoneGlobal, BearersNamed, EntriesNamed, [Next]_vars
  PROVE  EntriesNamed'
<1> USE Numbers, NamesAssumption
<1>0. DiskOK /\ \A w \in Workers : HandOK(w)
  BY TypeInvParts DEF HandsOK
<1>e. \A s \in Slugs : Ensured.index[s] # NoUser => GoesBy(Ensured.index[s], s)
  <2>1. CASE Importing
    <3>1. PICK s \in Slugs :
            /\ s = AutoName[activation.user]
            /\ Ensured.index = [index EXCEPT ![s] = activation.user]
      BY <1>0, <2>1, EnsuredIs
    <3>2. Ensured.index[s] = activation.user
          /\ \A r \in Slugs \ {s} : Ensured.index[r] = index[r]
      BY <1>0, <3>1 DEF DiskOK
    <3>3. GoesBy(activation.user, s)
      BY <3>1 DEF GoesBy
    <3> QED BY <3>2, <3>3 DEF EntriesNamed
  <2> QED BY <1>0, <2>1, EnsuredIs DEF EntriesNamed
<1>1. ASSUME NEW u \in Users, NEW s \in Slugs, Login(u, s) PROVE EntriesNamed'
  <2>1. \/ index' = [Ensured.index EXCEPT ![s] = u]
        \/ index' = Ensured.index
    BY <1>1 DEF Login
  <2>2. GoesBy(u, s)
    BY <1>1 DEF Login, GoesBy
  <2> QED BY <1>0, <1>e, <2>1, <2>2, EnsuredIs DEF EntriesNamed, GoesBy
<1>2. ASSUME NEW s \in Slugs, Switching(s) PROVE EntriesNamed'
  <2>1. GoesBy(file[s].user, s)
    BY <1>2 DEF Switching, BearersNamed, Bears
  <2>2. index' = [index EXCEPT ![s] = file[s].user] \/ UNCHANGED index
    BY <1>2 DEF Switching, Switch
  <2>3. index \in [Slugs -> Users \cup {NoUser}]
    BY <1>0 DEF DiskOK
  <2> QED BY <2>1, <2>2, <2>3 DEF EntriesNamed, GoesBy
<1>3. ASSUME NEW w \in Workers, NEW s \in Slugs, RemoveAccount(w, s)
      PROVE  EntriesNamed'
  BY <1>0, <1>3 DEF RemoveAccount, EntriesNamed, GoesBy, DiskOK
<1>4. ASSUME NEW w \in Workers, Persist(w) PROVE EntriesNamed'
  <2>1. fresh[w] \in Token /\ slug[w] \in Slugs
    BY <1>0, <1>4 DEF Persist, HandOK, WorkerOK, Rotated
  <2>2. GoesBy(fresh[w].user, slug[w])
    BY <2>1 DEF BearersNamed, Bears
  <2> QED BY <1>0, <1>4, <2>2 DEF Persist, SyncRotatedCreds, EntriesNamed,
             GoesBy, DiskOK
<1>5. ASSUME Ensuring PROVE EntriesNamed'
  BY <1>e, <1>5 DEF Ensuring, EntriesNamed, GoesBy
<1>6. ASSUME UNCHANGED index PROVE EntriesNamed'
  BY <1>6 DEF EntriesNamed, GoesBy
<1> QED
  BY <1>1, <1>2, <1>3, <1>4, <1>5, <1>6, DiskCases,
     NeverCrashes DEF Dropping, Align, WriteActivation, ReportRefreshed, RescueRotation,
         diskVars

LEMMA ActivationNamedNext ==
  ASSUME NoCrash, TypeInv, NoneGlobal, FilesThere, BearersNamed,
         ActivationNamed, [Next]_vars
  PROVE  ActivationNamed'
<1> USE Numbers, NamesAssumption
<1>0. DiskOK
  BY TypeInvParts
<1>1. CASE Cascading'
  BY <1>1 DEF ActivationNamed
<1>2. CASE ~ Cascading /\ UNCHANGED <<activation, current>>
  BY <1>2 DEF ActivationNamed, GoesBy
<1>3. CASE activation' = NoToken
  BY <1>3 DEF ActivationNamed
<1>4. CASE OfCurrent(activation')
  <2>1. PICK r \in Slugs, t \in Token : r = current' /\ t = activation'
    BY <1>4 DEF OfCurrent
  <2>2. GoesBy(t.user, r)
    <3>1. CASE Bears(r, t)
      BY <3>1 DEF BearersNamed
    <3>2. CASE WillBear(r, t)
      <4>1. Bears(r, t)'
        BY <3>2 DEF WillBear, Bears
      <4>2. BearersNamed'
        BY BearersNamedNext
      <4>3. GoesBy(t.user, r)'
        BY <4>1, <4>2 DEF BearersNamed
      <4> QED BY <4>3 DEF GoesBy
    <3> QED BY <1>4, <2>1, <3>1, <3>2 DEF OfCurrent
  <2> QED BY <2>1, <2>2 DEF ActivationNamed, GoesBy
<1>5. CASE Importing /\ UNCHANGED activation
           /\ current' = AutoName[activation.user]
  <2>1. activation \in Token /\ activation.user \in Users
    BY <1>0, <1>5 DEF Importing, DiskOK, Stored
  <2> QED BY <1>5, <2>1 DEF ActivationNamed, GoesBy
<1> QED BY <1>1, <1>2, <1>3, <1>4, <1>5, ActivationMoves

(* When no two users go by the same name and codely-creds.json itself is   *)
(* not refreshed, it belongs to the account the registry calls current,    *)
(* whatever else is refreshed, even by overlapping refreshes, removed,     *)
(* switched or logged in, and whichever writes of those fail.              *)
(* SyncActivationCreds' second look at the current account, under r.mu, is *)
(* what makes this true.                                                   *)
THEOREM ActivationStaysCurrent ==
  NoCrash /\ NoGlobalRefresh /\ NamesApart =>
    (Spec => []ActivationFollowsCurrent)
<1> SUFFICES ASSUME NoCrash, NoGlobalRefresh, NamesApart
             PROVE  Spec => []ActivationFollowsCurrent
  OBVIOUS
<1> USE Numbers
<1> DEFINE I == TypeInv /\ NoneGlobal /\ FilesThere /\ BearersNamed
                /\ EntriesNamed /\ ActivationNamed
<1>1. Init => I
  BY TypeInitial DEF Init, NoneGlobal, FilesThere, BearersNamed, Bears,
     EntriesNamed, ActivationNamed
<1>2. I /\ [Next]_vars => I'
  BY TypeNext, NoneGlobalNext, FilesThereNext, BearersNamedNext,
     EntriesNamedNext, ActivationNamedNext
<1>3. I => ActivationFollowsCurrent
  <2> SUFFICES ASSUME I, ~ Cascading, activation # NoToken
               PROVE  current # NoSlug /\ index[current] = activation.user
    BY DEF ActivationFollowsCurrent, Cascading
  <2>1. current # NoSlug /\ GoesBy(activation.user, current)
    BY DEF ActivationNamed
  <2>2. current \in Slugs /\ activation.user \in Users
        /\ index[current] \in Users
    BY <2>1 DEF TypeInv, TypeOK, Stored, FilesThere
  <2>3. GoesBy(index[current], current)
    BY <2>1, <2>2 DEF FilesThere, EntriesNamed
  <2> QED BY <2>1, <2>2, <2>3 DEF NamesApart
<1> HIDE DEF I
<1> QED BY <1>1, <1>2, <1>3, PTL DEF Spec

-----------------------------------------------------------------------------
(* No rotation that was answered is lost, under these conditions: no two   *)
(* goroutines hold credentials of one account at once, at least one        *)
(* account is kept, codely-creds.json itself is not refreshed, and nothing *)
(* fails but the writes of a switch and the answers of the upstream: no    *)
(* login is cut short and the process is not killed.                       *)

Quiet ==
  /\ ~ Overlap /\ KeepOne /\ NoGlobalRefresh
  /\ Failing \subseteq {"switch", "answer"}

(* Accounts and tokens are issued one by one, and each token has one home. *)
Known == \A s \in Slugs, t \in Token : Bears(s, t) => t.nr <= issued

OneHome ==
  \A r, s \in Slugs, t \in Token : Bears(r, t) /\ Bears(s, t) => r = s

(* Two goroutines are never at work with credentials of one account.       *)
OneEach ==
  \A v, w \in Workers :
    v # w /\ held[v] # NoToken /\ held[w] # NoToken => slug[v] # slug[w]

(* A successor that is on its way to the files is as good as can be known. *)
FreshLive == \A w \in Workers : pc[w] \in Rotated => fresh[w] \in Good

(* So is a file's token, or its successor is on its way.                   *)
OnItsWay(s) ==
  \E w \in Workers : /\ slug[w] = s /\ pc[w] \in {"persist", "retry"}
                     /\ held[w] = file[s]

FilesKept ==
  \A s \in Slugs : file[s] # NoToken => file[s] \in Good \/ OnItsWay(s)

FilesRegistered == \A s \in Slugs : file[s] # NoToken => index[s] # NoUser

Settled ==
  /\ TypeInv /\ NoneGlobal /\ FilesThere /\ NoneLeft /\ FilesRegistered
  /\ Known /\ OneHome /\ OneEach /\ FreshLive /\ FilesKept

LEMMA NothingToImport ==
  ASSUME TypeInv, NoneLeft
  PROVE  /\ ~ Importing
         /\ Ensured.index = index /\ Ensured.current = current
         /\ Ensured.file = file
<1>1. ~ Importing
  BY DEF NoneLeft, Importing, Registered
<1> QED BY <1>1, TypeInvParts, EnsuredIs

(* An answer that is lost makes no difference to what the proxy can know.  *)
LEMMA FailsGood ==
  ASSUME NEW w \in Workers, RefreshFails(w)
  PROVE  UNCHANGED Good
BY DEF RefreshFails, AnswerLost, upstreamVars, Good

LEMMA RotationCases ==
  ASSUME Quiet, TypeInv, NoneGlobal, FilesThere, NoneLeft, [Next]_vars
  PROVE
    \/ \E u \in Users, s \in Slugs :
         /\ Login(u, s)
         /\ file' = [file EXCEPT ![s] = NewToken(u)]
         /\ Good' = Good \cup {NewToken(u)}
         /\ index' = [index EXCEPT ![s] = u]
         /\ current' = s /\ activation' = NewToken(u)
         /\ UNCHANGED workerVars
    \/ \E w \in Workers, s \in Slugs : RemoveAccount(w, s)
    \/ \E w \in Workers, s \in Slugs, j \in AccountJobs :
         /\ pc[w] \in {"idle", "cascade"} /\ file[s] \in Token
         /\ Alone(w, s) /\ Begin(w, "refresh", j, s, file[s])
         /\ UNCHANGED <<file, Good>>
    \/ \E w \in Workers :
         /\ pc[w] \notin {"persist", "retry"}
         /\ Stop({w})
         /\ UNCHANGED <<file, Good>>
    \/ \E w \in Workers : RefreshAccount(w)
    \/ \E w \in Workers : Persist(w)
    \/ \E w \in Workers :
         /\ pc[w] = "ask" /\ Goto(w, "align")
         /\ UNCHANGED <<job, slug, held, fresh, file, Good>>
    \/ \E w \in Workers :
         /\ pc[w] \in {"ask", "align"}
         /\ Begin(w, "refresh", "fetch", slug[w], fresh[w])
         /\ UNCHANGED <<file, Good>>
    \/ UNCHANGED <<file, Good, workerVars>>
<1> USE Numbers
<1>0. DiskOK /\ \A w \in Workers : HandOK(w)
  BY TypeInvParts DEF HandsOK
<1>d. ~ Crash /\ NoCrash /\ "login" \notin Failing
  BY DEF Crash, Fails, Quiet, NoCrash
<1>1. ASSUME NEW u \in Users, NEW s \in Slugs, Login(u, s)
      PROVE  /\ file' = [file EXCEPT ![s] = NewToken(u)]
             /\ Good' = Good \cup {NewToken(u)}
             /\ index' = [index EXCEPT ![s] = u]
             /\ current' = s /\ activation' = NewToken(u)
             /\ UNCHANGED workerVars
  BY <1>1, <1>d, NothingToImport DEF Login, NewToken, Fails, Good
<1>2. ASSUME NEW w \in Workers, NEW s \in Slugs, Prefetch(w, s),
             pc[w] \in {"idle", "cascade"}, file[s] \in Token
      PROVE  \/ Stop({w})
             \/ \E j \in AccountJobs : Alone(w, s) /\ Begin(w, "refresh", j, s, file[s])
  BY <1>2 DEF Prefetch, AccountJobs
<1>3. ASSUME NEW w \in Workers, NEW s \in Slugs, ActivateAccount(w, s)
      PROVE  /\ pc[w] = "idle" /\ file[s] \in Token
             /\ Prefetch(w, s) \/ UNCHANGED workerVars
             /\ UNCHANGED <<file, Good>>
  BY <1>0, <1>3 DEF ActivateAccount, Switch, DiskOK, Stored, upstreamVars, Good
<1>4. ASSUME NEW w \in Workers, Cascade(w)
      PROVE  /\ pc[w] = "cascade" /\ UNCHANGED <<file, Good>>
             /\ \/ Stop({w})
                \/ slug[w] \in Slugs /\ file[slug[w]] \in Token
                   /\ Prefetch(w, slug[w])
  <2>1. slug[w] \in Slugs \cup {NoSlug}
    BY <1>0 DEF HandOK
  <2>2. slug[w] \in Slugs /\ file[slug[w]] # NoToken => file[slug[w]] \in Token
    BY <1>0 DEF DiskOK, Stored
  <2> QED BY <1>4, <2>1, <2>2 DEF Cascade, Switch, upstreamVars, Good
<1>5. ASSUME NEW w \in Workers, NEW s \in Slugs, NEW j \in Refreshers,
             Load(w, s, j)
      PROVE  /\ j \in AccountJobs /\ pc[w] = "idle" /\ file[s] \in Token
             /\ Alone(w, s) /\ Begin(w, "refresh", j, s, file[s])
             /\ UNCHANGED <<file, Good>>
  BY <1>0, <1>5 DEF Load, Refreshers, AccountJobs, DiskOK, Stored, diskVars,
     upstreamVars, Good
<1>6. ASSUME NEW w \in Workers, AskCurrent(w) \/ Align(w)
      PROVE  /\ pc[w] \in {"ask", "align"} /\ UNCHANGED <<file, Good>>
             /\ \/ Conclude(w)
                \/ pc[w] = "ask" /\ Goto(w, "align")
                   /\ UNCHANGED <<job, slug, held, fresh>>
  BY <1>6, NothingToImport DEF AskCurrent, Align, upstreamVars, Good
<1>7. ASSUME NEW w \in Workers, RefreshFails(w)
      PROVE  pc[w] = "refresh" /\ Stop({w}) /\ UNCHANGED <<file, Good>>
  BY <1>7, FailsGood DEF RefreshFails, diskVars
<1>8. UNCHANGED vars => UNCHANGED <<file, Good, workerVars>>
  BY DEF vars, diskVars, upstreamVars, Good
<1>9. ~ Look /\ \A w \in Workers : ~ LoadActivation(w)
  BY NothingToImport DEF Look, LoadActivation, Quiet, NoGlobalRefresh
<1> DEFINE
  Begins == \E w \in Workers, s \in Slugs, j \in AccountJobs :
         /\ pc[w] \in {"idle", "cascade"} /\ file[s] \in Token
         /\ Alone(w, s) /\ Begin(w, "refresh", j, s, file[s])
         /\ UNCHANGED <<file, Good>>
  Stops == \E w \in Workers :
         /\ pc[w] \notin {"persist", "retry"}
         /\ Stop({w})
         /\ UNCHANGED <<file, Good>>
  Aligns == \E w \in Workers :
         /\ pc[w] = "ask" /\ Goto(w, "align")
         /\ UNCHANGED <<job, slug, held, fresh, file, Good>>
  Again == \E w \in Workers :
         /\ pc[w] \in {"ask", "align"}
         /\ Begin(w, "refresh", "fetch", slug[w], fresh[w])
         /\ UNCHANGED <<file, Good>>
<1>10. ASSUME NEW w \in Workers, Administer(w)
       PROVE  \/ \E s \in Slugs : RemoveAccount(w, s)
              \/ Begins \/ Stops \/ UNCHANGED <<file, Good, workerVars>>
  <2>1. ASSUME NEW s \in Slugs, ActivateAccount(w, s)
        PROVE  Begins \/ Stops \/ UNCHANGED <<file, Good, workerVars>>
    BY <1>2, <1>3, <2>1
  <2>2. ASSUME Cascade(w) PROVE Begins \/ Stops
    BY <1>2, <1>4, <2>2
  <2> HIDE DEF Begins, Stops
  <2> QED BY <1>10, <2>1, <2>2 DEF Administer
<1>11. ASSUME NEW w \in Workers, Refresh(w)
       PROVE  \/ RefreshAccount(w) \/ Persist(w)
              \/ Begins \/ Stops \/ Aligns \/ Again
  <2>1. ASSUME NEW s \in Slugs, NEW j \in Refreshers, Load(w, s, j)
        PROVE  Begins
    BY <1>5, <2>1
  <2>2. ASSUME RefreshFails(w) PROVE Stops
    BY <1>7, <2>2
  <2>3. ASSUME AskCurrent(w) \/ Align(w) PROVE Stops \/ Aligns \/ Again
    BY <1>6, <2>3 DEF Conclude
  <2> HIDE DEF Begins, Stops, Aligns, Again
  <2> QED BY <1>9, <1>11, <2>1, <2>2, <2>3, NoGlobalSteps DEF Refresh
<1> HIDE DEF Begins, Stops, Aligns, Again
<1>12. \/ \E u \in Users, s \in Slugs : Login(u, s)
       \/ \E w \in Workers, s \in Slugs : RemoveAccount(w, s)
       \/ \E w \in Workers : RefreshAccount(w) \/ Persist(w)
       \/ Begins \/ Stops \/ Aligns \/ Again
       \/ UNCHANGED <<file, Good, workerVars>>
  BY <1>d, <1>8, <1>9, <1>10, <1>11 DEF Next
<1> QED BY <1>1, <1>12 DEF Begins, Stops, Aligns, Again

(* Nobody joins a flight then: its leader is the only one with that token. *)
LEMMA RefreshAlone ==
  ASSUME TypeInv, NoneGlobal, OneHome, OneEach, NEW w \in Workers,
         RefreshAccount(w)
  PROVE  /\ pc[w] = "refresh" /\ held[w] \in Token /\ slug[w] \in Slugs
         /\ Rotate(held[w]) /\ Successor(held[w]) \in Token
         /\ pc' = [pc EXCEPT ![w] = "persist"]
         /\ fresh' = [fresh EXCEPT ![w] = Successor(held[w])]
         /\ UNCHANGED <<diskVars, held, slug>>
<1> USE Numbers
<1>0. DiskOK /\ HandsOK /\ \A v \in Workers : HandOK(v)
  BY TypeInvParts DEF HandsOK
<1>1. pc[w] = "refresh" /\ Rotate(held[w]) /\ UNCHANGED diskVars
  BY DEF RefreshAccount
<1>2. \A v \in Workers : pc[v] = "refresh" =>
        held[v] \in Token /\ slug[v] \in Slugs
  BY <1>0 DEF HandOK, WorkerOK, NoneGlobal
<1>3. Successor(held[w]) \in Token
  BY <1>0, <1>1, <1>2, SuccessorIs DEF Rotate
<1>4. PICK J \in SUBSET Waiting(w) :
        w \in J /\ Land(J, held[w], Successor(held[w]))
  BY DEF RefreshAccount
<1>5. J = {w}
  <2> SUFFICES ASSUME NEW v \in J, v # w PROVE FALSE
    BY <1>4
  <2>1. PICK x \in Workers :
          pc[x] = "refresh" /\ held[x] = held[w] /\ slug[x] = slug[v]
    BY DEF Waiting
  <2>2. Bears(slug[x], held[w]) /\ Bears(slug[w], held[w])
    BY <2>1 DEF Bears
  <2>3. slug[x] = slug[w]
    BY <1>1, <1>2, <2>1, <2>2 DEF OneHome
  <2>4. v \in Workers /\ pc[v] = "refresh"
    BY DEF Waiting
  <2> QED BY <1>1, <1>2, <2>1, <2>3, <2>4 DEF OneEach
<1>6. /\ pc' = [pc EXCEPT ![w] = "persist"]
      /\ fresh' = [fresh EXCEPT ![w] = Successor(held[w])]
      /\ UNCHANGED <<held, slug>>
  BY <1>0, <1>4, <1>5 DEF Land, HandsOK, NoneGlobal
<1> QED BY <1>1, <1>2, <1>3, <1>6

LEMMA HomesNext ==
  ASSUME Quiet, Settled, [Next]_vars
  PROVE  Known' /\ OneHome'
<1> USE Numbers
<1>0. DiskOK /\ TypeInv /\ NoneGlobal /\ NoneLeft /\ Known /\ OneHome
  BY TypeInvParts DEF Settled
<1>1. NoCrash
  BY DEF Quiet, NoCrash
<1>2. \A s \in Slugs, t \in Token : BearingOf(s, t) <=> Bears(s, t)
  BY <1>0, NothingToImport DEF BearingOf, Imports
<1>3. issued \in Nat /\ \A t \in Token : t.nr \in Nat
  BY <1>0 DEF DiskOK
<1>4. ASSUME NEW u \in Users, NEW s \in Slugs, Login(u, s),
             \A r \in Slugs, t \in Token :
               Bears(r, t)' => Bears(r, t) \/ (r = s /\ t = NewToken(u))
      PROVE  Known' /\ OneHome'
  <2>1. issued' = issued + 1 /\ NewToken(u).nr = issued + 1
    BY <1>4 DEF Login, NewToken
  <2>2. ASSUME NEW r \in Slugs, NEW t \in Token, Bears(r, t)
        PROVE  t # NewToken(u)
    <3>1. t.nr <= issued
      BY <1>0, <2>2 DEF Known
    <3> HIDE DEF NewToken
    <3> QED BY <1>3, <2>1, <3>1
  <2>3. Known'
    BY <1>0, <1>3, <1>4, <2>1 DEF Known
  <2>4. OneHome'
    <3> HIDE DEF NewToken
    <3> QED BY <1>0, <1>4, <2>2 DEF OneHome
  <2> QED BY <2>3, <2>4
<1>5. ASSUME NEW p \in Token, Rotate(p),
             \A r \in Slugs, t \in Token :
               Bears(r, t)' => Bears(r, t) \/ (t = Successor(p) /\ Bears(r, p))
      PROVE  Known' /\ OneHome'
  <2>1. issued' = issued + 1 /\ Successor(p).nr = issued + 1
    BY <1>5 DEF Rotate, Successor
  <2>2. ASSUME NEW r \in Slugs, NEW t \in Token, Bears(r, t)
        PROVE  t # Successor(p)
    <3>1. t.nr <= issued
      BY <1>0, <2>2 DEF Known
    <3> QED BY <1>3, <2>1, <3>1
  <2>3. ASSUME NEW r \in Slugs, NEW t \in Token, Bears(r, t)'
        PROVE  t.nr <= issued'
    <3>1. CASE t = Successor(p)
      BY <1>3, <2>1, <3>1
    <3>2. CASE Bears(r, t)
      <4>1. t.nr <= issued
        BY <1>0, <3>2 DEF Known
      <4> QED BY <1>3, <2>1, <4>1
    <3> QED BY <1>5, <2>3, <3>1, <3>2
  <2>5. Known'
    BY <2>3 DEF Known
  <2>4. OneHome'
    BY <1>0, <1>5, <2>2 DEF OneHome
  <2> QED BY <2>4, <2>5
<1>6. ASSUME UNCHANGED issued,
             \A r \in Slugs, t \in Token : Bears(r, t)' => Bears(r, t)
      PROVE  Known' /\ OneHome'
  BY <1>0, <1>6 DEF Known, OneHome
<1> QED BY <1>0, <1>1, <1>2, <1>4, <1>5, <1>6, Bearing

LEMMA OneEachNext ==
  ASSUME Quiet, Settled, [Next]_vars
  PROVE  OneEach'
<1> USE Numbers
<1>0. /\ HandsOK /\ TypeInv /\ NoneGlobal /\ NoneLeft /\ FilesThere
      /\ OneHome /\ OneEach /\ ~ Overlap
      /\ \A w \in Workers : HandOK(w)
  BY TypeInvParts DEF Settled, Quiet, HandsOK
<1>1. ASSUME NEW w \in Workers, NEW s \in Slugs, RemoveAccount(w, s)
      PROVE  OneEach'
  BY <1>0, <1>1 DEF RemoveAccount, Begin, OneEach, workerVars, HandsOK
<1>2. ASSUME NEW w \in Workers, NEW s \in Slugs, NEW j,
             Alone(w, s), Begin(w, "refresh", j, s, file[s])
      PROVE  OneEach'
  BY <1>0, <1>2 DEF Alone, Begin, OneEach, HandsOK
<1>3. ASSUME NEW w \in Workers, Stop({w}) PROVE OneEach'
  BY <1>0, <1>3 DEF Stop, OneEach, HandsOK
<1>4. ASSUME NEW w \in Workers, RefreshAccount(w) PROVE OneEach'
  BY <1>0, <1>4, RefreshAlone DEF OneEach
<1>5. ASSUME UNCHANGED <<slug, held>> PROVE OneEach'
  BY <1>0, <1>5 DEF OneEach
<1>6. ASSUME NEW w \in Workers, pc[w] \in {"ask", "align"},
             Begin(w, "refresh", "fetch", slug[w], fresh[w])
      PROVE  OneEach'
  <2>1. held[w] # NoToken
    BY <1>0, <1>6 DEF HandOK, WorkerOK
  <2> QED BY <1>0, <1>6, <2>1 DEF Begin, OneEach, HandsOK
<1> QED
  BY <1>0, <1>1, <1>2, <1>3, <1>4, <1>5, <1>6, RotationCases
     DEF Persist, workerVars

LEMMA FreshLiveNext ==
  ASSUME Quiet, Settled, [Next]_vars
  PROVE  FreshLive'
<1> USE Numbers
<1>0. /\ DiskOK /\ HandsOK /\ TypeInv /\ NoneGlobal /\ NoneLeft /\ FilesThere
      /\ OneHome /\ OneEach /\ FreshLive
      /\ \A w \in Workers : HandOK(w)
  BY TypeInvParts DEF Settled, HandsOK
<1>r. pc = [w \in Workers |-> pc[w]] /\ fresh = [w \in Workers |-> fresh[w]]
  BY <1>0 DEF HandsOK
<1>1. ASSUME NEW w \in Workers, NEW s \in Slugs, RemoveAccount(w, s)
      PROVE  FreshLive'
  BY <1>0, <1>r, <1>1 DEF RemoveAccount, Begin, Goto, FreshLive, workerVars,
     Rotated, upstreamVars, Good
<1>2. ASSUME NEW w \in Workers, NEW j, NEW s, NEW t, Begin(w, "refresh", j, s, t),
             UNCHANGED Good
      PROVE  FreshLive'
  BY <1>0, <1>r, <1>2 DEF Begin, Goto, FreshLive, Rotated
<1>3. ASSUME NEW w \in Workers, Stop({w}), UNCHANGED Good PROVE FreshLive'
  BY <1>0, <1>r, <1>3 DEF Stop, FreshLive, Rotated
<1>4. ASSUME NEW w \in Workers, RefreshAccount(w) PROVE FreshLive'
  <2> SUFFICES ASSUME NEW v \in Workers, pc'[v] \in Rotated
               PROVE  fresh'[v] \in Good'
    BY DEF FreshLive
  <2>1. /\ pc[w] = "refresh" /\ held[w] \in Token /\ slug[w] \in Slugs
        /\ (Good \ {held[w]}) \cup {Successor(held[w])} \subseteq Good'
        /\ pc' = [pc EXCEPT ![w] = "persist"]
        /\ fresh' = [fresh EXCEPT ![w] = Successor(held[w])]
    BY <1>0, <1>4, RefreshAlone DEF Rotate, Good
  <2>2. CASE v = w
    BY <1>r, <2>1, <2>2
  <2>3. CASE v # w
    <3>1. pc[v] \in Rotated /\ fresh'[v] = fresh[v] /\ fresh[v] \in Good
      BY <1>0, <1>r, <2>1, <2>3 DEF FreshLive
    <3>2. held[v] \in Token /\ slug[v] \in Slugs
      BY <1>0, <3>1 DEF HandOK, WorkerOK, Rotated
    <3>3. ASSUME fresh[v] = held[w] PROVE FALSE
      <4>1. Bears(slug[v], held[w]) /\ Bears(slug[w], held[w])
        BY <3>3 DEF Bears
      <4>2. slug[v] = slug[w]
        BY <1>0, <2>1, <3>2, <4>1 DEF OneHome
      <4> QED BY <1>0, <2>1, <2>3, <3>2, <4>2 DEF OneEach
    <3> QED BY <2>1, <3>1, <3>3
  <2> QED BY <2>2, <2>3
<1>5. ASSUME NEW w \in Workers, Persist(w) PROVE FreshLive'
  BY <1>0, <1>r, <1>5 DEF Persist, Goto, FreshLive, Rotated, upstreamVars, Good
<1>6. ASSUME NEW w \in Workers, pc[w] = "ask", Goto(w, "align"),
             UNCHANGED <<fresh, Good>>
      PROVE  FreshLive'
  BY <1>0, <1>r, <1>6 DEF Goto, FreshLive, Rotated
<1>7. ASSUME UNCHANGED workerVars, Good \subseteq Good' PROVE FreshLive'
  BY <1>0, <1>7 DEF FreshLive, workerVars
<1> QED
  BY <1>0, <1>1, <1>2, <1>3, <1>4, <1>5, <1>6, <1>7, RotationCases

LEMMA FilesRegisteredNext ==
  ASSUME Quiet, Settled, [Next]_vars
  PROVE  FilesRegistered'
<1> USE Numbers
<1>0. /\ DiskOK /\ TypeInv /\ NoneGlobal /\ NoneLeft /\ FilesThere
      /\ FilesRegistered /\ NoCrash
      /\ \A w \in Workers : HandOK(w)
  BY TypeInvParts DEF Settled, HandsOK, Quiet, NoCrash
<1>1. ASSUME NEW u \in Users, NEW s \in Slugs, Login(u, s)
      PROVE  FilesRegistered'
  <2>1. "login" \notin Failing
    BY DEF Quiet
  <2> QED BY <1>0, <1>1, <2>1, NothingToImport DEF Login, Fails,
             FilesRegistered, DiskOK
<1>2. ASSUME NEW s \in Slugs, Switching(s) PROVE FilesRegistered'
  <2>1. file[s].user \in Users
    BY <1>2 DEF Switching
  <2> QED BY <1>0, <1>2, <2>1 DEF Switching, Switch, FilesRegistered, DiskOK
<1>3. ASSUME NEW w \in Workers, NEW s \in Slugs, RemoveAccount(w, s)
      PROVE  FilesRegistered'
  BY <1>0, <1>3 DEF RemoveAccount, FilesRegistered, DiskOK
<1>4. ASSUME NEW w \in Workers, Persist(w) PROVE FilesRegistered'
  <2>1. fresh[w] \in Token /\ fresh[w].user \in Users
    BY <1>0, <1>4 DEF Persist, HandOK, WorkerOK, Rotated
  <2> QED BY <1>0, <1>4, <2>1 DEF Persist, SyncRotatedCreds, FilesRegistered,
             DiskOK, Registered
<1>5. ASSUME UNCHANGED <<index, file>> PROVE FilesRegistered'
  BY <1>0, <1>5 DEF FilesRegistered
<1>6. \A w \in Workers : ~ WriteActivation(w) /\ ~ ReportRefreshed(w)
                         /\ ~ RescueRotation(w)
  BY <1>0, NoGlobalSteps
<1>7. Ensuring => UNCHANGED <<index, file>>
  BY <1>0, NothingToImport DEF Ensuring
<1> QED
  BY <1>0, <1>1, <1>2, <1>3, <1>4, <1>5, <1>6, <1>7, DiskCases,
     NeverCrashes DEF Dropping, Align, diskVars

LEMMA FilesKeptNext ==
  ASSUME Quiet, Settled, [Next]_vars
  PROVE  FilesKept'
<1> USE Numbers
<1>0. /\ DiskOK /\ HandsOK /\ TypeInv /\ NoneGlobal /\ NoneLeft /\ FilesThere
      /\ OneHome /\ OneEach /\ FreshLive /\ FilesKept /\ FilesRegistered
      /\ \A w \in Workers : HandOK(w)
  BY TypeInvParts DEF Settled, HandsOK
<1>r. pc = [w \in Workers |-> pc[w]] /\ fresh = [w \in Workers |-> fresh[w]]
      /\ held = [w \in Workers |-> held[w]] /\ slug = [w \in Workers |-> slug[w]]
  BY <1>0 DEF HandsOK
<1> SUFFICES ASSUME NEW s \in Slugs, file'[s] # NoToken
             PROVE  file'[s] \in Good' \/ OnItsWay(s)'
  BY DEF FilesKept
<1> DEFINE G == file'[s] \in Good' \/ OnItsWay(s)'
<1>k. file[s] # NoToken => file[s] \in Good \/ OnItsWay(s)
  BY <1>0 DEF FilesKept
<1>1. ASSUME NEW u \in Users, NEW r \in Slugs,
             file' = [file EXCEPT ![r] = NewToken(u)],
             Good' = Good \cup {NewToken(u)}, UNCHANGED workerVars
      PROVE  G
  BY <1>0, <1>1, <1>k DEF OnItsWay, workerVars, DiskOK
<1>2. ASSUME NEW w \in Workers, NEW r \in Slugs, RemoveAccount(w, r) PROVE G
  <2>1. file'[s] = file[s] /\ Good' = Good
    BY <1>0, <1>2 DEF RemoveAccount, DiskOK, upstreamVars, Good
  <2>2. \A v \in Workers : pc[v] \in {"persist", "retry"} =>
          pc'[v] = pc[v] /\ slug'[v] = slug[v] /\ held'[v] = held[v]
    BY <1>0, <1>r, <1>2 DEF RemoveAccount, Begin, Goto, workerVars
  <2> QED BY <1>k, <2>1, <2>2 DEF OnItsWay
<1>3. ASSUME NEW w \in Workers, NEW to, NEW j, NEW r, NEW t,
             pc[w] \notin {"persist", "retry"},
             Begin(w, to, j, r, t) \/ Stop({w}) \/ RefreshFails(w),
             UNCHANGED <<file, Good>>
      PROVE  G
  <2>1. \A v \in Workers : pc[v] \in {"persist", "retry"} =>
          pc'[v] = pc[v] /\ slug'[v] = slug[v] /\ held'[v] = held[v]
    BY <1>0, <1>r, <1>3 DEF Begin, Goto, Stop, RefreshFails
  <2> QED BY <1>3, <1>k, <2>1 DEF OnItsWay
<1>4. ASSUME NEW w \in Workers, RefreshAccount(w) PROVE G
  <2>1. /\ pc[w] = "refresh" /\ held[w] \in Token /\ slug[w] \in Slugs
        /\ (Good \ {held[w]}) \cup {Successor(held[w])} \subseteq Good'
        /\ pc' = [pc EXCEPT ![w] = "persist"]
        /\ UNCHANGED <<file, held, slug>>
    BY <1>0, <1>4, RefreshAlone DEF Rotate, Good, diskVars
  <2>2. CASE file[s] = held[w]
    <3>1. Bears(s, held[w]) /\ Bears(slug[w], held[w])
      BY <2>2 DEF Bears
    <3>2. s = slug[w]
      BY <1>0, <2>1, <3>1 DEF OneHome
    <3> QED BY <1>r, <2>1, <2>2, <3>2 DEF OnItsWay
  <2>3. CASE file[s] # held[w]
    BY <1>r, <1>k, <2>1, <2>3 DEF OnItsWay
  <2> QED BY <2>2, <2>3
<1>5. ASSUME NEW w \in Workers, Persist(w) PROVE G
  <2>1. /\ pc[w] \in {"persist", "retry"} /\ SyncRotatedCreds(slug[w], fresh[w])
        /\ UNCHANGED <<Good, slug, held>>
        /\ \A v \in Workers : v # w => pc'[v] = pc[v]
    BY <1>r, <1>5 DEF Persist, Goto, upstreamVars, Good
  <2>2. slug[w] \in Slugs /\ fresh[w] \in Good
    BY <1>0, <2>1 DEF HandOK, WorkerOK, FreshLive, Rotated
  <2>3. CASE s = slug[w]
    <3>1. CASE index[s] # NoUser
      BY <1>0, <2>1, <2>2, <2>3, <3>1 DEF SyncRotatedCreds, Registered, DiskOK
    <3>2. CASE index[s] = NoUser
      BY <1>0, <2>1, <2>2, <2>3, <3>2 DEF SyncRotatedCreds, Registered,
         FilesRegistered
    <3> QED BY <3>1, <3>2
  <2>4. CASE s # slug[w]
    <3>1. file'[s] = file[s]
      BY <1>0, <2>1, <2>2, <2>4 DEF SyncRotatedCreds, DiskOK
    <3> QED BY <1>k, <2>1, <2>4, <3>1 DEF OnItsWay
  <2> QED BY <2>3, <2>4
<1>6. ASSUME NEW w \in Workers, pc[w] = "ask", Goto(w, "align"),
             UNCHANGED <<job, slug, held, fresh, file, Good>>
      PROVE  G
  BY <1>r, <1>k, <1>6 DEF Goto, OnItsWay
<1>7. ASSUME UNCHANGED <<file, Good, workerVars>> PROVE G
  BY <1>k, <1>7 DEF OnItsWay, workerVars
<1>8. ASSUME NEW w \in Workers, pc[w] \in {"idle", "cascade", "ask", "align"},
             NEW j, NEW r, NEW t, Begin(w, "refresh", j, r, t),
             UNCHANGED <<file, Good>>
      PROVE  G
  BY <1>3, <1>8
<1> HIDE DEF G
<1>9. ASSUME NEW w \in Workers, pc[w] \notin {"persist", "retry"}, Stop({w}),
             UNCHANGED <<file, Good>>
      PROVE  G
  BY <1>3, <1>9
<1>10. G
  BY <1>0, <1>1, <1>2, <1>4, <1>5, <1>6, <1>7, <1>8, <1>9, RotationCases
<1> QED BY <1>10 DEF G

LEMMA SettledNext ==
  ASSUME Quiet, Settled, [Next]_vars
  PROVE  Settled'
<1>1. NoCrash /\ KeepOne /\ NoGlobalRefresh
  BY DEF Quiet, NoCrash
<1>2. TypeInv' /\ NoneGlobal' /\ FilesThere' /\ NoneLeft'
  BY <1>1, TypeNext, NoneGlobalNext, FilesThereNext, NoneLeftNext DEF Settled
<1> QED
  BY <1>2, HomesNext, OneEachNext, FreshLiveNext, FilesRegisteredNext,
     FilesKeptNext DEF Settled

LEMMA SettledInitial == Init => Settled
<1> SUFFICES ASSUME Init PROVE Settled
  OBVIOUS
<1> USE Numbers
<1>1. TypeInv
  BY TypeInitial
<1>2. \A s, t : t \in Token => ~ Bears(s, t) \/ s \notin Slugs
  BY DEF Init, Bears
<1>3. NoneGlobal /\ FilesThere /\ NoneLeft /\ FilesRegistered
  BY DEF Init, NoneGlobal, FilesThere, NoneLeft, FilesRegistered, OfActivation
<1>4. Known /\ OneHome
  BY <1>2 DEF Known, OneHome
<1>5. OneEach /\ FreshLive /\ FilesKept
  BY DEF Init, OneEach, FreshLive, FilesKept, Rotated
<1> QED BY <1>1, <1>3, <1>4, <1>5 DEF Settled

(* No rotation is lost that the proxy was told of, users may even share    *)
(* names: Quiet, and with nobody at work with its user's credentials, the  *)
(* refresh token in the file of a registered account is the last that the  *)
(* upstream handed out for it and the proxy received.  Unless an answer    *)
(* was lost on its way, the upstream accepts it.  Removals, switches,      *)
(* logins, failed switches and failed refreshes in between make no         *)
(* difference.                                                             *)
THEOREM NoRotationLost == Quiet => (Spec => []AccountsUsable)
<1> SUFFICES ASSUME Quiet PROVE Spec => []AccountsUsable
  OBVIOUS
<1> DEFINE I == Settled /\ FilesOwn
<1>0. Orderly
  BY DEF Quiet, Orderly, NoCrash
<1>1. Init => I
  BY SettledInitial DEF Init, FilesOwn
<1>2. I /\ [Next]_vars => I'
  <2> SUFFICES ASSUME I, [Next]_vars PROVE I'
    OBVIOUS
  <2>1. Settled'
    BY SettledNext
  <2>2. FilesOwn'
    BY <1>0, FilesOwnNext DEF Settled
  <2> QED BY <2>1, <2>2
<1>3. I => AccountsUsable
  <2> SUFFICES ASSUME I, NEW s \in Slugs, index[s] # NoUser, AtRest(index[s])
               PROVE  file[s] \in Good
    BY DEF AccountsUsable, Registered
  <2>1. file[s] # NoToken /\ file[s].user = index[s]
    BY DEF Settled, FilesThere, FilesOwn
  <2>2. ~ OnItsWay(s)
    BY <2>1 DEF OnItsWay, AtRest
  <2> QED BY <2>1, <2>2 DEF Settled, FilesKept
<1> HIDE DEF I
<1> QED BY <1>1, <1>2, <1>3, PTL DEF Spec

-----------------------------------------------------------------------------
(* Nor does the copy of the active account fall behind.                    *)

ActivationHome ==
  \/ Cascading
  \/ activation = NoToken
  \/ /\ activation.nr <= issued
     /\ \A s \in Slugs : Bears(s, activation) => s = current

ActivationLive ==
  \/ Cascading
  \/ activation = NoToken
  \/ activation \in Good
  \/ \E w \in Workers : /\ slug[w] = current /\ pc[w] \in Rotated
                        /\ held[w].user = activation.user

LEMMA OldTokensStay ==
  ASSUME Quiet, Settled, [Next]_vars, NEW r \in Slugs, NEW t \in Token,
         t.nr <= issued, Bears(r, t)'
  PROVE  Bears(r, t)
<1> USE Numbers
<1>0. /\ DiskOK /\ TypeInv /\ NoneGlobal /\ NoneLeft /\ NoCrash
      /\ issued \in Nat /\ t.nr \in Nat
  BY TypeInvParts DEF Settled, DiskOK, Quiet, NoCrash
<1>1. BearingOf(r, t) => Bears(r, t)
  BY <1>0, NothingToImport DEF BearingOf, Imports
<1>2. \A u \in Users : t # NewToken(u)
  BY <1>0 DEF NewToken
<1>3. \A p \in Token : t # Successor(p)
  BY <1>0 DEF Successor
<1> QED BY <1>0, <1>1, <1>2, <1>3, Bearing

LEMMA ActivationHomeNext ==
  ASSUME Quiet, Settled, ActivationHome, [Next]_vars
  PROVE  ActivationHome'
<1> USE Numbers
<1>0. /\ DiskOK /\ TypeInv /\ NoneGlobal /\ NoneLeft /\ FilesThere /\ Known
      /\ OneHome /\ NoCrash /\ issued \in Nat
  BY TypeInvParts DEF Settled, DiskOK, Quiet, NoCrash
<1>1. Known' /\ OneHome' /\ issued' \in Nat /\ activation' \in Stored
  BY HomesNext, <1>0, TypeNext DEF TypeInv, TypeOK
<1>2. issued' >= issued
  <2>1. \A u \in Users, s \in Slugs : Login(u, s) => issued' = issued + 1
    BY DEF Login
  <2>2. \A p \in Token : Rotate(p) => issued' = issued + 1
    BY DEF Rotate
  <2>4. issued' \in {issued, issued + 1}
    BY <1>0, <2>1, <2>2, Bearing
  <2> QED BY <1>0, <2>4
<1>3. CASE ~ Cascading /\ UNCHANGED <<activation, current>> /\ activation # NoToken
  <2>1. activation \in Token /\ activation.nr <= issued
        /\ \A s \in Slugs : Bears(s, activation) => s = current
    BY <1>0, <1>3 DEF ActivationHome, DiskOK, Stored
  <2>2. PICK t \in Token : t = activation
    BY <2>1
  <2>3. \A s \in Slugs : Bears(s, t)' => s = current
    BY <2>1, <2>2, OldTokensStay
  <2>4. t = activation'
    BY <1>3, <2>2
  <2>5. t.nr <= issued'
    BY <1>0, <1>1, <1>2, <2>1, <2>2
  <2> QED BY <1>3, <2>3, <2>4, <2>5 DEF ActivationHome, Bears
<1>4. CASE OfCurrent(activation')
  <2>1. PICK r \in Slugs, t \in Token : r = current' /\ t = activation'
    BY <1>4 DEF OfCurrent
  <2>2. t.nr <= issued' /\ \A s \in Slugs : Bears(s, t)' => s = r
    <3>1. CASE Bears(r, t)'
      BY <1>1, <3>1 DEF Known, OneHome
    <3>2. CASE Bears(r, t)
      <4>1. t.nr <= issued
        BY <1>0, <3>2 DEF Known
      <4>2. \A s \in Slugs : Bears(s, t)' => Bears(s, t)
        BY <4>1, OldTokensStay
      <4> QED BY <1>0, <1>1, <1>2, <3>2, <4>1, <4>2 DEF OneHome
    <3>3. WillBear(r, t) => Bears(r, t)'
      BY DEF WillBear, Bears
    <3> QED BY <1>4, <2>1, <3>1, <3>2, <3>3 DEF OfCurrent
  <2> QED BY <2>1, <2>2 DEF ActivationHome, Bears
<1>5. CASE activation' = NoToken \/ Cascading'
  BY <1>5 DEF ActivationHome
<1>6. ~ Importing
  BY <1>0, NothingToImport
<1> QED BY <1>0, <1>3, <1>4, <1>5, <1>6, ActivationMoves

LEMMA LiveFromFile ==
  ASSUME Settled, NEW s \in Slugs, file[s] \in Token,
         activation' = file[s], current' = s, UNCHANGED Good,
         \A v \in Workers : pc[v] \in {"persist", "retry"} =>
           pc'[v] = pc[v] /\ slug'[v] = slug[v] /\ held'[v] = held[v]
  PROVE  ActivationLive'
<1>1. file[s] \in Good \/ OnItsWay(s)
  BY Numbers DEF Settled, FilesKept
<1>2. CASE file[s] \in Good
  BY <1>2 DEF ActivationLive
<1>3. CASE OnItsWay(s)
  <2>1. PICK v \in Workers : slug[v] = s /\ pc[v] \in {"persist", "retry"}
                             /\ held[v] = file[s]
    BY <1>3 DEF OnItsWay
  <2>2. slug'[v] = current' /\ pc'[v] \in Rotated /\ held'[v] = activation'
    BY <2>1 DEF Rotated
  <2> QED BY <2>2 DEF ActivationLive
<1> QED BY <1>1, <1>2, <1>3

LEMMA LiveStays ==
  ASSUME ActivationLive, ~ Cascading, UNCHANGED <<activation, current>>,
         Good \subseteq Good',
         \A v \in Workers : pc[v] \in Rotated /\ slug[v] = current =>
           pc'[v] \in Rotated /\ slug'[v] = slug[v] /\ held'[v] = held[v]
  PROVE  ActivationLive'
BY DEF ActivationLive

LEMMA ActivationLiveNext ==
  ASSUME Quiet, Settled, ActivationHome, ActivationLive, [Next]_vars
  PROVE  ActivationLive'
<1> USE Numbers
<1>0. /\ DiskOK /\ HandsOK /\ TypeInv /\ NoneGlobal /\ NoneLeft /\ FilesThere
      /\ FreshLive /\ NoCrash /\ ~ Crash
      /\ OneHome /\ OneEach
      /\ \A w \in Workers : HandOK(w)
  BY TypeInvParts DEF Settled, HandsOK, Quiet, NoCrash, Crash, Fails
<1>r. pc = [w \in Workers |-> pc[w]] /\ fresh = [w \in Workers |-> fresh[w]]
      /\ held = [w \in Workers |-> held[w]] /\ slug = [w \in Workers |-> slug[w]]
  BY <1>0 DEF HandsOK
<1> SUFFICES ASSUME ~ Cascading' PROVE ActivationLive'
  BY DEF ActivationLive
<1>1. ASSUME NEW w \in Workers, NEW s \in Slugs, file[s] \in Token,
             pc[w] \in {"idle", "cascade"}, Prefetch(w, s),
             activation' = file[s], current' = s, UNCHANGED Good
      PROVE  ActivationLive'
  <2>1. \A v \in Workers : pc[v] \in {"persist", "retry"} =>
          pc'[v] = pc[v] /\ slug'[v] = slug[v] /\ held'[v] = held[v]
    BY <1>r, <1>1 DEF Prefetch, Stop, Begin, Goto
  <2> QED BY <1>1, <2>1, LiveFromFile DEF Settled
<1>2. ASSUME NEW w \in Workers, Cascade(w) PROVE ActivationLive'
  <2>1. CASE slug[w] # NoSlug /\ file[slug[w]] # NoToken /\ Switch(slug[w])
             /\ Switched(slug[w]) /\ Prefetch(w, slug[w])
    <3>0. slug[w] \in Slugs
      BY <1>0, <2>1 DEF HandOK
    <3>1. slug[w] \in Slugs /\ file[slug[w]] \in Token
      BY <1>0, <2>1, <3>0 DEF DiskOK, Stored
    <3>2. activation' = file[slug[w]] /\ current' = slug[w] /\ UNCHANGED Good
      BY <1>0, <1>2, <2>1 DEF Cascade, Switch, Switched, Fails, DiskOK,
         upstreamVars, Good
    <3> QED BY <1>1, <1>2, <2>1, <3>1, <3>2 DEF Cascade
  <2>2. CASE activation' = NoToken
    BY <2>2 DEF ActivationLive
  <2> QED BY <1>2, <2>1, <2>2 DEF Cascade
<1> SUFFICES ASSUME ~ Cascading PROVE ActivationLive'
  BY <1>0, <1>2, CascadesGoOn
<1>3. ASSUME NEW u \in Users, NEW s \in Slugs, Login(u, s)
      PROVE  ActivationLive'
  <2>1. "login" \notin Failing
    BY DEF Quiet
  <2> QED BY <1>3, <2>1 DEF Login, Fails, Good, ActivationLive
<1>4. ASSUME NEW w \in Workers, NEW s \in Slugs, ActivateAccount(w, s)
      PROVE  ActivationLive'
  <2>1. file[s] \in Token /\ pc[w] = "idle" /\ UNCHANGED Good
    BY <1>0, <1>4 DEF ActivateAccount, DiskOK, Stored, upstreamVars, Good
  <2>2. CASE Prefetch(w, s) /\ Switched(s) /\ Switch(s)
    <3>1. activation' = file[s] /\ current' = s
      BY <1>0, <2>2 DEF Switch, Switched, Fails, DiskOK
    <3> QED BY <1>1, <2>1, <2>2, <3>1
  <2>3. CASE UNCHANGED workerVars /\ Switch(s)
    <3>1. CASE activation' = file[s] /\ current' = s
      BY <2>1, <2>3, <3>1, LiveFromFile DEF workerVars
    <3>2. CASE activation' = activation /\ current' = current
      BY <2>1, <2>3, <3>2, LiveStays DEF workerVars
    <3>3. CASE activation' = Restored(current, file, file[s])
               /\ current' = current
      <4>1. CASE current = NoSlug
        BY <3>3, <4>1 DEF Restored, ActivationLive
      <4>2. CASE current # NoSlug
        <5>1. current \in Slugs /\ file[current] \in Token
          BY <1>0, <4>2 DEF FilesThere, DiskOK, Stored
        <5>2. activation' = file[current]
          BY <3>3, <4>2, <5>1 DEF Restored
        <5> QED BY <2>1, <2>3, <3>3, <5>1, <5>2, LiveFromFile DEF workerVars
      <4> QED BY <4>1, <4>2
    <3> QED BY <2>3, <3>1, <3>2, <3>3 DEF Switch
  <2> QED BY <1>4, <2>2, <2>3 DEF ActivateAccount
<1>5. ASSUME NEW w \in Workers, NEW s \in Slugs, RemoveAccount(w, s)
      PROVE  ActivationLive'
  <2>1. current # s
    BY <1>r, <1>5 DEF RemoveAccount, Begin, Goto, Cascading
  <2> QED BY <1>5, <2>1, LiveStays DEF RemoveAccount, workerVars, upstreamVars, Good
<1>6. ASSUME NEW w \in Workers, NEW s \in Slugs, NEW j, Load(w, s, j)
      PROVE  ActivationLive'
  <2>1. \A v \in Workers : pc[v] \in Rotated =>
          pc'[v] = pc[v] /\ slug'[v] = slug[v] /\ held'[v] = held[v]
    BY <1>r, <1>6 DEF Load, Begin, Goto, Rotated
  <2> QED BY <1>6, <2>1, LiveStays DEF Load, diskVars, upstreamVars, Good
<1>7. ASSUME NEW w \in Workers, RefreshFails(w) PROVE ActivationLive'
  <2>1. \A v \in Workers : pc[v] \in Rotated =>
          pc'[v] = pc[v] /\ slug'[v] = slug[v] /\ held'[v] = held[v]
    BY <1>r, <1>7 DEF RefreshFails, Stop, Rotated
  <2> QED BY <1>7, <2>1, FailsGood, LiveStays DEF RefreshFails, diskVars
<1>8. ASSUME NEW w \in Workers, RefreshAccount(w) PROVE ActivationLive'
  <2>1. /\ pc[w] = "refresh" /\ held[w] \in Token /\ slug[w] \in Slugs
        /\ (Good \ {held[w]}) \cup {Successor(held[w])} \subseteq Good'
        /\ pc' = [pc EXCEPT ![w] = "persist"]
        /\ UNCHANGED <<diskVars, held, slug>>
    BY <1>0, <1>8, RefreshAlone DEF Rotate, Good
  <2>2. CASE activation = held[w]
    <3>1. Bears(slug[w], activation)
      BY <2>2 DEF Bears
    <3>2. slug[w] = current
      BY <2>1, <2>2, <3>1 DEF ActivationHome
    <3>3. slug'[w] = current' /\ pc'[w] \in Rotated
          /\ held'[w].user = activation'.user
      BY <1>r, <2>1, <2>2, <3>2 DEF diskVars, Rotated
    <3> QED BY <3>3 DEF ActivationLive
  <2>3. CASE activation # held[w]
    <3>1. \A v \in Workers : pc[v] \in Rotated => pc'[v] = pc[v]
      BY <1>r, <2>1 DEF Rotated
    <3> QED BY <2>1, <2>3, <3>1 DEF ActivationLive, diskVars
  <2> QED BY <2>2, <2>3
<1>9. ASSUME NEW w \in Workers, Persist(w) PROVE ActivationLive'
  <2>1. \A v \in Workers : pc[v] \in Rotated => pc'[v] \in Rotated
    BY <1>r, <1>9 DEF Persist, Goto, Rotated
  <2> QED BY <1>9, <2>1, LiveStays DEF Persist, upstreamVars, Good
<1>10. ASSUME NEW w \in Workers, AskCurrent(w) PROVE ActivationLive'
  <2>1. UNCHANGED <<current, activation, Good>>
    BY <1>0, <1>10, NothingToImport DEF AskCurrent, upstreamVars, Good
  <2>2. \A v \in Workers : pc[v] \in Rotated /\ slug[v] = current =>
          pc'[v] \in Rotated /\ slug'[v] = slug[v] /\ held'[v] = held[v]
    BY <1>r, <1>10, <2>1 DEF AskCurrent, Conclude, Stop, Begin, Goto, Rotated
  <2> QED BY <2>1, <2>2, LiveStays
<1>11. ASSUME NEW w \in Workers, Align(w) PROVE ActivationLive'
  <2>1. fresh[w] \in Good /\ UNCHANGED <<current, Good>>
    BY <1>0, <1>11 DEF Align, FreshLive, Rotated, upstreamVars, Good
  <2>2. CASE current = slug[w]
    BY <1>11, <2>1, <2>2 DEF Align, SyncActivationCreds, ActivationLive
  <2>3. CASE current # slug[w]
    <3>1. \A v \in Workers : pc[v] \in Rotated /\ slug[v] = current =>
            pc'[v] \in Rotated /\ slug'[v] = slug[v] /\ held'[v] = held[v]
      BY <1>r, <1>11, <2>3 DEF Align, Conclude, Stop, Begin, Goto, Rotated
    <3>2. UNCHANGED activation
      BY <1>11, <2>3 DEF Align, SyncActivationCreds
    <3> QED BY <2>1, <3>1, <3>2, LiveStays
  <2> QED BY <2>2, <2>3
<1>12. ASSUME UNCHANGED vars PROVE ActivationLive'
  BY <1>12, LiveStays DEF vars, diskVars, upstreamVars, Good, workerVars
<1>13. ~ Look /\ \A w \in Workers : ~ Cascade(w) /\ ~ LoadActivation(w)
  BY <1>0, NothingToImport DEF Look, Cascade, Cascading, LoadActivation, Quiet, NoGlobalRefresh
<1>14. ASSUME NEW w \in Workers, Refresh(w) PROVE ActivationLive'
  <2>1. /\ ~ RefreshActivation(w) /\ ~ CheckActivation(w)
        /\ ~ WriteActivation(w) /\ ~ ReportRefreshed(w) /\ ~ RescueRotation(w)
    BY <1>0, NoGlobalSteps
  <2> QED BY <1>6, <1>7, <1>8, <1>9, <1>10, <1>11, <1>13, <1>14, <2>1
          DEF Refresh
<1> QED
  BY <1>0, <1>3, <1>4, <1>5, <1>12, <1>13, <1>14 DEF Next, Administer

(* Under the same conditions (Quiet) the copy in codely-creds.json does    *)
(* not fall behind: whenever nobody is at work with its user's credentials *)
(* and no removal is under way, its token is one the upstream accepts,     *)
(* unless the answer that replaced it was lost.                            *)
THEOREM ActivationStaysUsable == Quiet => (Spec => []ActivationUsable)
<1> SUFFICES ASSUME Quiet PROVE Spec => []ActivationUsable
  OBVIOUS
<1> DEFINE I == Settled /\ ActivationHome /\ ActivationLive
<1>1. Init => I
  BY SettledInitial DEF Init, ActivationHome, ActivationLive
<1>2. I /\ [Next]_vars => I'
  BY SettledNext, ActivationHomeNext, ActivationLiveNext
<1>3. I => ActivationUsable
  <2> SUFFICES ASSUME I, ActivationUsable = FALSE PROVE FALSE
    BY DEF ActivationUsable
  <2>1. /\ ~ Cascading /\ activation # NoToken /\ AtRest(activation.user)
        /\ activation \notin Good
    BY DEF ActivationUsable, Cascading
  <2>2. PICK w \in Workers : pc[w] \in Rotated
                             /\ held[w].user = activation.user
    BY <2>1 DEF ActivationLive
  <2>3. held[w] # NoToken
    BY <2>2, TypeInvParts, Numbers DEF Settled, HandsOK, HandOK, WorkerOK,
       Rotated
  <2> QED BY <2>1, <2>2, <2>3 DEF AtRest
<1> HIDE DEF I
<1> QED BY <1>1, <1>2, <1>3, PTL DEF Spec
=============================================================================
