--------------------------- MODULE RedisLockProofs ---------------------------
(***************************************************************************)
(* What RedisLock guarantees for any number of requests, processes and     *)
(* ticket types.  The step lemmas are stated for [LockNext]_lockVars so    *)
(* that a specification whose steps are lock steps can use them too.       *)
(***************************************************************************)
EXTENDS RedisLock, TLAPS

(***************************************************************************)
(* The strengthening.  LockKeys ties a key in Redis, and a value in        *)
(* lockValues, to the request that drew it.  Reliance says that until some *)
(* key has expired too early, every request that was granted the lock      *)
(* still has its value in Redis: mutual exclusion follows.                 *)
(***************************************************************************)
LockKeys ==
    /\ \A t \in TicketType :
          redis[t] # NoRequest =>
              redis[t] \in Request /\ TicketOf[redis[t]] = t /\ phase[redis[t]] # "idle"
    /\ \A p \in Process, t \in TicketType :
          lockValues[p][t] # NoRequest =>
              /\ lockValues[p][t] \in Request
              /\ HomeOf[lockValues[p][t]] = p
              /\ TicketOf[lockValues[p][t]] = t

Reliance ==
    lapsed = {} =>
        \A r \in Request : phase[r] \in {"granted", "held"} => redis[TicketOf[r]] = r

LockInv == LockTypeOK /\ LockKeys /\ Reliance

LEMMA LockInitInv == LockInit => LockInv
BY HomeOfAssumption, TicketOfAssumption
DEF LockInit, LockInv, LockTypeOK, LockKeys, Reliance, Phase, Waiting

LEMMA SendType ==
    ASSUME LockTypeOK, NEW r \in Request, NEW awaited \in Waiting, Send(r, awaited)
    PROVE  phase' \in [Request -> Phase] /\ ahead' \in [Request -> SUBSET Request]
BY DEF LockTypeOK, Send, Phase

(***************************************************************************)
(* Every step of the lock preserves LockInv.                               *)
(***************************************************************************)
LEMMA LockStepInv == LockInv /\ [LockNext]_lockVars => LockInv'
<1> SUFFICES ASSUME LockInv, [LockNext]_lockVars PROVE LockInv'
  OBVIOUS
<1> USE HomeOfAssumption, TicketOfAssumption, NoRequestAssumption
    DEF LockInv, LockTypeOK, LockKeys, Reliance, Phase, Waiting
<1>1. ASSUME NEW r \in Request, SetNX(r) PROVE LockInv'
  <2>1. LockTypeOK'
    <3>1. phase' \in [Request -> Phase] /\ ahead' \in [Request -> SUBSET Request]
      BY <1>1, SendType DEF SetNX
    <3>2. redis' \in [TicketType -> Request \cup {NoRequest}]
      BY <1>1 DEF SetNX
    <3> QED
      BY <1>1, <3>1, <3>2 DEF SetNX
  <2>2. LockKeys'
    BY <1>1 DEF SetNX, Send
  <2>3. Reliance'
    BY <1>1 DEF SetNX, Send
  <2> QED
    BY <2>1, <2>2, <2>3
<1>2. ASSUME NEW r \in Request, Acquired(r) PROVE LockInv'
  BY <1>2 DEF Acquired, Receive
<1>3. ASSUME NEW r \in Request, NotAcquired(r) PROVE LockInv'
  BY <1>3 DEF NotAcquired, Receive
<1>4. ASSUME NEW r \in Request, Release(r) PROVE LockInv'
  <2>1. LockTypeOK'
    <3>1. phase' \in [Request -> Phase] /\ ahead' \in [Request -> SUBSET Request]
      BY <1>4, SendType DEF Release
    <3>2. redis' \in [TicketType -> Request \cup {NoRequest}]
      BY <1>4 DEF Release
    <3> QED
      BY <1>4, <3>1, <3>2 DEF Release
  <2>2. LockKeys'
    BY <1>4 DEF Release, Send
  <2>3. Reliance'
    BY <1>4 DEF Release, Send
  <2> QED
    BY <2>1, <2>2, <2>3
<1>5. ASSUME NEW r \in Request, Released(r) PROVE LockInv'
  BY <1>5 DEF Released, Receive
<1>6. ASSUME NEW t \in TicketType, Expire(t) PROVE LockInv'
  <2>1. LockTypeOK' /\ LockKeys'
    BY <1>6 DEF Expire
  <2>2. Reliance'
    BY <1>6 DEF Expire
  <2> QED
    BY <2>1, <2>2
<1>7. ASSUME NEW p \in Process, LockCrash(p) PROVE LockInv'
  BY <1>7 DEF LockCrash
<1>8. CASE UNCHANGED lockVars
  BY <1>8 DEF lockVars
<1> QED
  BY <1>1, <1>2, <1>3, <1>4, <1>5, <1>6, <1>7, <1>8 DEF LockNext, LockStep

THEOREM LockInvariance == LockSpec => []LockInv
BY LockInitInv, LockStepInv, PTL DEF LockSpec

(***************************************************************************)
(* The variables keep their types.                                         *)
(***************************************************************************)
THEOREM LockTypeCorrect == LockSpec => []LockTypeOK
BY LockInvariance, PTL DEF LockInv

LEMMA LockInvExclusion == LockInv => ExclusionUntilLapse
BY TicketOfAssumption DEF LockInv, Reliance, ExclusionUntilLapse

(***************************************************************************)
(* CreateOrderUseCase's critical section is exclusive per ticket type for  *)
(* as long as no key expires under the request that holds it, even when    *)
(* requests share a process and its lockValues, with any Redis errors and  *)
(* any crashes.                                                            *)
(***************************************************************************)
THEOREM ExclusionHolds == LockSpec => []ExclusionUntilLapse
BY LockInvariance, LockInvExclusion, PTL

(***************************************************************************)
(* The values a process remembers are those of its own requests: a key in  *)
(* use is deleted by a release of its own process or not at all, and only  *)
(* after mutual exclusion was lost to an expiry.                           *)
(***************************************************************************)
LosesKey(r) ==
    /\ phase[r] = "held" /\ phase'[r] = "held"
    /\ redis[TicketOf[r]] = r /\ redis'[TicketOf[r]] # r
    /\ r \notin lapsed'

ToNeighbour(r) ==
    /\ lapsed # {}
    /\ \E s \in Request \ {r} :
          /\ SameEntry(r, s)
          /\ phase[s] = "held" /\ phase'[s] # "held"

LEMMA LosesKeyStep ==
    ASSUME LockInv, [LockNext]_lockVars, NEW r \in Request, LosesKey(r)
    PROVE  ToNeighbour(r)
<1> USE HomeOfAssumption, TicketOfAssumption, NoRequestAssumption
    DEF LockInv, LockTypeOK, Phase, Waiting, LosesKey
<1>1. ASSUME NEW s \in Request, SetNX(s) PROVE FALSE
  BY <1>1 DEF SetNX
<1>2. ASSUME NEW s \in Request, Acquired(s) \/ NotAcquired(s) \/ Released(s) PROVE FALSE
  BY <1>2 DEF Acquired, NotAcquired, Released
<1>3. ASSUME NEW s \in Request, Release(s) PROVE ToNeighbour(r)
  <2>1. s # r /\ phase[s] = "held" /\ phase'[s] # "held"
    BY <1>3 DEF Release, Send
  <2>2. TicketOf[s] = TicketOf[r] /\ lockValues[HomeOf[s]][TicketOf[s]] = r
    BY <1>3, <2>1 DEF Release, Send
  <2>3. SameEntry(r, s)
    BY <2>2 DEF LockKeys, SameEntry
  <2>4. lapsed # {}
    BY <2>1, <2>2 DEF Reliance
  <2> QED
    BY <2>1, <2>2, <2>3, <2>4 DEF ToNeighbour
<1>4. ASSUME NEW t \in TicketType, Expire(t) PROVE FALSE
  BY <1>4 DEF Expire
<1>5. ASSUME NEW p \in Process, LockCrash(p) PROVE FALSE
  BY <1>5 DEF LockCrash
<1>6. CASE UNCHANGED lockVars
  BY <1>6 DEF lockVars
<1> QED
  BY <1>1, <1>2, <1>3, <1>4, <1>5, <1>6 DEF LockNext, LockStep

THEOREM ReleaseWithinProcessHolds == LockSpec => ReleaseWithinProcess
<1>1. LockInv /\ [LockNext]_lockVars => \A r \in Request : LosesKey(r) => ToNeighbour(r)
  BY LosesKeyStep
<1> QED
  BY <1>1, LockInvariance, PTL DEF LockSpec, ReleaseWithinProcess, LosesKey, ToNeighbour

(***************************************************************************)
(* With one request per process, release is safe as README.md says.        *)
(***************************************************************************)
THEOREM SafeReleaseWhenSeparate ==
    ASSUME \A r, s \in Request : HomeOf[r] = HomeOf[s] => r = s
    PROVE  LockSpec => SafeRelease
<1> DEFINE Kept(r) ==
      (phase[r] = "held" /\ phase'[r] = "held" /\ redis[TicketOf[r]] = r)
          => (redis'[TicketOf[r]] = r \/ r \in lapsed')
<1>1. LockInv /\ [LockNext]_lockVars => \A r \in Request : Kept(r)
  BY LosesKeyStep DEF LosesKey, ToNeighbour, SameEntry
<1> QED
  BY <1>1, LockInvariance, PTL DEF LockSpec, SafeRelease, Kept

(***************************************************************************)
(* Why a release finds its own value although lockValues is shared.  A     *)
(* request that is granted the key after another one's script ran learns   *)
(* of it after that script's reply, since replies keep their order: the    *)
(* deletion from the map that comes with the reply cannot hit the value of *)
(* the new holder.  It takes that no key of the entry expired too early,   *)
(* and holds under every fault.                                            *)
(***************************************************************************)
Intact(r) == \A s \in lapsed : ~SameEntry(r, s)

AfterReplies(r) ==
    \A s \in Request :
        SameEntry(r, s) /\ phase[s] \in {"evaluated", "evalFailed"} =>
            (phase[r] = "granted" => s \in ahead[r]) /\ phase[r] # "held"

EntryFits(r) ==
    Intact(r) =>
        /\ phase[r] \in {"granted", "held"} => redis[TicketOf[r]] = r
        /\ phase[r] = "held" => lockValues[HomeOf[r]][TicketOf[r]] = r
        /\ phase[r] \in {"denied", "evaluated"} => redis[TicketOf[r]] # r
        /\ AfterReplies(r)

Entries == \A r \in Request : EntryFits(r)

LEMMA IntactBefore ==
    ASSUME NEW r \in Request, lapsed \subseteq lapsed', Intact(r)'
    PROVE  Intact(r)
BY DEF Intact, SameEntry

LEMMA LapsedGrows ==
    ASSUME [LockNext]_lockVars
    PROVE  lapsed \subseteq lapsed'
BY DEF LockNext, LockStep, SetNX, Acquired, NotAcquired, Release, Released, Expire, LockCrash,
       lockVars

LEMMA EntriesStep == LockInv /\ Entries /\ [LockNext]_lockVars => Entries'
<1> SUFFICES ASSUME LockInv, Entries, [LockNext]_lockVars, NEW r \in Request, Intact(r)'
             PROVE  EntryFits(r)'
  BY DEF Entries, EntryFits
<1>0. \A s \in Request : SameEntry(r, s) => Intact(s) /\ EntryFits(s)
  BY LapsedGrows, IntactBefore DEF Entries, Intact, SameEntry
<1> USE HomeOfAssumption, TicketOfAssumption, NoRequestAssumption
    DEF LockInv, LockTypeOK, LockKeys, Phase, Waiting, EntryFits, AfterReplies, SameEntry
<1>1. ASSUME NEW s \in Request, SetNX(s) PROVE EntryFits(r)'
  BY <1>0, <1>1 DEF SetNX, Send
<1>2. ASSUME NEW s \in Request, Acquired(s) PROVE EntryFits(r)'
  BY <1>0, <1>2 DEF Acquired, Receive
<1>3. ASSUME NEW s \in Request, NotAcquired(s) PROVE EntryFits(r)'
  BY <1>0, <1>3 DEF NotAcquired, Receive
<1>4. ASSUME NEW s \in Request, Release(s) PROVE EntryFits(r)'
  BY <1>0, <1>4 DEF Release, Send
<1>5. ASSUME NEW s \in Request, Released(s) PROVE EntryFits(r)'
  BY <1>0, <1>5 DEF Released, Receive
<1>6. ASSUME NEW t \in TicketType, Expire(t) PROVE EntryFits(r)'
  BY <1>0, <1>6 DEF Expire, Intact
<1>7. ASSUME NEW p \in Process, LockCrash(p) PROVE EntryFits(r)'
  BY <1>0, <1>7 DEF LockCrash
<1>8. CASE UNCHANGED lockVars
  BY <1>0, <1>8 DEF lockVars
<1> QED
  BY <1>1, <1>2, <1>3, <1>4, <1>5, <1>6, <1>7, <1>8 DEF LockNext, LockStep

LEMMA EntriesInvariance == LockSpec => [](LockInv /\ Entries)
<1>1. LockInit => Entries
  BY DEF LockInit, Entries, EntryFits, AfterReplies
<1> QED
  BY <1>1, EntriesStep, LockInvariance, PTL DEF LockSpec

(***************************************************************************)
(* Without failures no request leaves the lock but by a reply that fits.   *)
(***************************************************************************)
Undisturbed ==
    Faults = {} /\ lapsed = {} =>
        \A r \in Request :
            /\ phase[r] \notin {"setFailed", "evalFailed"}
            /\ phase[r] = "out" => redis[TicketOf[r]] # r

LEMMA UndisturbedStep ==
    LockInv /\ Entries /\ Undisturbed /\ [LockNext]_lockVars => Undisturbed'
<1> SUFFICES ASSUME LockInv, Entries, Undisturbed, [LockNext]_lockVars,
                    Faults = {}, lapsed' = {}, NEW r \in Request
             PROVE  /\ phase'[r] \notin {"setFailed", "evalFailed"}
                    /\ phase'[r] = "out" => redis'[TicketOf[r]] # r
  BY DEF Undisturbed
<1>0. /\ lapsed = {} /\ EntryFits(r) /\ Intact(r)
      /\ phase[r] \notin {"setFailed", "evalFailed"}
      /\ phase[r] = "out" => redis[TicketOf[r]] # r
  BY LapsedGrows DEF Entries, Undisturbed, Intact
<1> USE HomeOfAssumption, TicketOfAssumption, NoRequestAssumption
    DEF LockInv, LockTypeOK, Phase, Waiting, EntryFits, RedisFault
<1>1. ASSUME NEW s \in Request, SetNX(s)
      PROVE  /\ phase'[r] \notin {"setFailed", "evalFailed"}
             /\ phase'[r] = "out" => redis'[TicketOf[r]] # r
  BY <1>0, <1>1 DEF SetNX, Send
<1>2. ASSUME NEW s \in Request, Acquired(s) \/ NotAcquired(s) \/ Released(s)
      PROVE  /\ phase'[r] \notin {"setFailed", "evalFailed"}
             /\ phase'[r] = "out" => redis'[TicketOf[r]] # r
  BY <1>0, <1>2 DEF Acquired, NotAcquired, Released, Receive
<1>3. ASSUME NEW s \in Request, Release(s)
      PROVE  /\ phase'[r] \notin {"setFailed", "evalFailed"}
             /\ phase'[r] = "out" => redis'[TicketOf[r]] # r
  BY <1>0, <1>3 DEF Release, Send
<1>4. ASSUME NEW t \in TicketType, Expire(t)
      PROVE  /\ phase'[r] \notin {"setFailed", "evalFailed"}
             /\ phase'[r] = "out" => redis'[TicketOf[r]] # r
  BY <1>0, <1>4 DEF Expire
<1>5. CASE UNCHANGED lockVars
  BY <1>0, <1>5 DEF lockVars
<1> QED
  BY <1>1, <1>2, <1>3, <1>4, <1>5 DEF LockNext, LockStep

(***************************************************************************)
(* Without failures and premature expiry, every request that is done with  *)
(* the lock has freed its key, sharing lockValues notwithstanding.         *)
(***************************************************************************)
THEOREM NothingLeftHolds == LockSpec => []NothingLeftBehind
<1>1. LockInit => Undisturbed
  BY DEF LockInit, Undisturbed
<1>2. Undisturbed => NothingLeftBehind
  BY DEF Undisturbed, NothingLeftBehind
<1> QED
  BY <1>1, <1>2, UndisturbedStep, EntriesInvariance, PTL DEF LockSpec
=============================================================================
