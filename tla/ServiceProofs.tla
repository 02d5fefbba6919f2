---------------------------- MODULE ServiceProofs ----------------------------
(***************************************************************************)
(* Proofs about the services that MCServices puts together: the setup of   *)
(* the first administrator, sessions, the rate limiter, a run of the agent *)
(* and the turns of a chat session, for any number of concurrent requests  *)
(* and every value of their limits.                                        *)
(***************************************************************************)
EXTENDS SetupBootstrap, Sessions, RateLimiter, AgentTurn, ChatTurns, LoopLemmas,
        FiniteSetTheorems, TLAPS

-----------------------------------------------------------------------------
(* SetupBootstrap: one administrator, as long as nothing fails.            *)

\* No call has been turned down by validation or by the store.
Clean == \A c \in Calls : call[c] \notin {"invalid", "failed"}

\* Then runs come one after the other: the call in flight is the only one
\* between the gate and its closing, the gate is open to it until it marks the
\* setup as done, and whoever waited for it finds the gate closed.
Serial ==
    /\ \A c \in Calls : call[c] \in InRun => inflight = c
    /\ \A c \in Calls : call[c] = "wait" => awaits[c] \in Calls
    /\ \A c \in Calls : call[c] \in {"recheck", "session", "ok", "conflict"} => bootstrapped
    /\ \A c \in Calls : call[c] \in {"org", "neworg", "user", "member", "mark"} => ~bootstrapped
    /\ \A c \in admins : call[c] \in {"member", "mark", "session", "ok"}
    /\ \A c, d \in admins : c = d

SetupInv == SetupTypeOK /\ (Clean => Serial)

\* Before the first call everything has its type.
LEMMA SetupTypeInit == SetupInit => SetupTypeOK
<1> SUFFICES ASSUME SetupInit PROVE SetupTypeOK
    BY Zenon
<1>1. setupFaults \in 0..MaxSetupFaults
    BY SetupAssumption DEF SetupInit
<1> QED
    BY Zenon, <1>1 DEF SetupInit, SetupTypeOK

\* Every step of a call keeps the types.
LEMMA SetupTypeStep == SetupTypeOK /\ [SetupNext]_setupVars => SetupTypeOK'
<1> SUFFICES ASSUME SetupTypeOK, [SetupNext]_setupVars PROVE SetupTypeOK'
    BY Zenon
<1> USE DEF SetupTypeOK, InRun, Settled
<1>1. ASSUME NEW c \in Calls, Call(c) PROVE SetupTypeOK'
    BY Zenon, <1>1 DEF Call, Rows
<1>2. ASSUME NEW c \in Calls, SetupFails(c) PROVE SetupTypeOK'
    BY <1>2, SetupAssumption DEF SetupFails, Goes, Rows
<1>3. ASSUME NEW c \in Calls, Woken(c) \/ Recheck(c) \/ Gate(c) \/ FindOrg(c) PROVE SetupTypeOK'
    BY Zenon, <1>3 DEF Woken, Recheck, Gate, FindOrg, Goes, Rows
<1>4. ASSUME NEW c \in Calls, CreateOrg(c) \/ CreateUser(c) PROVE SetupTypeOK'
    BY Zenon, <1>4 DEF CreateOrg, CreateUser, Goes, Rows
<1>5. ASSUME NEW c \in Calls, CreateMember(c) PROVE SetupTypeOK'
    BY Zenon, <1>5 DEF CreateMember, Goes, Rows
<1>6. ASSUME NEW c \in Calls, MarkBootstrapped(c) \/ IssueSession(c) PROVE SetupTypeOK'
    BY Zenon, <1>6 DEF MarkBootstrapped, IssueSession, Goes, Rows
<1>7. ASSUME UNCHANGED setupVars PROVE SetupTypeOK'
    BY Zenon, <1>7 DEF setupVars
<1> QED
    BY Zenon, <1>1, <1>2, <1>3, <1>4, <1>5, <1>6, <1>7 DEF SetupNext, SetupStep

\* A step that leads to no failure keeps the runs serial.
LEMMA SerialStep ==
    ASSUME SetupTypeOK, Clean => Serial, [SetupNext]_setupVars, Clean' PROVE Serial'
<1> USE DEF SetupTypeOK, InRun, Settled
<1>0. Clean
  <2> SUFFICES ASSUME NEW d \in Calls, call[d] \in {"invalid", "failed"} PROVE FALSE
    BY Zenon DEF Clean
  <2>1. ASSUME NEW c \in Calls, Call(c) PROVE call'[d] = call[d]
    BY Zenon, <2>1 DEF Call
  <2>2. ASSUME NEW c \in Calls, SetupFails(c) PROVE call'[d] = call[d]
    BY Zenon, <2>2 DEF SetupFails, Goes
  <2>3. ASSUME NEW c \in Calls, SetupStep(c) PROVE call'[d] = call[d]
    BY Zenon, <2>3 DEF SetupStep, Woken, Recheck, Gate, FindOrg, CreateOrg, CreateUser, CreateMember,
                MarkBootstrapped, IssueSession, Goes
  <2>4. call'[d] = call[d]
    BY Zenon, <2>1, <2>2, <2>3 DEF SetupNext, setupVars
  <2> QED
    BY Zenon, <2>4 DEF Clean
<1>a. Serial
    BY Zenon, <1>0
<1>1. ASSUME NEW c \in Calls, Call(c) PROVE Serial'
    BY <1>1, <1>a, SetupAssumption DEF Call, Rows, Serial
<1>2. ASSUME NEW c \in Calls, SetupFails(c) PROVE FALSE
    BY Zenon, <1>2 DEF SetupFails, Goes, Clean
<1>3. ASSUME NEW c \in Calls, Woken(c) PROVE Serial'
  <2>1. awaits[c] \in Calls /\ call[awaits[c]] \in {"ok", "conflict"}
    BY Zenon, <1>3, <1>0, <1>a DEF Woken, Serial, Clean
  <2>2. bootstrapped
    BY Zenon, <2>1, <1>a DEF Serial
  <2> QED
    BY Zenon, <1>3, <1>a, <2>2 DEF Woken, Goes, Rows, Serial
<1>4. ASSUME NEW c \in Calls, Recheck(c) PROVE Serial'
  <2>1. bootstrapped
    BY Zenon, <1>4, <1>a DEF Recheck, Serial
  <2> QED
    BY <1>4, <1>a, <2>1 DEF Recheck, Goes, Rows, Serial
<1>5. ASSUME NEW c \in Calls, Gate(c) PROVE Serial'
  <2>1. \/ Goes(c, "conflict") /\ bootstrapped
        \/ Goes(c, "org") /\ ~bootstrapped
    BY Zenon, <1>5 DEF Gate, Goes, Clean
  <2> QED
    BY <1>5, <1>a, <2>1 DEF Gate, Goes, Rows, Serial
<1>6. ASSUME NEW c \in Calls, FindOrg(c) PROVE Serial'
    BY <1>6, <1>a DEF FindOrg, Goes, Rows, Serial
<1>7. ASSUME NEW c \in Calls, CreateOrg(c) PROVE Serial'
    BY <1>7, <1>a DEF CreateOrg, Goes, Serial, Clean
<1>8. ASSUME NEW c \in Calls, CreateUser(c) PROVE Serial'
  <2>1. ASSUME NEW d \in admins PROVE FALSE
    BY Zenon, <2>1, <1>8, <1>a DEF CreateUser, Serial
  <2>2. call' = [call EXCEPT ![c] = "member"] /\ admins' = {c}
    BY Zenon, <2>1, <1>8 DEF CreateUser, Goes
  <2> QED
    BY <1>8, <1>a, <2>2 DEF CreateUser, Goes, Serial
<1>9. ASSUME NEW c \in Calls, CreateMember(c) PROVE Serial'
    BY <1>9, <1>a DEF CreateMember, Goes, Serial
<1>10. ASSUME NEW c \in Calls, MarkBootstrapped(c) PROVE Serial'
    BY <1>10, <1>a DEF MarkBootstrapped, Goes, Serial
<1>11. ASSUME NEW c \in Calls, IssueSession(c) PROVE Serial'
    BY Zenon, <1>11, <1>a DEF IssueSession, Goes, Rows, Serial
<1>12. ASSUME UNCHANGED setupVars PROVE Serial'
    BY Zenon, <1>12, <1>a DEF setupVars, Serial
<1> QED
    BY <1>1, <1>2, <1>3, <1>4, <1>5, <1>6, <1>7, <1>8, <1>9, <1>10, <1>11, <1>12
    DEF SetupNext, SetupStep

\* A set whose members are all equal has at most one.
LEMMA AtMostOneMember ==
    ASSUME NEW S, \A c, d \in S : c = d
    PROVE  IsFiniteSet(S) /\ Cardinality(S) <= 1
<1>1. CASE S = {}
    BY <1>1, FS_EmptySet
<1>2. CASE S # {}
  <2>1. PICK c \in S : S = {c}
    BY Zenon, <1>2
  <2>2. IsFiniteSet({c}) /\ Cardinality({c}) = 1
    BY Zenon, FS_Singleton
  <2> QED
    BY <2>1, <2>2
<1> QED
    BY Zenon, <1>1, <1>2

\* However many requests for the first administrator come together, at most one
\* creates it unless another was turned down before: the promise in flight and
\* the gate make the runs one sequence (createFirstAdmin).
THEOREM OneAdministrator == SetupSpec => []SecondAdminNeedsFailure
<1>1. SetupInit => SetupInv
  <2>1. SetupInit => Serial
    BY Zenon DEF SetupInit, Serial, InRun
  <2> QED
    BY Zenon, <2>1, SetupTypeInit DEF SetupInv
<1>2. SetupInv /\ [SetupNext]_setupVars => SetupInv'
    BY Zenon, SetupTypeStep, SerialStep DEF SetupInv
<1>3. SetupInv => SecondAdminNeedsFailure
  <2> SUFFICES ASSUME SetupInv, Clean PROVE ~(Cardinality(admins) > 1)
    BY Zenon DEF SecondAdminNeedsFailure, Clean
  <2>1. IsFiniteSet(admins) /\ Cardinality(admins) <= 1
    BY Zenon, AtMostOneMember DEF SetupInv, Serial
  <2>2. Cardinality(admins) \in Nat
    BY Zenon, <2>1, FS_CardinalityType
  <2> QED
    BY <2>1, <2>2
<1> QED
    BY <1>1, <1>2, <1>3, PTL DEF SetupSpec

\* A run about to mark the setup as done has made its administrator a member,
\* and so had the one that did.
GateInv ==
    /\ SetupTypeOK
    /\ \A c \in Calls : call[c] = "mark" => c \in members
    /\ GateHasAdmin

\* The gate never closes on an organisation without an administrator: the row
\* that makes the user a member is written before the gate is closed.
THEOREM NobodyLockedOut == SetupSpec => []GateHasAdmin
<1>1. SetupInit => GateInv
    BY Zenon, SetupTypeInit DEF SetupInit, GateInv, GateHasAdmin
<1>2. GateInv /\ [SetupNext]_setupVars => GateInv'
  <2> SUFFICES ASSUME GateInv, [SetupNext]_setupVars PROVE GateInv'
    BY Zenon
  <2>0. SetupTypeOK /\ SetupTypeOK'
    BY Zenon, SetupTypeStep DEF GateInv
  <2> USE DEF SetupTypeOK, GateInv, GateHasAdmin
  <2>1. ASSUME NEW c \in Calls, CreateMember(c) \/ MarkBootstrapped(c) PROVE GateInv'
    BY <2>0, <2>1 DEF CreateMember, MarkBootstrapped, Goes
  <2>2. ASSUME NEW c \in Calls, Call(c) \/ Woken(c) \/ Recheck(c) \/ Gate(c) \/ FindOrg(c)
        PROVE GateInv'
    BY <2>0, <2>2 DEF Call, Woken, Recheck, Gate, FindOrg, Goes, Rows
  <2>3. ASSUME NEW c \in Calls, CreateOrg(c) \/ CreateUser(c) \/ IssueSession(c) \/ SetupFails(c)
        PROVE GateInv'
    BY <2>0, <2>3 DEF CreateOrg, CreateUser, IssueSession, SetupFails, Goes, Rows
  <2>4. ASSUME UNCHANGED setupVars PROVE GateInv'
    BY Zenon, <2>0, <2>4 DEF setupVars
  <2> QED
    BY Zenon, <2>1, <2>2, <2>3, <2>4 DEF SetupNext, SetupStep
<1>3. GateInv => GateHasAdmin
    BY Zenon DEF GateInv
<1> QED
    BY <1>1, <1>2, <1>3, PTL DEF SetupSpec

-----------------------------------------------------------------------------
(* Sessions: a session that is over stays over.                            *)

\* The session is refused to a request that read this updated_at.
Expired(t) == sessionNow > MaxLifetime \/ sessionNow - t > IdleTimeout

\* A request that met no other one is the only one under way and has read the
\* updated_at the row still has.  When the session is over its row is gone or
\* too old, and the requests under way will be refused.
SessionInv ==
    /\ SessionTypeOK
    /\ \A b \in alone :
          /\ \A d \in Browsers : d # b => visit[d] = "none"
          /\ visit[b] = "found" => seenRow[b] = touched \/ token # "live"
    /\ over => token # "live" \/ Expired(touched)
    /\ over => \A b \in Browsers : \/ visit[b] = "none"
                                   \/ visit[b] = "found" /\ Expired(seenRow[b])

\* The types are kept by every request, revocation, pruning and tick.
LEMMA SessionTypeStep == SessionTypeOK /\ [SessionNext]_sessionVars => SessionTypeOK'
<1> SUFFICES ASSUME SessionTypeOK, [SessionNext]_sessionVars PROVE SessionTypeOK'
    OBVIOUS
<1> USE SessionAssumption DEF SessionTypeOK
<1>1. ASSUME SessionTick PROVE SessionTypeOK'
    BY <1>1 DEF SessionTick
<1>2. ASSUME Revoke \/ PruneExpired PROVE SessionTypeOK'
  <2>1. over' \in BOOLEAN
    BY Zenon, <1>2 DEF Revoke, PruneExpired
  <2> QED
    BY <1>2, <2>1 DEF Revoke, PruneExpired
<1>3. ASSUME NEW b \in Browsers, FindToken(b) PROVE SessionTypeOK'
  <2>1. CASE token = "live"
    <3>1. alone' \subseteq Browsers
        BY Zenon, <1>3, <2>1 DEF FindToken
    <3> QED
        BY Zenon, <1>3, <2>1, <3>1 DEF FindToken
  <2>2. CASE token # "live"
    <3>1. over' \in BOOLEAN
        BY Zenon, <1>3, <2>2 DEF FindToken
    <3> QED
        BY Zenon, <1>3, <2>2, <3>1 DEF FindToken
  <2> QED
    BY Zenon, <2>1, <2>2
<1>4. ASSUME NEW b \in Browsers, LookupByToken(b) PROVE SessionTypeOK'
  <2>1. over' \in BOOLEAN
    BY Zenon, <1>4 DEF LookupByToken
  <2> QED
    BY <1>4, <2>1 DEF LookupByToken
<1>5. ASSUME NEW b \in Browsers, Admit(b) PROVE SessionTypeOK'
    BY Zenon, <1>5 DEF Admit
<1>6. ASSUME NEW b \in Browsers, MarkSeen(b) PROVE SessionTypeOK'
  <2>1. touched' \in 0..sessionNow' /\ sessionNow' = sessionNow
    BY <1>6 DEF MarkSeen
  <2> QED
    BY Zenon, <1>6, <2>1 DEF MarkSeen
<1>7. ASSUME UNCHANGED sessionVars PROVE SessionTypeOK'
    BY Zenon, <1>7 DEF sessionVars
<1> QED
    BY <1>1, <1>2, <1>3, <1>4, <1>5, <1>6, <1>7 DEF SessionNext

\* Nothing a request, a revocation or the clock does revives the session.
LEMMA SessionStep == SessionInv /\ [SessionNext]_sessionVars => SessionInv'
<1> SUFFICES ASSUME SessionInv, [SessionNext]_sessionVars PROVE SessionInv'
    OBVIOUS
<1>0. SessionTypeOK /\ SessionTypeOK'
    BY Zenon, SessionTypeStep DEF SessionInv
<1> USE SessionAssumption, <1>0 DEF SessionTypeOK, SessionInv, Expired
<1>1. ASSUME SessionTick PROVE SessionInv'
    BY <1>1 DEF SessionTick
<1>2. ASSUME Revoke PROVE SessionInv'
    BY Zenon, <1>2 DEF Revoke, Quiet
<1>3. ASSUME PruneExpired PROVE SessionInv'
    BY Zenon, <1>3 DEF PruneExpired
<1>4. ASSUME NEW b \in Browsers, FindToken(b) PROVE SessionInv'
    BY <1>4 DEF FindToken, Quiet
<1>5. ASSUME NEW b \in Browsers, LookupByToken(b) PROVE SessionInv'
    BY <1>5 DEF LookupByToken
<1>6. ASSUME NEW b \in Browsers, Admit(b) PROVE SessionInv'
    BY <1>6 DEF Admit
<1>7. ASSUME NEW b \in Browsers, MarkSeen(b) PROVE SessionInv'
    BY ZenonT(40), <1>7 DEF MarkSeen
<1>8. ASSUME UNCHANGED sessionVars PROVE SessionInv'
    BY Zenon, <1>8 DEF sessionVars
<1> QED
    BY Zenon, <1>1, <1>2, <1>3, <1>4, <1>5, <1>6, <1>7, <1>8 DEF SessionNext

\* A session that was refused to a lone request, or revoked while none was
\* under way, admits nobody any more: the markSeen nobody awaits cannot bring
\* it back, for any number of requests at once and any time limits.
THEOREM DeadStaysDead == SessionSpec => OverIsOver
<1>1. SessionInit => SessionInv
  <2>1. SessionInit => SessionTypeOK
    <3>1. 0 \in 0..SessionTime /\ 0 \in 0..0
        BY SessionAssumption
    <3> QED
        BY Zenon, <3>1 DEF SessionInit, SessionTypeOK
  <2> QED
    BY Zenon, <2>1 DEF SessionInit, SessionInv
<1>2. SessionInv /\ [SessionNext]_sessionVars =>
        [over => \A b \in Browsers : visit'[b] = "marking" => visit[b] = "marking"]_sessionVars
  <2> SUFFICES ASSUME SessionInv, SessionNext, over, NEW b \in Browsers, visit'[b] = "marking"
               PROVE visit[b] = "marking"
    BY Zenon
  <2>1. \A d \in Browsers : visit[d] # "valid"
    BY Zenon DEF SessionInv
  <2>2. visit \in [Browsers -> {"none", "found", "valid", "marking"}]
    BY Zenon DEF SessionInv, SessionTypeOK
  <2>3. ASSUME NEW d \in Browsers, FindToken(d) \/ LookupByToken(d) PROVE visit[b] = "marking"
    BY Zenon, <2>2, <2>3 DEF FindToken, LookupByToken
  <2>4. ASSUME NEW d \in Browsers, Admit(d) \/ MarkSeen(d) PROVE visit[b] = "marking"
    BY Zenon, <2>1, <2>2, <2>4 DEF Admit, MarkSeen
  <2> QED
    BY Zenon, <2>3, <2>4 DEF SessionNext, SessionTick, Revoke, PruneExpired
<1> QED
    BY <1>1, <1>2, SessionStep, PTL DEF SessionSpec, OverIsOver

-----------------------------------------------------------------------------
(* RateLimiter: no window holds more than the limit.                       *)

Times == 0..LimiterTime

\* Later entries of s are not earlier.
Ordered(s) == \A i, j \in 1..Len(s) : i <= j => s[i] <= s[j]

\* q is s without its first d entries.
IsRest(q, s, d) ==
    /\ d \in 0..Len(s) /\ Len(q) = Len(s) - d
    /\ \A i \in 1..Len(q) : q[i] = s[d + i]

\* q is what the first i entries of s leave behind: the ones later than x.
Kept(q, s, i, x) ==
    \E d \in 0..i :
        /\ Len(q) = i - d
        /\ \A j \in 1..(i - d) : q[j] = s[d + j] /\ s[d + j] > x
        /\ \A j \in 1..d : s[j] <= x

\* Times are numbers.
LEMMA TimesAreNumbers ==
    Times \subseteq Int
  BY LimiterAssumption DEF Times

\* One pass of the filter over timestamps in order.
LEMMA KeptStep ==
    ASSUME NEW s \in Seq(Times), Ordered(s), NEW x \in Int, NEW i \in 1..Len(s),
           NEW q \in Seq(Times), Kept(q, s, i - 1, x)
    PROVE  Kept(IF s[i] > x THEN Append(q, s[i]) ELSE q, s, i, x)
<1>1. PICK d \in 0..(i - 1) :
        /\ Len(q) = (i - 1) - d
        /\ \A j \in 1..((i - 1) - d) : q[j] = s[d + j] /\ s[d + j] > x
        /\ \A j \in 1..d : s[j] <= x
    BY Zenon DEF Kept
<1>0. Len(s) \in Nat /\ \A j \in 1..Len(s) : s[j] \in Times
    OBVIOUS
<1>a. \A j \in 1..Len(s) : s[j] \in Int
    BY Zenon, <1>0, TimesAreNumbers
<1>2. Len(s) \in Nat /\ s[i] \in Int /\ i \in Nat /\ \A j \in 1..Len(s) : s[j] \in Int
    BY <1>0, <1>a
<1>3. CASE s[i] > x
  <2> DEFINE r == Append(q, s[i])
  <2>1. Len(r) = i - d /\ d \in 0..i
    BY <1>1, <1>2
  <2>2. ASSUME NEW j \in 1..(i - d) PROVE r[j] = s[d + j] /\ s[d + j] > x
    <3>1. CASE j \in 1..((i - 1) - d)
        BY <1>1, <1>2, <3>1
    <3>2. CASE j = Len(q) + 1
      <4>1. d + j = i /\ r[j] = s[i]
        BY <1>1, <1>2, <3>2
      <4> QED
        BY Zenon, <1>3, <4>1
    <3> QED
        BY <1>1, <1>2, <3>1, <3>2
  <2> HIDE DEF r
  <2>3. Kept(r, s, i, x)
    BY Zenon, <1>1, <2>1, <2>2 DEF Kept
  <2> QED
    BY Zenon, <1>3, <2>3 DEF r
<1>4. CASE ~(s[i] > x)
  <2>1. ASSUME NEW j \in 1..i PROVE s[j] <= x
    <3>1. j \in 1..Len(s) /\ j <= i
        BY <1>2
    <3>2. s[j] <= s[i]
        BY Zenon, <3>1 DEF Ordered
    <3> QED
        BY <1>2, <1>4, <3>1, <3>2
  <2>2. d = i - 1
    <3> SUFFICES ASSUME d # i - 1 PROVE FALSE
        BY Zenon
    <3>1. 1 \in 1..((i - 1) - d) /\ d + 1 \in 1..i
        BY <1>2
    <3>2. s[d + 1] > x /\ s[d + 1] <= x
        BY Zenon, <1>1, <2>1, <3>1
    <3>3. s[d + 1] \in Int
        BY <1>2, <3>1
    <3> QED
        BY <3>2, <3>3
  <2>3. /\ i \in 0..i /\ Len(q) = i - i
        /\ \A j \in 1..(i - i) : q[j] = s[i + j] /\ s[i + j] > x
    BY <1>1, <1>2, <2>2
  <2>4. Kept(q, s, i, x)
    BY Zenon, <2>1, <2>3 DEF Kept
  <2> QED
    BY Zenon, <1>4, <2>4
<1> QED
    BY Zenon, <1>3, <1>4

\* filter((t) => t > windowStart) over timestamps in order drops a prefix.
LEMMA StillCountedIs ==
    ASSUME NEW s \in Seq(Times), Ordered(s), limiterNow \in Times
    PROVE  /\ StillCounted(s) \in Seq(Times)
           /\ Kept(StillCounted(s), s, Len(s), limiterNow - Window)
<1> DEFINE n == Len(s)
           x == limiterNow - Window
           Q == Seq(Times)
           Add(i, v) == IF s[i] > x THEN Append(v, s[i]) ELSE v
           next == [p \in (1..n) \X Q |-> Add(p[1], p[2])]
           F(g) == [i \in 0..n |-> IF i = 0 THEN <<>> ELSE Add(i, g[i - 1])]
           upTo == CHOOSE g : g = F(g)
<1>1. StillCounted(s) = upTo[n]
    BY Zenon DEF StillCounted
<1>2. n \in Nat /\ (\A i \in 1..n : s[i] \in Times) /\ x \in Int /\ <<>> \in Q
    BY LimiterAssumption DEF Times
<1> HIDE DEF x, n
<1>3. ASSUME NEW i \in 1..n, NEW v \in Q PROVE Add(i, v) \in Q
    BY <1>2
<1>4. ASSUME NEW i \in 1..n, NEW v \in Q, Kept(v, s, i - 1, x) PROVE Kept(Add(i, v), s, i, x)
    BY Zenon, <1>2, <1>4, KeptStep DEF n
<1> HIDE DEF Q, Add
<1>5. /\ next \in [(1..n) \X Q -> Q]
      /\ \A i \in 1..n, v \in Q : next[<<i, v>>] = Add(i, v)
    BY Zenon, <1>3
<1> HIDE DEF next
<1>6. PICK g \in [0..n -> Q] : Unrolls(g, n, <<>>, next)
    BY Zenon, <1>2, <1>5, Unroll
<1>7. g = F(g)
  <2>1. ASSUME NEW i \in 0..n, i # 0 PROVE g[i] = Add(i, g[i - 1])
    <3>1. i \in 1..n /\ i - 1 \in 0..n
        BY <1>2, <2>1
    <3> QED
        BY Zenon, <1>5, <1>6, <3>1 DEF Unrolls
  <2> QED
    BY Zenon, <1>2, <1>6, <2>1 DEF Unrolls
<1>8. upTo = F(upTo)
  <2> HIDE DEF F
  <2> QED
    BY Zenon, <1>7
<1> HIDE DEF upTo
<1> DEFINE T == {i \in Nat : i <= n => upTo[i] \in Q /\ Kept(upTo[i], s, i, x)}
<1>9. 0 \in T
  <2>1. upTo[0] = <<>>
    BY <1>2, <1>8
  <2>2. Len(<<>>) = 0 - 0 /\ 0 \in 0..0 /\ 1..(0 - 0) = {} /\ 1..0 = {}
    OBVIOUS
  <2>3. Kept(<<>>, s, 0, x)
    BY <2>2, Zenon DEF Kept
  <2> QED
    BY Zenon, <1>2, <2>1, <2>3
<1>10. ASSUME NEW i \in Nat, i \in T PROVE i + 1 \in T
  <2> SUFFICES ASSUME i + 1 <= n PROVE upTo[i + 1] \in Q /\ Kept(upTo[i + 1], s, i + 1, x)
    OBVIOUS
  <2>1. /\ i + 1 \in 0..n /\ i + 1 \in 1..n /\ i + 1 # 0 /\ (i + 1) - 1 = i
        /\ upTo[i] \in Q /\ Kept(upTo[i], s, i, x)
    BY <1>2, <1>10
  <2>2. upTo[i + 1] = Add(i + 1, upTo[i])
    BY Zenon, <1>8, <2>1
  <2> QED
    BY Zenon, <1>3, <1>4, <2>1, <2>2
<1>11. n \in T
  <2> HIDE DEF T
  <2> QED
    BY Zenon, <1>2, <1>9, <1>10, NatSetInduction
<1> QED
    BY <1>1, <1>2, <1>11 DEF n, x, Q

\* Requests are accepted in the order of time.  The entry holds the last of
\* them; those it does not hold any more are out of every window to come.  A
\* request comes at least a window after the one MaxHits before it.
WindowInv ==
    /\ limiterNow \in Times
    /\ entry \in [timestamps : Seq(Times), lastSeen : -1..LimiterTime]
    /\ accepted \in Seq(Times)
    /\ Ordered(accepted)
    /\ \A i \in 1..Len(accepted) : accepted[i] <= limiterNow
    /\ entry # NoEntry => \A i \in 1..Len(accepted) : accepted[i] <= entry.lastSeen
    /\ \E d \in 0..Len(accepted) :
          /\ IsRest(entry.timestamps, accepted, d)
          /\ \A i \in 1..d : accepted[i] <= limiterNow - Window
    /\ \A i \in 1..Len(accepted) :
          i + MaxHits <= Len(accepted) => accepted[i] <= accepted[i + MaxHits] - Window

\* An order survives at the end of a sequence.
LEMMA RestOrdered ==
    ASSUME NEW s \in Seq(Times), Ordered(s), NEW q \in Seq(Times), NEW d, IsRest(q, s, d)
    PROVE  Ordered(q)
<1> SUFFICES ASSUME NEW i \in 1..Len(q), NEW j \in 1..Len(q), i <= j PROVE q[i] <= q[j]
    BY Zenon DEF Ordered
<1>1. /\ Len(s) \in Nat /\ d \in 0..Len(s) /\ Len(q) = Len(s) - d
      /\ q[i] = s[d + i] /\ q[j] = s[d + j]
    BY DEF IsRest
<1>2. d + i \in 1..Len(s) /\ d + j \in 1..Len(s) /\ d + i <= d + j
    BY <1>1
<1> QED
    BY Zenon, <1>1, <1>2 DEF Ordered

\* The requests that still count are the last ones accepted; all others are out
\* of the window that ends now.
LEMMA RecentRequests ==
    ASSUME WindowInv
    PROVE  /\ StillCounted(entry.timestamps) \in Seq(Times)
           /\ \E d \in 0..Len(accepted) :
                 /\ IsRest(StillCounted(entry.timestamps), accepted, d)
                 /\ \A i \in 1..d : accepted[i] <= limiterNow - Window
                 /\ \A i \in (d + 1)..Len(accepted) : accepted[i] > limiterNow - Window
<1> DEFINE q == entry.timestamps
           r == StillCounted(q)
           n == Len(accepted)
           x == limiterNow - Window
<1>1. PICK d \in 0..n : IsRest(q, accepted, d) /\ \A i \in 1..d : accepted[i] <= x
    BY Zenon DEF WindowInv
<1>2. q \in Seq(Times) /\ accepted \in Seq(Times) /\ n \in Nat /\ limiterNow \in Times
    BY DEF WindowInv
<1>3. r \in Seq(Times) /\ Kept(r, q, Len(q), x)
    BY <1>1, <1>2, RestOrdered, StillCountedIs DEF WindowInv
<1> HIDE DEF q, r, n, x
<1>4. PICK c \in 0..Len(q) :
        /\ Len(r) = Len(q) - c
        /\ \A j \in 1..(Len(q) - c) : r[j] = q[c + j] /\ q[c + j] > x
        /\ \A j \in 1..c : q[j] <= x
    BY Zenon, <1>3 DEF Kept
<1>5. /\ Len(accepted) = n /\ Len(q) = n - d /\ Len(q) \in Nat /\ d + c \in 0..n
      /\ \A i \in 1..Len(q) : q[i] = accepted[d + i]
    BY <1>1, <1>2, <1>4 DEF IsRest, n
<1>6. Len(r) = n - (d + c)
    BY <1>4, <1>5
<1>7. ASSUME NEW i \in 1..Len(r)
      PROVE  r[i] = accepted[(d + c) + i] /\ r[i] > x
  <2>1. i \in 1..(Len(q) - c) /\ c + i \in 1..Len(q) /\ d + (c + i) = (d + c) + i
    BY <1>4, <1>5, <1>6
  <2>2. r[i] = q[c + i] /\ q[c + i] > x
    BY Zenon, <1>4, <2>1
  <2>3. q[c + i] = accepted[d + (c + i)]
    BY Zenon, <1>5, <2>1
  <2> QED
    BY Zenon, <2>1, <2>2, <2>3
<1>8. ASSUME NEW i \in 1..(d + c) PROVE accepted[i] <= x
  <2>1. CASE i \in 1..d
    BY Zenon, <1>1, <2>1
  <2>2. CASE i \notin 1..d
    <3>1. i - d \in 1..c /\ i - d \in 1..Len(q) /\ d + (i - d) = i
        BY <1>4, <1>5, <2>2
    <3>2. q[i - d] <= x /\ q[i - d] = accepted[d + (i - d)]
        BY Zenon, <1>4, <1>5, <3>1
    <3> QED
        BY Zenon, <3>1, <3>2
  <2> QED
    BY Zenon, <2>1, <2>2
<1>9. ASSUME NEW i \in ((d + c) + 1)..n PROVE accepted[i] > x
  <2>1. i - (d + c) \in 1..Len(r) /\ (d + c) + (i - (d + c)) = i
    BY <1>5, <1>6
  <2> QED
    BY Zenon, <1>7, <2>1
<1>10. IsRest(r, accepted, d + c)
    BY <1>5, <1>6, <1>7 DEF IsRest
<1> QED
    BY Zenon, <1>3, <1>5, <1>8, <1>9, <1>10 DEF q, r, n, x

\* Time passes; what was out of the window stays out.
LEMMA TickStep ==
    ASSUME WindowInv, LimiterTick
    PROVE  WindowInv'
<1>1. limiterNow \in Int /\ limiterNow' = limiterNow + 1 /\ limiterNow' \in Times /\ Window \in Int
    BY LimiterAssumption, TimesAreNumbers DEF WindowInv, LimiterTick, Times
<1>2. entry' = entry /\ accepted' = accepted
    BY Zenon DEF LimiterTick
<1>3. Len(accepted) \in Nat /\ \A i \in 1..Len(accepted) : accepted[i] \in Int
  <2>1. accepted \in Seq(Times)
    BY Zenon DEF WindowInv
  <2>2. Len(accepted) \in Nat /\ \A i \in 1..Len(accepted) : accepted[i] \in Times
    BY <2>1
  <2> QED
    BY Zenon, <2>2, TimesAreNumbers
<1>4. \A i \in 1..Len(accepted) : accepted[i] <= limiterNow'
    BY <1>1, <1>3 DEF WindowInv
<1>5. PICK d \in 0..Len(accepted) :
        /\ IsRest(entry.timestamps, accepted, d)
        /\ \A i \in 1..d : accepted[i] <= limiterNow - Window
    BY Zenon DEF WindowInv
<1>6. \A i \in 1..d : accepted[i] <= limiterNow' - Window
    BY <1>1, <1>3, <1>5
<1> QED
    BY SMTT(20), <1>1, <1>2, <1>4, <1>5, <1>6 DEF WindowInv, IsRest, Ordered

\* What the janitor drops is out of every window to come: the entry was last
\* seen two windows ago, and nothing was accepted since.
LEMMA JanitorStep ==
    ASSUME WindowInv, Janitor
    PROVE  WindowInv'
<1>1. limiterNow \in Int /\ Window \in Nat /\ entry.lastSeen \in Int
    BY LimiterAssumption, TimesAreNumbers DEF WindowInv
<1>2. /\ entry' = NoEntry /\ accepted' = accepted /\ limiterNow' = limiterNow
      /\ entry # NoEntry /\ entry.lastSeen < limiterNow - Window * 2
    BY Zenon DEF Janitor
<1>3. Len(accepted) \in Nat /\ \A i \in 1..Len(accepted) : accepted[i] \in Int
  <2>1. accepted \in Seq(Times)
    BY DEF WindowInv
  <2>2. Len(accepted) \in Nat /\ \A i \in 1..Len(accepted) : accepted[i] \in Times
    BY <2>1
  <2> QED
    BY Zenon, <2>2, TimesAreNumbers
<1>4. ASSUME NEW i \in 1..Len(accepted) PROVE accepted[i] <= limiterNow - Window
  <2>1. accepted[i] <= entry.lastSeen
    BY Zenon, <1>2 DEF WindowInv
  <2> QED
    BY <1>1, <1>2, <1>3, <2>1
<1>5. /\ NoEntry \in [timestamps : Seq(Times), lastSeen : -1..LimiterTime]
      /\ NoEntry.timestamps = <<>>
    BY LimiterAssumption DEF NoEntry
<1>6. IsRest(<<>>, accepted, Len(accepted))
    BY <1>3 DEF IsRest
<1>7. Len(accepted) \in 0..Len(accepted)
    BY <1>3
<1> QED
    BY <1>2, <1>4, <1>5, <1>6, <1>7 DEF WindowInv, IsRest, Ordered

\* A request: pruning drops only what is out of the window, and one is accepted
\* only when fewer than MaxHits are left.
LEMMA HitStep ==
    ASSUME WindowInv, Hit
    PROVE  WindowInv'
<1> DEFINE r == StillCounted(entry.timestamps)
           n == Len(accepted)
           x == limiterNow - Window
<1>1. /\ limiterNow \in Int /\ limiterNow \in Times /\ Window \in Nat /\ Window > 0 /\ x \in Int
      /\ MaxHits \in Nat /\ MaxHits >= 1 /\ limiterNow \in -1..LimiterTime
    BY LimiterAssumption, TimesAreNumbers DEF WindowInv, Times
<1>2. r \in Seq(Times)
    BY Zenon, RecentRequests
<1>3. PICK d \in 0..n : IsRest(r, accepted, d) /\ \A i \in 1..d : accepted[i] <= x
    BY Zenon, RecentRequests
<1>4. accepted \in Seq(Times) /\ n \in Nat /\ \A i \in 1..n : accepted[i] \in Int
  <2>1. accepted \in Seq(Times)
    BY Zenon DEF WindowInv
  <2>2. n \in Nat /\ \A i \in 1..n : accepted[i] \in Times
    BY <2>1
  <2> QED
    BY Zenon, <2>1, <2>2, TimesAreNumbers
<1>5. limiterNow' = limiterNow /\ \A i \in 1..n : accepted[i] <= limiterNow
    BY Zenon DEF Hit, WindowInv
<1>6. CASE Len(r) >= MaxHits
  <2>1. entry' = [timestamps |-> r, lastSeen |-> limiterNow] /\ accepted' = accepted
    BY Zenon, <1>6 DEF Hit
  <2>2. /\ entry' \in [timestamps : Seq(Times), lastSeen : -1..LimiterTime]
        /\ entry'.timestamps = r /\ entry'.lastSeen = limiterNow
    BY Zenon, <1>1, <1>2, <2>1
  <2> QED
    BY Zenon, <1>1, <1>3, <1>4, <1>5, <2>1, <2>2 DEF WindowInv, IsRest, Ordered
<1>7. CASE ~(Len(r) >= MaxHits)
  <2> DEFINE q == Append(r, limiterNow)
             a == Append(accepted, limiterNow)
  <2>1. entry' = [timestamps |-> q, lastSeen |-> limiterNow] /\ accepted' = a
    BY Zenon, <1>7 DEF Hit
  <2>2. q \in Seq(Times) /\ a \in Seq(Times)
    BY <1>1, <1>2, <1>4
  <2>3. /\ entry' \in [timestamps : Seq(Times), lastSeen : -1..LimiterTime]
        /\ entry'.timestamps = q /\ entry'.lastSeen = limiterNow
    BY Zenon, <1>1, <2>1, <2>2
  <2>4. Len(a) = n + 1 /\ a[n + 1] = limiterNow /\ \A i \in 1..n : a[i] = accepted[i]
    BY <1>4
  <2>5. Len(r) \in Nat /\ Len(r) = n - d /\ \A i \in 1..Len(r) : r[i] = accepted[d + i]
    BY <1>2, <1>3 DEF IsRest
  <2>6. Len(q) = Len(r) + 1 /\ q[Len(r) + 1] = limiterNow /\ \A i \in 1..Len(r) : q[i] = r[i]
    BY <1>2, <2>5
  <2> HIDE DEF q, a, r, n, x
  <2>7. \A i \in 1..(n + 1) : i \in 1..n \/ i = n + 1
    BY <1>4
  <2>8. \A i \in 1..(n + 1) : a[i] \in Int /\ a[i] <= limiterNow
    BY <1>1, <1>4, <1>5, <2>4, <2>7
  <2>9. Ordered(a)
    <3> SUFFICES ASSUME NEW i \in 1..(n + 1), NEW j \in 1..(n + 1), i <= j PROVE a[i] <= a[j]
        BY Zenon, <2>4 DEF Ordered
    <3>1. CASE j = n + 1
        BY <2>4, <2>8, <3>1
    <3>2. CASE j \in 1..n
      <4>1. i \in 1..n
        BY <1>4, <3>2
      <4>2. accepted[i] <= accepted[j]
        BY Zenon, <3>2, <4>1 DEF WindowInv, Ordered, n
      <4> QED
        BY <2>4, <3>2, <4>1, <4>2
    <3> QED
        BY <2>7, <3>1, <3>2
  <2>10. IsRest(q, a, d)
    <3>1. d \in 0..Len(a) /\ Len(q) = Len(a) - d
        BY <1>4, <2>4, <2>5, <2>6
    <3>2. ASSUME NEW i \in 1..Len(q) PROVE q[i] = a[d + i]
      <4>1. CASE i = Len(r) + 1
        <5>1. d + i = n + 1
            BY <1>4, <2>5, <4>1
        <5> QED
            BY Zenon, <2>4, <2>6, <4>1, <5>1
      <4>2. CASE i \in 1..Len(r)
        <5>1. d + i \in 1..n
            BY <1>4, <2>5, <4>2
        <5> QED
            BY <2>4, <2>5, <2>6, <4>2, <5>1
      <4> QED
        BY <2>5, <2>6, <4>1, <4>2
    <3> QED
        BY Zenon, <3>1, <3>2 DEF IsRest
  <2>11. \A i \in 1..d : a[i] <= x
    BY <1>3, <1>4, <2>4
  <2>12. ASSUME NEW i \in 1..(n + 1), i + MaxHits <= n + 1
         PROVE  a[i] <= a[i + MaxHits] - Window
    <3>1. CASE i + MaxHits = n + 1
      <4>1. i \in 1..d
        BY <1>1, <1>4, <1>7, <2>5, <3>1
      <4> QED
        BY Zenon, <2>4, <2>11, <3>1, <4>1 DEF x
    <3>2. CASE i + MaxHits # n + 1
      <4>1. i \in 1..n /\ i + MaxHits \in 1..n /\ i + MaxHits <= n
        BY <1>1, <1>4, <2>12, <3>2
      <4>2. accepted[i] <= accepted[i + MaxHits] - Window
        BY Zenon, <4>1 DEF WindowInv, n
      <4> QED
        BY Zenon, <2>4, <4>1, <4>2
    <3> QED
        BY Zenon, <3>1, <3>2
  <2>13. d \in 0..(n + 1)
    BY <1>4
  <2> QED
    BY Zenon, <1>1, <1>5, <2>1, <2>2, <2>3, <2>4, <2>8, <2>9, <2>10, <2>11, <2>12, <2>13
    DEF WindowInv, x, IsRest, Ordered
<1> QED
    BY Zenon, <1>6, <1>7

\* Requests MaxHits apart are a window apart, so no window holds more of them.
LEMMA WindowIsEnough ==
    ASSUME WindowInv
    PROVE  WindowHolds
<1> SUFFICES ASSUME NEW t \in 0..limiterNow PROVE InWindow(t) <= MaxHits
    BY Zenon DEF WindowHolds
<1> DEFINE n == Len(accepted)
           S == {i \in 1..n : accepted[i] > t - Window /\ accepted[i] <= t}
<1>1. accepted \in Seq(Times) /\ n \in Nat /\ \A i \in 1..n : accepted[i] \in Int
  <2>1. accepted \in Seq(Times)
    BY Zenon DEF WindowInv
  <2>2. n \in Nat /\ \A i \in 1..n : accepted[i] \in Times
    BY <2>1
  <2> QED
    BY Zenon, <2>1, <2>2, TimesAreNumbers
<1>2. InWindow(t) = Cardinality(S)
  <2>1. DOMAIN accepted = 1..n
    BY <1>1
  <2> HIDE DEF n
  <2> QED
    BY Zenon, <2>1 DEF InWindow
<1>3. Window \in Nat /\ MaxHits \in Nat /\ MaxHits >= 1 /\ t \in Int
    BY LimiterAssumption
<1>4. CASE S = {}
  <2>1. Cardinality(S) = 0
    BY Zenon, <1>4, FS_EmptySet
  <2> QED
    BY <1>2, <1>3, <2>1
<1>5. CASE S # {}
  <2>1. S \subseteq Nat
    BY <1>1
  <2>2. PICK lo \in S : \A i \in S : lo <= i
    BY Zenon, <1>5, <2>1, LeastNat
  <2>3. lo \in Nat /\ lo \in 1..n /\ accepted[lo] > t - Window
    BY Zenon, <2>1, <2>2
  <2>4. ASSUME NEW i \in S PROVE i \in lo..(lo + MaxHits - 1)
    <3> SUFFICES ASSUME i >= lo + MaxHits PROVE FALSE
        BY <1>3, <2>1, <2>2, <2>3
    <3>1. i \in 1..n /\ accepted[i] <= t
        BY Zenon
    <3>2. lo + MaxHits \in 1..n /\ lo + MaxHits <= n /\ lo + MaxHits <= i
        BY <1>1, <1>3, <2>3, <3>1
    <3>3. accepted[lo] <= accepted[lo + MaxHits] - Window
        BY Zenon, <2>3, <3>2 DEF WindowInv
    <3>4. accepted[lo + MaxHits] <= accepted[i]
        BY Zenon, <3>1, <3>2 DEF WindowInv, Ordered
    <3>5. accepted[lo] \in Int /\ accepted[lo + MaxHits] \in Int /\ accepted[i] \in Int
        BY <1>1, <2>3, <3>1, <3>2
    <3> QED
        BY <1>3, <2>3, <3>1, <3>3, <3>4, <3>5
  <2> HIDE DEF S
  <2>5. S \subseteq lo..(lo + MaxHits - 1) /\ lo + MaxHits - 1 \in Int /\ lo \in Int
    BY <1>3, <2>3, <2>4
  <2>6. /\ IsFiniteSet(lo..(lo + MaxHits - 1))
        /\ Cardinality(lo..(lo + MaxHits - 1)) =
             IF lo > lo + MaxHits - 1 THEN 0 ELSE (lo + MaxHits - 1) - lo + 1
    BY Zenon, <2>5, FS_Interval
  <2>7. Cardinality(lo..(lo + MaxHits - 1)) = MaxHits
    BY <1>3, <2>3, <2>6
  <2>8. Cardinality(S) <= Cardinality(lo..(lo + MaxHits - 1))
    BY Zenon, <2>5, <2>6, FS_Subset
  <2> QED
    BY Zenon, <1>2, <2>7, <2>8
<1> QED
    BY Zenon, <1>4, <1>5

\* Nothing has been accepted yet.
LEMMA LimitStart ==
    LimiterInit => WindowInv
<1> SUFFICES ASSUME LimiterInit PROVE WindowInv
    BY Zenon
<1>1. limiterNow = 0 /\ entry = NoEntry /\ accepted = <<>> /\ Len(<<>>) = 0 /\ 0 \in Times
    BY LimiterAssumption DEF LimiterInit, Times
<1>2. NoEntry \in [timestamps : Seq(Times), lastSeen : -1..LimiterTime] /\ NoEntry.timestamps = <<>>
    BY LimiterAssumption DEF NoEntry
<1>3. IsRest(<<>>, <<>>, 0) /\ 0 \in 0..0 /\ <<>> \in Seq(Times) /\ Ordered(<<>>)
    BY DEF IsRest, Ordered
<1>4. \A i : i \notin 1..0
    OBVIOUS
<1> QED
    BY Zenon, <1>1, <1>2, <1>3, <1>4 DEF WindowInv

\* No step breaks the window.
LEMMA LimitStep ==
    WindowInv /\ [LimiterNext]_limiterVars => WindowInv'
<1> SUFFICES ASSUME WindowInv, [LimiterNext]_limiterVars PROVE WindowInv'
    OBVIOUS
<1>1. CASE UNCHANGED limiterVars
    BY Zenon, <1>1 DEF limiterVars, WindowInv, IsRest, Ordered
<1> QED
    BY Zenon, <1>1, TickStep, HitStep, JanitorStep DEF LimiterNext

\* However requests, time and the janitor interleave, no window of any length
\* holds more accepted requests than the limit: createRateLimiter forgets only
\* what no longer counts.
THEOREM LimitHolds ==
    LimiterSpec => []WindowHolds
<1>1. LimiterInit => WindowInv
    BY Zenon, LimitStart
<1>2. WindowInv /\ [LimiterNext]_limiterVars => WindowInv'
    BY Zenon, LimitStep
<1>3. WindowInv => WindowHolds
    BY WindowIsEnough
<1> QED
    BY <1>1, <1>2, <1>3, PTL DEF LimiterSpec

\* A request is turned away only when the limit has really been accepted within
\* the window that ends then: pruning forgets nothing that counts, and counts
\* nothing twice.
THEOREM RefusalsAreDue ==
    LimiterSpec => []RefusedWhenFull
<1>1. LimiterInit => RefusedWhenFull
    BY Zenon DEF LimiterInit, RefusedWhenFull
<1>2. ASSUME WindowInv, RefusedWhenFull, [LimiterNext]_limiterVars PROVE RefusedWhenFull'
  <2>1. CASE UNCHANGED limiterVars \/ Janitor
    BY Zenon, <1>2, <2>1 DEF limiterVars, Janitor, RefusedWhenFull, InWindow
  <2>2. CASE LimiterTick
    BY Zenon, <2>2 DEF LimiterTick, RefusedWhenFull
  <2>3. CASE Hit
    <3> DEFINE r == StillCounted(entry.timestamps)
               n == Len(accepted)
               x == limiterNow - Window
               S == {i \in 1..n : accepted[i] > x /\ accepted[i] <= limiterNow}
    <3> SUFFICES ASSUME refused' PROVE InWindow(limiterNow)' >= MaxHits
        BY Zenon DEF RefusedWhenFull
    <3>1. Len(r) >= MaxHits /\ accepted' = accepted /\ limiterNow' = limiterNow
        BY Zenon, <2>3 DEF Hit
    <3>2. accepted \in Seq(Times) /\ n \in Nat /\ MaxHits \in Nat
        BY <1>2, LimiterAssumption DEF WindowInv
    <3>3. PICK d \in 0..n : IsRest(r, accepted, d) /\ \A i \in (d + 1)..n : accepted[i] > x
        BY Zenon, <1>2, RecentRequests
    <3>4. (d + 1)..n \subseteq S
      <4>1. \A i \in 1..n : accepted[i] <= limiterNow
        BY Zenon, <1>2 DEF WindowInv
      <4>2. \A i \in (d + 1)..n : i \in 1..n
        BY <3>2
      <4> QED
        BY Zenon, <3>3, <4>1, <4>2
    <3>5. InWindow(limiterNow)' = Cardinality(S)
      <4>1. DOMAIN accepted = 1..n
        BY <3>2
      <4> HIDE DEF n
      <4> QED
        BY Zenon, <3>1, <4>1 DEF InWindow
    <3>6. S \subseteq 1..n
        BY Zenon
    <3> HIDE DEF S, r, n
    <3>7. Len(r) = n - d /\ d + 1 \in Int /\ n \in Int /\ d \in Nat
        BY <3>2, <3>3 DEF IsRest, n
    <3>8. /\ IsFiniteSet(1..n)
          /\ Cardinality((d + 1)..n) = IF d + 1 > n THEN 0 ELSE n - (d + 1) + 1
        BY <3>7, FS_Interval
    <3>9. Cardinality((d + 1)..n) >= MaxHits
        BY <3>1, <3>2, <3>7, <3>8
    <3>10. IsFiniteSet(S)
        BY Zenon, <3>6, <3>8, FS_Subset
    <3>11. /\ Cardinality((d + 1)..n) <= Cardinality(S)
           /\ Cardinality(S) \in Nat /\ Cardinality((d + 1)..n) \in Nat
        BY Zenon, <3>4, <3>10, FS_Subset, FS_CardinalityType
    <3> QED
        BY <3>2, <3>5, <3>9, <3>11
  <2> QED
    BY Zenon, <1>2, <2>1, <2>2, <2>3 DEF LimiterNext
<1>3. LimiterSpec => []WindowInv
  <2>1. LimiterInit => WindowInv
    BY Zenon, LimitStart
  <2>2. WindowInv /\ [LimiterNext]_limiterVars => WindowInv'
    BY Zenon, LimitStep
  <2> QED
    BY <2>1, <2>2, PTL DEF LimiterSpec
<1> QED
    BY <1>1, <1>2, <1>3, PTL DEF LimiterSpec

-----------------------------------------------------------------------------
(* AgentTurn: requests and observations, the abort, the audit rows.        *)

\* The stages of one complete() call.
InComplete == {"call", "wait", "sleep"}

\* As long as the run lasts, what has been requested and not yet observed is
\* what is left of the current batch; there is a batch only while its tools are
\* being executed.
BatchLeft ==
    /\ stage # "end" => observed + Len(queue) = asked
    /\ stage \notin {"tools", "end"} => queue = <<>>
    /\ stage = "tools" => queue # <<>>

\* The inductive invariant of a run: a call is made below the ceiling only.
TurnInv ==
    /\ TurnTypeOK
    /\ BatchLeft
    /\ stage \in InComplete \cup {"tools"} => iter < MaxIterations
    /\ stage \in InComplete \cup {"compose"} => calls > 0
    /\ AuditedOnce
    /\ NoRequestAfterAbort

\* The run begins with nothing requested and nothing audited.
LEMMA TurnInvInit == TurnInit => TurnInv
<1> SUFFICES ASSUME TurnInit PROVE TurnInv
    BY Zenon
<1> USE TurnAssumption
<1>1. queue \in Seq(Tools) /\ Len(queue) = 0
    BY DEF TurnInit
<1>2. iter \in 0..MaxIterations /\ attempt \in 0..MaxRetries - 1 /\ Len(queue) <= MaxBatch
      /\ asked \in Nat /\ observed \in 0..asked /\ calls \in Nat /\ audits \in 0..calls
    BY <1>1 DEF TurnInit
<1>3. TurnTypeOK
    BY Zenon, <1>1, <1>2 DEF TurnInit, TurnTypeOK
<1> QED
    BY <1>1, <1>3 DEF TurnInit, TurnInv, BatchLeft, InComplete, AuditedOnce, NoRequestAfterAbort

\* complete()'s catch keeps the invariant, whatever the error.
LEMMA GiveUpKeeps ==
    ASSUME TurnInv, stage \in InComplete, NEW error, GiveUp(error),
           UNCHANGED <<iter, hasFallback, batchVars, aborted, calls>>
    PROVE  TurnInv'
<1> USE TurnAssumption
<1> USE DEF TurnInv, TurnTypeOK, BatchLeft, InComplete, AuditedOnce, NoRequestAfterAbort,
            GoTo, Finish, batchVars
<1>1. CASE stage' = "call" /\ audits' = audits /\ attempt' = 0 /\ provider' = "fallback"
           /\ UNCHANGED <<late, result>>
    BY <1>1
<1>2. CASE stage' = "end" /\ audits' = audits + 1 /\ result' \in {"aborted", "error"}
           /\ UNCHANGED <<late, provider, attempt>>
    BY <1>2
<1>3. \/ stage' = "call" /\ audits' = audits /\ attempt' = 0 /\ provider' = "fallback"
         /\ UNCHANGED <<late, result>>
      \/ stage' = "end" /\ audits' = audits + 1 /\ result' \in {"aborted", "error"}
         /\ UNCHANGED <<late, provider, attempt>>
    BY Zenon DEF GiveUp
<1> QED
    BY Zenon, <1>1, <1>2, <1>3

\* Every step of the run keeps it.
LEMMA TurnInvStep == TurnInv /\ [TurnNext]_turnVars => TurnInv'
<1> SUFFICES ASSUME TurnInv, [TurnNext]_turnVars PROVE TurnInv'
    BY Zenon
<1> USE TurnAssumption
<1> USE DEF TurnInv, TurnTypeOK, BatchLeft, InComplete, AuditedOnce, NoRequestAfterAbort,
            GoTo, Finish, gatewayVars, batchVars
<1>1. CASE Disconnect
    BY <1>1 DEF Disconnect
<1>2. CASE LoopTop
    BY <1>2 DEF LoopTop
<1>3. CASE Begin
  <2>1. CASE GiveUp("AbortError")
    BY Zenon, <1>3, <2>1, GiveUpKeeps DEF Begin
  <2>2. CASE GoTo("wait") /\ UNCHANGED <<provider, attempt, late, audits>>
    BY Zenon, <1>3, <2>2 DEF Begin
  <2> QED
    BY Zenon, <1>3, <2>1, <2>2 DEF Begin
<1>4. CASE Answered
  <2>1. CASE UNCHANGED queue
    BY SMTT(20), <1>4, <2>1 DEF Answered
  <2>2. ASSUME NEW n \in 1..MaxBatch, NEW batch \in [1..n -> Tools],
               queue' = batch, asked' = asked + n, ran' = {}, GoTo("tools")
        PROVE  TurnInv'
    <3>1. queue' \in Seq(Tools) /\ Len(queue') = n /\ queue' # <<>>
        BY <2>2
    <3> QED
        BY <1>4, <2>2, <3>1 DEF Answered
  <2> QED
    BY Zenon, <1>4, <2>1, <2>2 DEF Answered
<1>5. CASE RequestFails
  <2>1. ASSUME NEW error, GiveUp(error) PROVE TurnInv'
    BY Zenon, <1>5, <2>1, GiveUpKeeps DEF RequestFails
  <2>2. CASE attempt + 1 < MaxRetries /\ attempt' = attempt + 1 /\ GoTo("sleep")
             /\ UNCHANGED <<provider, late, audits>>
    BY <1>5, <2>2 DEF RequestFails
  <2> QED
    BY Zenon, <1>5, <2>1, <2>2 DEF RequestFails, RetryOrGiveUp
<1>6. CASE Backoff
    BY Zenon, <1>6 DEF Backoff
<1>7. CASE ToolCall
  <2>1. queue \in Seq(Tools) /\ queue # <<>> /\ Head(queue) \in Tools
    BY <1>7 DEF ToolCall
  <2>2. Tail(queue) \in Seq(Tools) /\ Len(Tail(queue)) = Len(queue) - 1 /\ Len(queue) \in Nat \ {0}
    BY <2>1
  <2>3. CASE UNCHANGED <<iter, batchVars>>
    BY <1>7, <2>3 DEF ToolCall
  <2>4. CASE /\ IF Head(queue) = "tool_search"
                THEN observed' = observed + 1 /\ UNCHANGED ran
                ELSE Execute(Head(queue))
             /\ queue' = Tail(queue)
             /\ UNCHANGED asked
             /\ IF Len(queue) = 1
                THEN GoTo("top") /\ iter' = iter + 1
                ELSE UNCHANGED <<stage, result, iter>>
    <3>1. observed' = observed + 1
        BY Zenon, <2>4 DEF Execute
    <3>2. ran' \subseteq Tools \X Verdicts
        BY <2>1, <2>4 DEF Execute
    <3>3. Len(queue') = Len(queue) - 1 /\ queue' \in Seq(Tools)
        BY Zenon, <2>2, <2>4
    <3>4. CASE Len(queue) = 1
      <4>1. queue' = <<>> /\ Len(queue') = 0
        BY <3>3, <3>4
      <4>2. /\ stage = "tools" /\ stage' = "top" /\ iter' = iter + 1 /\ UNCHANGED result
            /\ UNCHANGED <<hasFallback, gatewayVars, aborted, asked>>
        BY Zenon, <1>7, <2>4, <3>4 DEF ToolCall
      <4>3. observed' = asked' /\ iter' \in 0..MaxIterations /\ Len(queue') <= MaxBatch
        BY SMTT(20), <2>4, <3>1, <3>3, <3>4, <4>1, <4>2
      <4>4. TurnTypeOK'
        BY SMTT(20), <3>1, <3>2, <3>3, <4>1, <4>2, <4>3
      <4> QED
        BY <4>1, <4>2, <4>3, <4>4
    <3>5. CASE Len(queue) # 1
      <4>1. queue' # <<>>
        BY SMTT(20), <2>2, <3>3, <3>5
      <4> QED
        BY SMTT(20), <1>7, <2>2, <2>4, <3>1, <3>2, <3>3, <3>5, <4>1 DEF ToolCall
    <3> QED
        BY Zenon, <3>4, <3>5
  <2> QED
    BY Zenon, <1>7, <2>3, <2>4 DEF ToolCall
<1>8. CASE Compose
    BY <1>8 DEF Compose
<1>9. CASE UNCHANGED turnVars
    BY Zenon, <1>9 DEF turnVars
<1> QED
    BY Zenon, <1>1, <1>2, <1>3, <1>4, <1>5, <1>6, <1>7, <1>8, <1>9 DEF TurnNext, TurnStep

\* The inductive invariant of a run holds throughout.
LEMMA TurnInvHolds == TurnSpec => []TurnInv
    BY TurnInvInit, TurnInvStep, PTL DEF TurnSpec

\* Whenever the model is asked, every tool call it has requested has been
\* observed: runLoop sends no tool_use block without its tool_result.
THEOREM PairedRequests == TurnSpec => []RequestsArePaired
<1>1. TurnInv => RequestsArePaired
    BY DEF TurnInv, TurnTypeOK, BatchLeft, RequestsArePaired
<1> QED
    BY <1>1, TurnInvHolds, PTL

\* Once the client has left, callWithRetry begins no request, whatever it was
\* doing: waiting, backing off, retrying or falling back.
THEOREM AbortIsHeeded == TurnSpec => []NoRequestAfterAbort
<1>1. TurnInv => NoRequestAfterAbort
    BY Zenon DEF TurnInv
<1> QED
    BY <1>1, TurnInvHolds, PTL

\* A complete() call leaves one audit row before the loop goes on.
THEOREM OneAuditRow == TurnSpec => []AuditedOnce
<1>1. TurnInv => AuditedOnce
    BY Zenon DEF TurnInv
<1> QED
    BY <1>1, TurnInvHolds, PTL

-----------------------------------------------------------------------------
(* ChatTurns: numbers of events, and the trace of an answered turn.        *)

\* The rows of chat_session_events, without the bounds.
AnyRecord == [turn : Turns, n : Nat \ {0}, seq : Nat]

\* The types without the bounds; the stored numbers are bounded, so that
\* nextSeq finds the largest.
ChatTypes ==
    /\ turn \in [Turns -> {"new", "asked", "running", "flush", "answer", "title", "done", "failed"}]
    /\ seq \in [Turns -> Nat] /\ emitted \in [Turns -> Nat]
    /\ after \in [Turns -> SUBSET Turns]
    /\ appending \subseteq AnyRecord /\ stored \subseteq AnyRecord
    /\ messages \in Seq(Turns \X {"user", "assistant"})
    /\ \E b \in Nat : \A r \in stored : r.seq <= b

\* A turn numbers its events without gaps from the number it read.
Numbered ==
    /\ \A r \in stored \cup appending :
          /\ r.n <= emitted[r.turn]
          /\ r.seq + emitted[r.turn] + 1 = seq[r.turn] + r.n
    /\ \A t \in Turns : turn[t] \in {"new", "asked"} => emitted[t] = 0

\* A turn that was answered when another read its number is over, and its
\* stored events have smaller numbers than the other's first.
Answerable ==
    \A t \in Turns : \A u \in after[t] :
        /\ turn[u] = "done"
        /\ \A r \in stored : r.turn = u => r.seq + emitted[t] < seq[t]

\* From its flush on, a turn has no append under way, and its answer is among
\* the messages only after that.
Flushed ==
    \A t \in Turns :
        /\ turn[t] \in {"answer", "title", "done"} => \A r \in appending : r.turn # t
        /\ <<t, "assistant">> \in Range(messages) => turn[t] \in {"title", "done"}

ChatInv == ChatTypes /\ Numbered /\ Answerable /\ Flushed

\* The session begins without rows.
LEMMA ChatInvInit == ChatInit => ChatInv
<1> SUFFICES ASSUME ChatInit PROVE ChatInv
    OBVIOUS
<1>1. ChatTypes
    BY DEF ChatInit, ChatTypes
<1>2. Numbered /\ Answerable
    BY Zenon DEF ChatInit, Numbered, Answerable
<1>3. Flushed
    BY DEF ChatInit, Flushed, Range
<1> QED
    BY Zenon, <1>1, <1>2, <1>3 DEF ChatInv

\* What a message appended to the list adds to its members.
LEMMA RangeAppend ==
    ASSUME NEW S, NEW s \in Seq(S), NEW e \in S
    PROVE  Range(Append(s, e)) = Range(s) \cup {e}
<1>1. Append(s, e) \in Seq(S) /\ Len(Append(s, e)) = Len(s) + 1
      /\ Append(s, e)[Len(s) + 1] = e /\ \A i \in 1..Len(s) : Append(s, e)[i] = s[i]
    OBVIOUS
<1>2. DOMAIN Append(s, e) = 1..Len(s) + 1 /\ DOMAIN s = 1..Len(s) /\ Len(s) \in Nat
    BY <1>1
<1> QED
    BY <1>1, <1>2 DEF Range

\* nextSeq is larger than every stored number.
LEMMA NextSeqIsNew ==
    ASSUME ChatTypes
    PROVE  NextSeq \in Nat /\ \A r \in stored : r.seq < NextSeq
<1> DEFINE S == {0} \cup {r.seq : r \in stored}
<1>1. PICK b \in Nat : \A r \in stored : r.seq <= b
    BY Zenon DEF ChatTypes
<1>2. S \subseteq Nat /\ S # {} /\ (\A y \in S : y <= b) /\ \A r \in stored : r.seq \in S
    BY <1>1 DEF ChatTypes, AnyRecord
<1> HIDE DEF S
<1>3. Max(S) \in Nat /\ \A y \in S : y <= Max(S)
    BY Zenon, <1>2, MaxOfBounded
<1>4. NextSeq = 1 + Max(S)
    BY Zenon DEF NextSeq, S
<1>5. ASSUME NEW r \in stored PROVE r.seq < 1 + Max(S)
  <2>1. r.seq \in Nat /\ r.seq <= Max(S)
    BY Zenon, <1>2, <1>3
  <2> QED
    BY <1>3, <2>1
<1> QED
    BY <1>3, <1>4, <1>5

\* A request that only moves on, without touching the events, keeps the
\* numbers, and the trace if it moves past the flush with nothing under way.
LEMMA MovesKeep ==
    ASSUME ChatInv, NEW t \in Turns, NEW from, NEW to, Moves(t, from, to), UNCHANGED eventVars,
           to \in {"asked", "flush", "answer", "title", "done", "failed"},
           to = "asked" => from = "new",
           from # "done"
    PROVE  Numbered' /\ Answerable' /\ turn' \in [Turns -> {"new", "asked", "running", "flush",
               "answer", "title", "done", "failed"}]
<1>1. Numbered'
    BY Zenon DEF ChatInv, ChatTypes, Numbered, Moves, eventVars
<1>2. Answerable'
    BY Zenon DEF ChatInv, ChatTypes, Answerable, Moves, eventVars
<1> QED
    BY Zenon, <1>1, <1>2 DEF ChatInv, ChatTypes, Moves

\* Storing the question.
LEMMA AskKeeps == ASSUME ChatInv, NEW t \in Turns, Ask(t) PROVE ChatInv'
<1>1. PICK to \in {"asked", "failed"} : Moves(t, "new", to)
    BY Zenon DEF Ask, WriteFails
<1>2. Numbered' /\ Answerable' /\ turn' \in [Turns -> {"new", "asked", "running", "flush",
               "answer", "title", "done", "failed"}]
    BY Zenon, <1>1, MovesKeep DEF Ask
<1>3. messages' \in Seq(Turns \X {"user", "assistant"})
      /\ Range(messages') \subseteq Range(messages) \cup {<<t, "user">>}
  <2>1. CASE messages' = Append(messages, <<t, "user">>)
    <3>1. messages \in Seq(Turns \X {"user", "assistant"}) /\ <<t, "user">> \in Turns \X {"user", "assistant"}
        BY Zenon DEF ChatInv, ChatTypes
    <3>2. ASSUME NEW M, messages \in Seq(M), NEW m \in M
          PROVE  Range(Append(messages, m)) = Range(messages) \cup {m}
        BY <3>2, RangeAppend
    <3>3. Range(Append(messages, <<t, "user">>)) = Range(messages) \cup {<<t, "user">>}
        BY Zenon, <3>1, <3>2
    <3> QED
        BY <2>1, <3>1, <3>3
  <2>2. CASE messages' = messages
    BY Zenon, <2>2 DEF ChatInv, ChatTypes
  <2>3. messages' = Append(messages, <<t, "user">>) \/ messages' = messages
    BY Zenon DEF Ask, WriteFails
  <2> QED
    BY Zenon, <2>1, <2>2, <2>3
<1>4. ChatTypes'
    BY Zenon, <1>2, <1>3 DEF ChatInv, ChatTypes, Ask, eventVars
<1>5. Flushed'
    BY Zenon, <1>1, <1>3 DEF ChatInv, ChatTypes, Flushed, Ask, Moves, eventVars
<1> QED
    BY Zenon, <1>2, <1>4, <1>5 DEF ChatInv

\* Reading the session's next number.
LEMMA ReadSeqKeeps == ASSUME ChatInv, NEW t \in Turns, ReadSeq(t) PROVE ChatInv'
<1>1. NextSeq \in Nat /\ \A r \in stored : r.seq < NextSeq
    BY Zenon, NextSeqIsNew DEF ChatInv
<1>2. /\ turn[t] = "asked" /\ turn' = [turn EXCEPT ![t] = "running"]
      /\ seq' = [seq EXCEPT ![t] = NextSeq]
      /\ after' = [after EXCEPT ![t] = {u \in Turns : turn[u] = "done"}]
      /\ UNCHANGED <<emitted, appending, stored, messages>>
      /\ emitted[t] = 0
    BY Zenon DEF ReadSeq, Moves, ChatInv, Numbered
<1>3. ChatTypes'
    BY Zenon, <1>1, <1>2 DEF ChatInv, ChatTypes
<1>4. \A r \in stored \cup appending : r.turn # t /\ r.turn \in Turns
    BY <1>2 DEF ChatInv, ChatTypes, Numbered, AnyRecord
<1>5. Numbered'
    BY Zenon, <1>2, <1>4 DEF ChatInv, ChatTypes, Numbered
<1>6. Answerable'
    BY <1>1, <1>2 DEF ChatInv, ChatTypes, Answerable, AnyRecord
<1>7. Flushed'
    BY Zenon, <1>2 DEF ChatInv, ChatTypes, Flushed
<1> QED
    BY Zenon, <1>3, <1>5, <1>6, <1>7 DEF ChatInv

\* Emitting an event.
LEMMA EmitKeeps == ASSUME ChatInv, NEW t \in Turns, EmitEvent(t) PROVE ChatInv'
<1> DEFINE e == [turn |-> t, n |-> emitted[t] + 1, seq |-> seq[t]]
<1>1. /\ turn[t] = "running" /\ turn' = turn /\ after' = after /\ messages' = messages
      /\ seq' = [seq EXCEPT ![t] = seq[t] + 1]
      /\ emitted' = [emitted EXCEPT ![t] = emitted[t] + 1]
      /\ appending' = appending \cup {e} /\ stored' = stored
    BY Zenon DEF EmitEvent
<1>2. e \in AnyRecord /\ e.turn = t /\ e.n = emitted[t] + 1 /\ e.seq = seq[t]
    BY DEF AnyRecord, ChatInv, ChatTypes
<1> HIDE DEF e
<1>3. ChatTypes'
  <2>1. seq' \in [Turns -> Nat] /\ emitted' \in [Turns -> Nat]
    BY <1>1 DEF ChatInv, ChatTypes
  <2>2. appending' \subseteq AnyRecord
    BY Zenon, <1>1, <1>2 DEF ChatInv, ChatTypes
  <2> QED
    BY Zenon, <1>1, <2>1, <2>2 DEF ChatInv, ChatTypes
<1>4. Numbered'
  <2>1. ASSUME NEW r \in stored \cup appending
        PROVE  /\ r.n <= emitted'[r.turn]
               /\ r.seq + emitted'[r.turn] + 1 = seq'[r.turn] + r.n
    <3>1. /\ r.turn \in Turns /\ r.n \in Nat /\ r.seq \in Nat /\ r.n <= emitted[r.turn]
          /\ r.seq + emitted[r.turn] + 1 = seq[r.turn] + r.n
          /\ seq \in [Turns -> Nat] /\ emitted \in [Turns -> Nat]
        BY Zenon DEF ChatInv, ChatTypes, Numbered, AnyRecord
    <3> QED
        BY <1>1, <3>1
  <2>2. e.n <= emitted'[e.turn] /\ e.seq + emitted'[e.turn] + 1 = seq'[e.turn] + e.n
    <3>1. emitted'[t] = emitted[t] + 1 /\ seq'[t] = seq[t] + 1 /\ emitted[t] \in Nat /\ seq[t] \in Nat
        BY Zenon, <1>1 DEF ChatInv, ChatTypes
    <3> QED
        BY <1>2, <3>1
  <2>3. \A u \in Turns : turn'[u] \in {"new", "asked"} => emitted'[u] = 0
    BY Zenon, <1>1 DEF ChatInv, ChatTypes, Numbered
  <2> QED
    BY Zenon, <1>1, <2>1, <2>2, <2>3 DEF Numbered
<1>5. Answerable'
    BY SMTT(20), <1>1, <1>2 DEF ChatInv, ChatTypes, Answerable, AnyRecord
<1>6. Flushed'
    BY Zenon, <1>1, <1>2 DEF ChatInv, ChatTypes, Flushed
<1> QED
    BY <1>3, <1>4, <1>5, <1>6 DEF ChatInv

\* An append that ends: none is under way for a turn that is done.
LEMMA AppendKeeps == ASSUME ChatInv, NEW r \in appending, AppendEnds(r) PROVE ChatInv'
<1>1. /\ appending' = appending \ {r} /\ stored' \in {stored, stored \cup {r}}
      /\ UNCHANGED <<turn, seq, emitted, after, messages>>
    BY Zenon DEF AppendEnds
<1>2. ChatTypes'
  <2>1. \E b \in Nat : \A q \in stored' : q.seq <= b
    <3>1. PICK b \in Nat : \A q \in stored : q.seq <= b
        BY Zenon DEF ChatInv, ChatTypes
    <3>2. r.seq \in Nat /\ b + r.seq \in Nat /\ \A q \in stored : q.seq \in Nat
        BY DEF ChatInv, ChatTypes, AnyRecord
    <3>3. \A q \in stored' : q.seq <= b + r.seq
        BY <1>1, <3>1, <3>2
    <3> QED
        BY Zenon, <3>2, <3>3
  <2> QED
    BY Zenon, <1>1, <2>1 DEF ChatInv, ChatTypes
<1>3. Numbered'
    BY Zenon, <1>1 DEF ChatInv, ChatTypes, Numbered
<1>4. Answerable'
    BY Zenon, <1>1 DEF ChatInv, ChatTypes, Answerable, Flushed, AnyRecord
<1>5. Flushed'
    BY Zenon, <1>1 DEF ChatInv, Flushed
<1> QED
    BY Zenon, <1>2, <1>3, <1>4, <1>5 DEF ChatInv

\* The run ends, the appends are waited for, the title is set.
LEMMA EndsKeep ==
    ASSUME ChatInv, NEW t \in Turns, AgentEnds(t) \/ Flush(t) \/ SetTitle(t)
    PROVE  ChatInv'
<1>1. PICK from \in {"running", "flush", "title"}, to \in {"flush", "failed", "answer", "done"} :
         /\ Moves(t, from, to)
         /\ to = "answer" => from = "flush" /\ \A r \in appending : r.turn # t
         /\ to = "done" => from = "title"
         /\ to \in {"flush", "failed"} => from = "running"
    BY Zenon DEF AgentEnds, Flush, SetTitle
<1>2. UNCHANGED eventVars /\ UNCHANGED messages
    BY Zenon DEF AgentEnds, Flush, SetTitle
<1>3. Numbered' /\ Answerable' /\ turn' \in [Turns -> {"new", "asked", "running", "flush",
               "answer", "title", "done", "failed"}]
    BY Zenon, <1>1, <1>2, MovesKeep
<1>4. ChatTypes'
    BY Zenon, <1>2, <1>3 DEF ChatInv, ChatTypes, eventVars
<1>5. Flushed'
  <2>1. ASSUME NEW u \in Turns, u # t
        PROVE  turn'[u] = turn[u]
    BY Zenon, <1>1, <2>1 DEF ChatInv, ChatTypes, Moves
  <2>2. turn[t] = from /\ turn'[t] = to
    BY Zenon, <1>1 DEF ChatInv, ChatTypes, Moves
  <2>3. appending' = appending /\ messages' = messages
    BY Zenon, <1>2 DEF eventVars
  <2>4. ASSUME NEW u \in Turns
        PROVE  /\ turn'[u] \in {"answer", "title", "done"} => \A r \in appending : r.turn # u
               /\ <<u, "assistant">> \in Range(messages) => turn'[u] \in {"title", "done"}
    <3>1. /\ turn[u] \in {"answer", "title", "done"} => \A r \in appending : r.turn # u
          /\ <<u, "assistant">> \in Range(messages) => turn[u] \in {"title", "done"}
        BY Zenon DEF ChatInv, Flushed
    <3>2. CASE u # t
        BY Zenon, <2>1, <3>1, <3>2
    <3>3. CASE u = t
        BY Zenon, <1>1, <2>2, <3>1, <3>3
    <3> QED
        BY Zenon, <3>2, <3>3
  <2> QED
    BY Zenon, <2>3, <2>4 DEF Flushed
<1> QED
    BY Zenon, <1>3, <1>4, <1>5 DEF ChatInv

\* Storing the answer.
LEMMA AnswerKeeps == ASSUME ChatInv, NEW t \in Turns, AnswerMessage(t) PROVE ChatInv'
<1>1. PICK to \in {"title", "failed"} : Moves(t, "answer", to)
         /\ messages' = IF to = "title" THEN Append(messages, <<t, "assistant">>) ELSE messages
    BY Zenon DEF AnswerMessage, WriteFails
<1>2. Numbered' /\ Answerable' /\ turn' \in [Turns -> {"new", "asked", "running", "flush",
               "answer", "title", "done", "failed"}]
    BY Zenon, <1>1, MovesKeep DEF AnswerMessage
<1>3. /\ messages' \in Seq(Turns \X {"user", "assistant"})
      /\ Range(messages') \subseteq Range(messages) \cup {<<t, "assistant">>}
      /\ to = "failed" => Range(messages') = Range(messages)
  <2>1. CASE messages' = Append(messages, <<t, "assistant">>) /\ to = "title"
    <3>1. /\ messages \in Seq(Turns \X {"user", "assistant"})
          /\ <<t, "assistant">> \in Turns \X {"user", "assistant"}
        BY Zenon DEF ChatInv, ChatTypes
    <3>2. ASSUME NEW M, messages \in Seq(M), NEW m \in M
          PROVE  Range(Append(messages, m)) = Range(messages) \cup {m}
        BY <3>2, RangeAppend
    <3>3. Range(Append(messages, <<t, "assistant">>)) = Range(messages) \cup {<<t, "assistant">>}
        BY Zenon, <3>1, <3>2
    <3> QED
        BY <2>1, <3>1, <3>3
  <2>2. CASE messages' = messages
    BY Zenon, <2>2 DEF ChatInv, ChatTypes
  <2> QED
    BY Zenon, <1>1, <2>1, <2>2
<1>6. UNCHANGED <<seq, emitted, after, appending, stored>>
    BY Zenon DEF AnswerMessage, eventVars
<1>4. ChatTypes'
    BY Zenon, <1>2, <1>3, <1>6 DEF ChatInv, ChatTypes
<1>5. Flushed'
  <2>1. ASSUME NEW u \in Turns, u # t
        PROVE  turn'[u] = turn[u] /\ <<u, "assistant">> # <<t, "assistant">>
    BY Zenon, <1>1, <2>1 DEF ChatInv, ChatTypes, Moves
  <2>2. turn[t] = "answer" /\ turn'[t] = to
    BY Zenon, <1>1 DEF ChatInv, ChatTypes, Moves
  <2>3. ASSUME NEW u \in Turns
        PROVE  /\ turn'[u] \in {"answer", "title", "done"} => \A r \in appending : r.turn # u
               /\ <<u, "assistant">> \in Range(messages') => turn'[u] \in {"title", "done"}
    <3>1. /\ turn[u] \in {"answer", "title", "done"} => \A r \in appending : r.turn # u
          /\ <<u, "assistant">> \in Range(messages) => turn[u] \in {"title", "done"}
        BY Zenon DEF ChatInv, Flushed
    <3>2. CASE u # t
        BY Zenon, <1>3, <2>1, <3>1, <3>2
    <3>3. CASE u = t
        BY Zenon, <1>3, <2>2, <3>1, <3>3
    <3> QED
        BY Zenon, <3>2, <3>3
  <2> QED
    BY Zenon, <1>6, <2>3 DEF Flushed
<1> QED
    BY Zenon, <1>2, <1>4, <1>5 DEF ChatInv

\* Every step of the session keeps the invariant.
LEMMA ChatInvStep == ChatInv /\ [ChatNext]_chatVars => ChatInv'
<1> SUFFICES ASSUME ChatInv, [ChatNext]_chatVars PROVE ChatInv'
    OBVIOUS
<1>1. CASE AppendMoves
    BY Zenon, <1>1, AppendKeeps DEF AppendMoves
<1>2. ASSUME NEW t \in Turns, Ask(t) \/ TurnMoves(t) PROVE ChatInv'
    BY Zenon, <1>2, AskKeeps, ReadSeqKeeps, EmitKeeps, EndsKeep, AnswerKeeps DEF TurnMoves
<1>3. CASE UNCHANGED chatVars
    BY Zenon, <1>3 DEF chatVars, ChatInv, ChatTypes, Numbered, Answerable, Flushed
<1> QED
    BY Zenon, <1>1, <1>2, <1>3 DEF ChatNext

\* The inductive invariant of a session holds throughout.
LEMMA ChatInvHolds == ChatSpec => []ChatInv
    BY ChatInvInit, ChatInvStep, PTL DEF ChatSpec

\* The stored numbers replay every turn in the order it was seen, and after
\* the turns that had been answered before it began, whatever appends were lost
\* and in which order the others landed.
THEOREM ReplayKeepsOrder == ChatSpec => []ReplayOrder
<1>1. ChatInv => ReplayOrder
  <2>0. SUFFICES ASSUME ChatInv, NEW e \in stored, NEW f \in stored,
                        IF e.turn = f.turn THEN e.n < f.n ELSE e.turn \in after[f.turn]
                 PROVE  e.seq < f.seq
    BY Zenon DEF ReplayOrder
  <2> DEFINE em == emitted[f.turn]
             sq == seq[f.turn]
  <2>1. /\ e.turn \in Turns /\ e.n \in Nat \ {0} /\ e.seq \in Nat
        /\ f.turn \in Turns /\ f.n \in Nat \ {0} /\ f.seq \in Nat
        /\ em \in Nat /\ sq \in Nat /\ f.seq + em + 1 = sq + f.n
    BY Zenon, <2>0 DEF ChatInv, ChatTypes, AnyRecord, Numbered
  <2>2. CASE e.turn = f.turn
    <3>1. e.seq + em + 1 = sq + e.n /\ e.n < f.n
        BY Zenon, <2>0, <2>1, <2>2 DEF ChatInv, Numbered
    <3> HIDE DEF em, sq
    <3> QED
        BY <2>1, <3>1
  <2>3. CASE e.turn \in after[f.turn]
    <3>1. e.seq + em < sq
        BY Zenon, <2>0, <2>1, <2>3 DEF ChatInv, Answerable
    <3> HIDE DEF em, sq
    <3> QED
        BY <2>1, <3>1
  <2> QED
    BY Zenon, <2>0, <2>2, <2>3
<1> QED
    BY <1>1, ChatInvHolds, PTL

\* Once the answer of a turn is stored, no append of the turn is under way.
THEOREM TraceIsFirst == ChatSpec => []TraceBeforeAnswer
<1>1. ChatInv => TraceBeforeAnswer
    BY Zenon DEF ChatInv, Flushed, TraceBeforeAnswer
<1> QED
    BY <1>1, ChatInvHolds, PTL
=============================================================================
