----------------------------- MODULE AuthProofs -----------------------------
(***************************************************************************)
(* Proofs about AuthService: lockouts and replays are explained by the log  *)
(* of calls, for any fingerprints, challenges, limits and clock.            *)
(***************************************************************************)
EXTENDS AuthService, FiniteSetTheorems, TLAPS

\* A challenge that was answered with success, and not purged since.
Spent(n) == \E j \in Calls : /\ log[j].result = "ok" /\ log[j].nonce = n
                             /\ \A m \in j .. Len(log) : log[m] # Purged

\* Refusals of key k since its last success.
RefusalsOf(k) ==
    {j \in Calls : /\ KeyAt(j) = k
                   /\ \A m \in Calls : m >= j /\ KeyAt(m) = k => log[m].result # "ok"}

LogType == log \in Seq(Entry \cup {Purged})

\* The two maps of the service say of the log what the next call will need.
AuthInv == /\ LogType
           /\ attempts \in [Key -> Nat]
           /\ \A n \in Nonce : n \in used <=> Spent(n)
           /\ \A k \in Key : /\ IsFiniteSet(RefusalsOf(k))
                             /\ attempts[k] = Cardinality(RefusalsOf(k))
           /\ LockedAfterRefusals
           /\ ReplayIffSpent

\* The initial states satisfy the invariant.
LEMMA InitInv == Init => AuthInv
<1> SUFFICES ASSUME Init PROVE AuthInv
  OBVIOUS
<1>1. log = <<>> /\ DOMAIN log = {} /\ Len(log) = 0
  BY DEF Init
<1>2. LogType /\ Calls = {}
  BY <1>1 DEF LogType, Calls
<1>3. \A n \in Nonce : ~ Spent(n)
  BY <1>2 DEF Spent
<1>4. \A k \in Key : RefusalsOf(k) = {}
  BY <1>2 DEF RefusalsOf
<1>5. LockedAfterRefusals /\ ReplayIffSpent
  BY <1>2 DEF LockedAfterRefusals, ReplayIffSpent
<1>6. attempts \in [Key -> Nat] /\ \A k \in Key : attempts[k] = 0
  BY DEF Init
<1>7. used = {}
  BY DEF Init
<1> QED BY <1>2, <1>3, <1>4, <1>5, <1>6, <1>7, FS_EmptySet DEF AuthInv

\* What one more entry changes: nothing of the calls before it.
LEMMA Appended ==
    ASSUME LogType, NEW e \in Entry \cup {Purged}, log' = Append(log, e)
    PROVE  /\ LogType'
           /\ Len(log) \in Nat /\ Len(log)' = Len(log) + 1
           /\ log'[Len(log) + 1] = e
           /\ \A i \in 1 .. Len(log) : log'[i] = log[i]
           /\ Calls \subseteq 1 .. Len(log)
           /\ Calls' = IF e = Purged THEN Calls ELSE Calls \cup {Len(log) + 1}
           /\ \A i \in Calls : log[i] \in Entry
<1>1. /\ Len(log) \in Nat /\ DOMAIN log = 1 .. Len(log)
      /\ \A i \in 1 .. Len(log) : log[i] \in Entry \cup {Purged}
  BY DEF LogType
<1>2. /\ LogType' /\ Len(log)' = Len(log) + 1 /\ DOMAIN log' = 1 .. Len(log) + 1
      /\ log'[Len(log) + 1] = e
      /\ \A i \in 1 .. Len(log) : log'[i] = log[i]
  BY <1>1 DEF LogType
<1>3. Calls' = IF e = Purged THEN Calls ELSE Calls \cup {Len(log) + 1}
  BY <1>1, <1>2 DEF Calls
<1> QED BY <1>1, <1>2, <1>3 DEF Calls

\* The sets that explain an earlier call do not change.
LEMMA Before ==
    ASSUME LogType, NEW e \in Entry \cup {Purged}, log' = Append(log, e), NEW i \in Calls
    PROVE  /\ KeyAt(i)' = KeyAt(i) /\ log'[i] = log[i]
           /\ RefusalsBefore(i)' = RefusalsBefore(i)
           /\ SpentBefore(i)' <=> SpentBefore(i)
<1>1. /\ Len(log) \in Nat /\ i \in 1 .. Len(log) /\ Calls \subseteq 1 .. Len(log)
      /\ \A j \in 1 .. Len(log) : log'[j] = log[j] /\ KeyAt(j)' = KeyAt(j)
      /\ \A j \in Calls' : j \in Calls \/ j = Len(log) + 1
      /\ Calls \subseteq Calls'
  BY Appended DEF KeyAt
<1>2. /\ \A j \in Calls' : j < i => j \in Calls
      /\ \A j \in Calls : j \in Calls'
  <2>1. ~ (Len(log) + 1 < i)
    BY <1>1
  <2> QED BY <1>1, <2>1
<1>3. RefusalsBefore(i)' = RefusalsBefore(i)
  <2>1. ASSUME NEW j \in Calls, j < i
        PROVE  (\A m \in Calls : m \in j .. i - 1 /\ KeyAt(m) = KeyAt(i)
                                    => log[m].result # "ok")
               <=> (\A m \in Calls' : m \in j .. i - 1 /\ KeyAt(m)' = KeyAt(i)'
                                    => log'[m].result # "ok")
    <3>1. \A m : m \in Calls /\ m \in j .. i - 1 <=> m \in Calls' /\ m \in j .. i - 1
      BY <1>1
    <3>2. \A m \in Calls : m \in j .. i - 1 => log'[m] = log[m] /\ KeyAt(m)' = KeyAt(m)
      BY <1>1
    <3> QED BY <1>1, <3>1, <3>2
  <2>2. \A j \in Calls : j < i => (KeyAt(j) = KeyAt(i) <=> KeyAt(j)' = KeyAt(i)')
    BY <1>1
  <2> QED BY <1>2, <2>1, <2>2 DEF RefusalsBefore
<1>4. SpentBefore(i)' <=> SpentBefore(i)
  <2>1. \A j \in Calls : j < i =>
           /\ log'[j] = log[j] /\ log'[i] = log[i]
           /\ (\A m \in j .. i : log[m] # Purged) <=> (\A m \in j .. i : log'[m] # Purged)
    BY <1>1
  <2>2. Purged' = Purged
    BY DEF Purged
  <2> QED BY <1>2, <2>1, <2>2 DEF SpentBefore
<1> QED BY <1>1, <1>3, <1>4

\* What the service reads when it decides a call is what the log of the calls
\* before says: the new call has just those refusals behind it, and just that
\* success.
LEMMA NewCall ==
    ASSUME LogType, NEW e \in Entry, log' = Append(log, e), NEW i, i = Len(log) + 1
    PROVE  /\ i \in Calls' /\ log'[i] = e /\ KeyAt(i)' = Short[e.fp]
           /\ RefusalsBefore(i)' = RefusalsOf(Short[e.fp])
           /\ SpentBefore(i)' <=> Spent(e.nonce)
<1> DEFINE k == Short[e.fp]
<1>1. e # Purged
  BY DEF Entry, Results, Purged
<1>2. /\ Len(log) \in Nat /\ i = Len(log) + 1 /\ log'[i] = e /\ Calls \subseteq 1 .. Len(log)
      /\ \A j \in 1 .. Len(log) : log'[j] = log[j] /\ KeyAt(j)' = KeyAt(j)
      /\ Calls' = Calls \cup {i}
  BY <1>1, Appended DEF KeyAt
<1>3. KeyAt(i)' = k
  BY <1>2 DEF KeyAt
<1>4. RefusalsBefore(i)' = RefusalsOf(k)
  <2>1. \A j \in Calls' : j < i <=> j \in Calls
    BY <1>2
  <2>2. ASSUME NEW j \in Calls
        PROVE  (\A m \in Calls' : m \in j .. i - 1 /\ KeyAt(m)' = KeyAt(i)'
                                     => log'[m].result # "ok")
               <=> (\A m \in Calls : m >= j /\ KeyAt(m) = k => log[m].result # "ok")
    <3>1. \A m : m \in Calls' /\ m \in j .. i - 1 <=> m \in Calls /\ m >= j
      BY <1>2
    <3>2. \A m \in Calls : log'[m] = log[m] /\ KeyAt(m)' = KeyAt(m)
      BY <1>2
    <3> QED BY <1>3, <3>1, <3>2
  <2>3. \A j \in Calls : KeyAt(j)' = KeyAt(j) /\ j \in Calls'
    BY <1>2
  <2> QED BY <1>3, <2>1, <2>2, <2>3 DEF RefusalsBefore, RefusalsOf
<1>5. SpentBefore(i)' <=> Spent(e.nonce)
  <2>1. \A j \in Calls' : j < i <=> j \in Calls
    BY <1>2
  <2>2. ASSUME NEW j \in Calls
        PROVE  (\A m \in j .. i : log'[m] # Purged) <=> (\A m \in j .. Len(log) : log[m] # Purged)
    <3>1. j \in 1 .. Len(log)
      BY <1>2
    <3>2. \A m : m \in j .. i <=> m \in j .. Len(log) \/ m = i
      BY <1>2, <3>1
    <3>3. \A m \in j .. Len(log) : log'[m] = log[m]
      BY <1>2, <3>1
    <3> QED BY <1>1, <1>2, <3>2, <3>3
  <2>3. \A j \in Calls : log'[j] = log[j] /\ j \in Calls'
    BY <1>2
  <2>4. Purged' = Purged
    BY DEF Purged
  <2> QED BY <1>2, <2>1, <2>2, <2>3, <2>4 DEF SpentBefore, Spent
<1> QED BY <1>2, <1>3, <1>4, <1>5

\* What a call adds to the log's account: a refusal of its key, or the end of
\* the refusals and the challenge spent.
LEMMA AfterCall ==
    ASSUME LogType, NEW e \in Entry, log' = Append(log, e), NEW i, i = Len(log) + 1
    PROVE  /\ i \notin Calls
           /\ \A k : RefusalsOf(k)' = IF k # Short[e.fp] THEN RefusalsOf(k)
                                      ELSE IF e.result = "ok" THEN {}
                                      ELSE RefusalsOf(k) \cup {i}
           /\ \A n : Spent(n)' <=> Spent(n) \/ (e.result = "ok" /\ e.nonce = n)
<1>1. e # Purged /\ Purged' = Purged
  BY DEF Entry, Results, Purged
<1>2. /\ Len(log) \in Nat /\ i = Len(log) + 1 /\ log'[i] = e /\ Calls \subseteq 1 .. Len(log)
      /\ \A j \in 1 .. Len(log) : log'[j] = log[j] /\ KeyAt(j)' = KeyAt(j)
      /\ Calls' = Calls \cup {i} /\ Len(log)' = i
  BY <1>1, Appended DEF KeyAt
<1>3. KeyAt(i)' = Short[e.fp] /\ i \notin Calls
  BY <1>2 DEF KeyAt
<1>4. \A j \in Calls : i >= j /\ log'[j] = log[j] /\ KeyAt(j)' = KeyAt(j)
  BY <1>2
<1>5. \A j \in Calls : ~ (j >= i)
  BY <1>2
<1>6. ASSUME NEW k
      PROVE  RefusalsOf(k)' = IF k # Short[e.fp] THEN RefusalsOf(k)
                              ELSE IF e.result = "ok" THEN {}
                              ELSE RefusalsOf(k) \cup {i}
  <2>1. ASSUME NEW j \in Calls
        PROVE  j \in RefusalsOf(k)'
               <=> j \in RefusalsOf(k) /\ (k = Short[e.fp] => e.result # "ok")
    <3>1. (\A m \in Calls' : m >= j /\ KeyAt(m)' = k => log'[m].result # "ok")
          <=> /\ \A m \in Calls : m >= j /\ KeyAt(m)' = k => log'[m].result # "ok"
              /\ KeyAt(i)' = k => log'[i].result # "ok"
      BY <1>2, <1>4
    <3>2. (\A m \in Calls : m >= j /\ KeyAt(m)' = k => log'[m].result # "ok")
          <=> (\A m \in Calls : m >= j /\ KeyAt(m) = k => log[m].result # "ok")
      BY <1>4
    <3>3. j \in RefusalsOf(k)'
          <=> /\ KeyAt(j)' = k
              /\ \A m \in Calls' : m >= j /\ KeyAt(m)' = k => log'[m].result # "ok"
      BY <1>2 DEF RefusalsOf
    <3>4. j \in RefusalsOf(k)
          <=> /\ KeyAt(j) = k
              /\ \A m \in Calls : m >= j /\ KeyAt(m) = k => log[m].result # "ok"
      BY DEF RefusalsOf
    <3> QED BY <1>2, <1>3, <1>4, <3>1, <3>2, <3>3, <3>4
  <2>2. i \in RefusalsOf(k)' <=> k = Short[e.fp] /\ e.result # "ok"
    <3>1. i \in RefusalsOf(k)'
          <=> /\ KeyAt(i)' = k
              /\ \A m \in Calls' : m >= i /\ KeyAt(m)' = k => log'[m].result # "ok"
      BY <1>2 DEF RefusalsOf
    <3>2. \A m \in Calls' : m >= i <=> m = i
      BY <1>2, <1>5
    <3> QED BY <1>2, <1>3, <3>1, <3>2
  <2>3. RefusalsOf(k) \subseteq Calls /\ RefusalsOf(k)' \subseteq Calls \cup {i}
    BY <1>2 DEF RefusalsOf
  <2>4. CASE k # Short[e.fp]
    <3>1. \A j \in Calls \cup {i} : j \in RefusalsOf(k)' <=> j \in RefusalsOf(k)
      BY <1>3, <2>1, <2>2, <2>3, <2>4
    <3>2. RefusalsOf(k)' = RefusalsOf(k)
      BY <2>3, <3>1
    <3> QED BY <2>4, <3>2
  <2>5. CASE k = Short[e.fp] /\ e.result = "ok"
    BY <1>3, <2>1, <2>2, <2>3, <2>5
  <2>6. CASE k = Short[e.fp] /\ e.result # "ok"
    BY <1>3, <2>1, <2>2, <2>3, <2>6
  <2> QED BY <2>4, <2>5, <2>6
<1>7. ASSUME NEW n
      PROVE  Spent(n)' <=> Spent(n) \/ (e.result = "ok" /\ e.nonce = n)
  <2>1. ASSUME NEW j \in Calls
        PROVE  (\A m \in j .. i : log'[m] # Purged) <=> (\A m \in j .. Len(log) : log[m] # Purged)
    <3>1. j \in 1 .. Len(log)
      BY <1>2
    <3>2. \A m : m \in j .. i <=> m \in j .. Len(log) \/ m = i
      BY <1>2, <3>1
    <3>3. \A m \in j .. Len(log) : log'[m] = log[m]
      BY <1>2, <3>1
    <3> QED BY <1>1, <1>2, <3>2, <3>3
  <2>2. \A m \in i .. i : log'[m] # Purged
    BY <1>1, <1>2
  <2> QED BY <1>1, <1>2, <1>4, <2>1, <2>2 DEF Spent
<1> QED BY <1>3, <1>6, <1>7

\* A purge forgets the successes and no refusal.
LEMMA AfterPurge ==
    ASSUME LogType, log' = Append(log, Purged)
    PROVE  /\ \A k : RefusalsOf(k)' = RefusalsOf(k)
           /\ \A n : ~ Spent(n)'
<1>1. /\ Len(log) \in Nat /\ Len(log)' = Len(log) + 1 /\ log'[Len(log) + 1] = Purged
      /\ Calls \subseteq 1 .. Len(log) /\ Calls' = Calls /\ Purged' = Purged
      /\ \A j \in 1 .. Len(log) : log'[j] = log[j] /\ KeyAt(j)' = KeyAt(j)
  BY Appended DEF KeyAt, Purged
<1>2. \A j \in Calls : log'[j] = log[j] /\ KeyAt(j)' = KeyAt(j)
  BY <1>1
<1>3. \A k : RefusalsOf(k)' = RefusalsOf(k)
  BY <1>1, <1>2 DEF RefusalsOf
<1>4. \A j \in Calls : Len(log) + 1 \in j .. Len(log) + 1
  BY <1>1
<1>5. \A n : ~ Spent(n)'
  BY <1>1, <1>4 DEF Spent
<1> QED BY <1>3, <1>5

\* Entries before the new one keep their explanation.
LEMMA EarlierKept ==
    ASSUME LogType, LockedAfterRefusals, ReplayIffSpent,
           NEW e \in Entry \cup {Purged}, log' = Append(log, e), NEW i \in Calls
    PROVE  /\ log'[i].result = "locked" <=> Cardinality(RefusalsBefore(i))' >= MaxAttempts
           /\ log'[i].result = "replay" => SpentBefore(i)'
           /\ log'[i].result \in {"ok", "stale", "unauthorized"} => ~ SpentBefore(i)'
<1>1. /\ log'[i] = log[i] /\ RefusalsBefore(i)' = RefusalsBefore(i)
      /\ SpentBefore(i)' <=> SpentBefore(i)
  BY Before
<1>2. Cardinality(RefusalsBefore(i))' = Cardinality(RefusalsBefore(i))
  BY <1>1
<1> QED BY <1>1, <1>2 DEF LockedAfterRefusals, ReplayIffSpent

\* verify_response keeps the invariant.
LEMMA VerifyInv ==
    ASSUME AuthInv, NEW n \in Nonce, NEW f \in Fp, NEW member \in BOOLEAN,
           VerifyResponse(n, f, member)
    PROVE  AuthInv'
<1> DEFINE key == Short[f]
           result == Outcome(n, f, member)
           e == [fp |-> f, nonce |-> n, result |-> result]
<1>1. /\ attempts' = [attempts EXCEPT ![key] = CountAfter(key, result)]
      /\ used' = UsedAfter(n, result)
      /\ log' = Append(log, e)
  BY DEF VerifyResponse
<1>2. key \in Key /\ MaxAttempts \in Nat /\ attempts[key] \in Nat
  BY AuthAssumption DEF AuthInv
<1>3. /\ result \in Results
      /\ result = "locked" <=> attempts[key] + 1 > MaxAttempts
      /\ result = "replay" => n \in used
      /\ result \in {"ok", "stale", "unauthorized"} => n \notin used
  BY DEF Outcome, Results
<1>4. e \in Entry /\ e.fp = f /\ e.nonce = n /\ e.result = result
  BY <1>3 DEF Entry
<1> HIDE DEF result, e, key
<1>5. LogType /\ LockedAfterRefusals /\ ReplayIffSpent
  BY DEF AuthInv
<1>6. LogType' /\ Calls' = Calls \cup {Len(log) + 1}
  <2>1. e # Purged
    BY <1>4 DEF Entry, Results, Purged
  <2> QED BY <1>1, <1>4, <1>5, <2>1, Appended
<1>7. attempts' \in [Key -> Nat]
  BY <1>1, <1>2 DEF AuthInv, CountAfter
<1>8. \A m \in Nonce : (m \in used <=> Spent(m)) /\ (m \in used' <=> Spent(m)')
  <2>1. \A m \in Nonce : Spent(m)' <=> Spent(m) \/ (result = "ok" /\ n = m)
    BY <1>1, <1>4, <1>5, AfterCall
  <2> QED BY <1>1, <2>1 DEF AuthInv, UsedAfter
<1>9. ASSUME NEW k \in Key
      PROVE  IsFiniteSet(RefusalsOf(k))' /\ attempts'[k] = Cardinality(RefusalsOf(k))'
  <2>1. PICK i : i = Len(log) + 1
    OBVIOUS
  <2>2. /\ i \notin RefusalsOf(k)
        /\ RefusalsOf(k)' = IF k # key THEN RefusalsOf(k)
                            ELSE IF result = "ok" THEN {}
                            ELSE RefusalsOf(k) \cup {i}
    <3>1. RefusalsOf(k) \subseteq Calls
      BY DEF RefusalsOf
    <3>2. /\ i \notin Calls
          /\ RefusalsOf(k)' = IF k # Short[e.fp] THEN RefusalsOf(k)
                              ELSE IF e.result = "ok" THEN {}
                              ELSE RefusalsOf(k) \cup {i}
      BY <1>1, <1>4, <1>5, <2>1, AfterCall
    <3> QED BY <1>4, <3>1, <3>2 DEF key
  <2>3. IsFiniteSet(RefusalsOf(k)) /\ attempts[k] = Cardinality(RefusalsOf(k))
    BY DEF AuthInv
  <2>4. attempts'[k] = IF k # key THEN attempts[k]
                       ELSE IF result = "ok" THEN 0 ELSE attempts[k] + 1
    BY <1>1, <1>2 DEF AuthInv, CountAfter
  <2>5. CASE k # key
    BY <2>2, <2>3, <2>4, <2>5
  <2>6. CASE k = key /\ result = "ok"
    <3>1. RefusalsOf(k)' = {} /\ attempts'[k] = 0
      BY <2>2, <2>4, <2>6
    <3> QED BY <3>1, FS_EmptySet
  <2>7. CASE k = key /\ result # "ok"
    <3>1. RefusalsOf(k)' = RefusalsOf(k) \cup {i} /\ attempts'[k] = attempts[k] + 1
      BY <2>2, <2>4, <2>7
    <3>2. /\ IsFiniteSet(RefusalsOf(k) \cup {i})
          /\ Cardinality(RefusalsOf(k) \cup {i}) = Cardinality(RefusalsOf(k)) + 1
      BY <2>2, <2>3, FS_AddElement
    <3> QED BY <2>3, <3>1, <3>2
  <2> QED BY <2>5, <2>6, <2>7
<1>10. PICK i : i = Len(log) + 1
  OBVIOUS
<1>11. /\ log'[i].result = result
       /\ RefusalsBefore(i)' = RefusalsOf(key)
       /\ SpentBefore(i)' <=> Spent(n)
  BY <1>1, <1>4, <1>5, <1>10, NewCall DEF key
<1>12. LockedAfterRefusals'
  <2>1. ASSUME NEW j \in Calls
        PROVE  log'[j].result = "locked" <=> Cardinality(RefusalsBefore(j))' >= MaxAttempts
    BY <1>1, <1>4, <1>5, EarlierKept
  <2>2. log'[i].result = "locked" <=> Cardinality(RefusalsBefore(i))' >= MaxAttempts
    <3>1. Cardinality(RefusalsBefore(i))' = attempts[key]
      BY <1>2, <1>11 DEF AuthInv
    <3> QED BY <1>2, <1>3, <1>11, <3>1
  <2> QED BY <1>6, <1>10, <2>1, <2>2 DEF LockedAfterRefusals
<1>13. ReplayIffSpent'
  <2>1. ASSUME NEW j \in Calls
        PROVE  /\ log'[j].result = "replay" => SpentBefore(j)'
               /\ log'[j].result \in {"ok", "stale", "unauthorized"} => ~ SpentBefore(j)'
    BY <1>1, <1>4, <1>5, EarlierKept
  <2>2. /\ log'[i].result = "replay" => SpentBefore(i)'
        /\ log'[i].result \in {"ok", "stale", "unauthorized"} => ~ SpentBefore(i)'
    BY <1>3, <1>8, <1>11
  <2> QED BY <1>6, <1>10, <2>1, <2>2 DEF ReplayIffSpent
<1> QED BY <1>6, <1>7, <1>8, <1>9, <1>12, <1>13 DEF AuthInv

\* A purge keeps it.
LEMMA PurgeInv == AuthInv /\ PurgeOldNonces => AuthInv'
<1> SUFFICES ASSUME AuthInv, PurgeOldNonces PROVE AuthInv'
  OBVIOUS
<1>1. used' = {} /\ attempts' = attempts /\ log' = Append(log, Purged)
  BY DEF PurgeOldNonces
<1>2. LogType /\ LockedAfterRefusals /\ ReplayIffSpent
  BY DEF AuthInv
<1>3. LogType' /\ Calls' = Calls
  BY <1>1, <1>2, Appended
<1>4. \A n \in Nonce : n \in used' <=> Spent(n)'
  BY <1>1, <1>2, AfterPurge
<1>5. \A k \in Key : IsFiniteSet(RefusalsOf(k))' /\ attempts'[k] = Cardinality(RefusalsOf(k))'
  <2>1. \A k : RefusalsOf(k)' = RefusalsOf(k)
    BY <1>1, <1>2, AfterPurge
  <2> QED BY <1>1, <2>1 DEF AuthInv
<1>6. \A j \in Calls :
          /\ log'[j].result = "locked" <=> Cardinality(RefusalsBefore(j))' >= MaxAttempts
          /\ log'[j].result = "replay" => SpentBefore(j)'
          /\ log'[j].result \in {"ok", "stale", "unauthorized"} => ~ SpentBefore(j)'
  BY <1>1, <1>2, EarlierKept
<1> QED BY <1>1, <1>3, <1>4, <1>5, <1>6 DEF AuthInv, LockedAfterRefusals, ReplayIffSpent

\* Every step keeps it.
LEMMA NextInv == AuthInv /\ [Next]_vars => AuthInv'
<1> SUFFICES ASSUME AuthInv, [Next]_vars PROVE AuthInv'
  OBVIOUS
<1>1. CASE UNCHANGED <<used, attempts, log>>
  <2>1. /\ LogType' <=> LogType
        /\ Calls' = Calls /\ \A i : KeyAt(i)' = KeyAt(i) /\ log'[i] = log[i]
    BY <1>1 DEF LogType, Calls, KeyAt, Purged
  <2>2. /\ \A n : Spent(n)' <=> Spent(n)
        /\ \A i : SpentBefore(i)' <=> SpentBefore(i)
    BY <1>1, <2>1 DEF Spent, SpentBefore, Purged
  <2>3. /\ \A k : RefusalsOf(k)' = RefusalsOf(k)
        /\ \A i : RefusalsBefore(i)' = RefusalsBefore(i)
    BY <1>1, <2>1 DEF RefusalsOf, RefusalsBefore
  <2>4. LockedAfterRefusals' /\ ReplayIffSpent'
    BY <2>1, <2>2, <2>3 DEF AuthInv, LockedAfterRefusals, ReplayIffSpent
  <2>5. /\ \A n \in Nonce : n \in used' <=> Spent(n)'
        /\ \A k \in Key : /\ IsFiniteSet(RefusalsOf(k))'
                          /\ attempts'[k] = Cardinality(RefusalsOf(k))'
    BY <1>1, <2>2, <2>3 DEF AuthInv
  <2> QED BY <1>1, <2>1, <2>4, <2>5 DEF AuthInv
<1>2. CASE Clock
  BY <1>1, <1>2 DEF Clock
<1>3. CASE PurgeOldNonces
  BY <1>3, PurgeInv
<1>4. ASSUME NEW n \in Nonce, CreateChallenge(n) PROVE AuthInv'
  BY <1>1, <1>4 DEF CreateChallenge
<1>5. ASSUME NEW n \in Nonce, NEW f \in Fp, NEW member \in BOOLEAN, VerifyResponse(n, f, member)
      PROVE  AuthInv'
  BY <1>5, VerifyInv
<1>6. CASE UNCHANGED vars
  BY <1>1, <1>6 DEF vars
<1> QED BY <1>2, <1>3, <1>4, <1>5, <1>6 DEF Next

\* The invariant holds in every reachable state.
LEMMA AuthInvHolds == Spec => []AuthInv
  BY InitInv, NextInv, PTL DEF Spec

\* For any limit, clock, tolerance and mix of clients, a key is locked out
\* exactly after MaxAttempts refusals in a row: the counter that verify_response
\* keeps is the number of the key's refusals since its last success.
THEOREM LockoutExplained == Spec => []LockedAfterRefusals
<1>1. AuthInv => LockedAfterRefusals
  BY DEF AuthInv
<1> QED BY <1>1, AuthInvHolds, PTL

\* A response is refused as a replay exactly when its challenge was answered
\* with success and not purged since: used_nonces is the set of those challenges.
THEOREM ReplayExplained == Spec => []ReplayIffSpent
<1>1. AuthInv => ReplayIffSpent
  BY DEF AuthInv
<1> QED BY <1>1, AuthInvHolds, PTL

\* No counter is above the number of calls.
Counted == TypeOK /\ Len(log) <= MaxCalls /\ \A k \in Key : attempts[k] <= Len(log)

\* A verified response counts for its key at most once.
LEMMA VerifyCounted ==
    ASSUME Counted, NEW n \in Nonce, NEW f \in Fp, NEW member \in BOOLEAN,
           VerifyResponse(n, f, member)
    PROVE  Counted'
<1> DEFINE result == Outcome(n, f, member)
           e == [fp |-> f, nonce |-> n, result |-> result]
<1>1. /\ MaxCalls \in Nat /\ Short \in [Fp -> Key] /\ log \in Seq(Entry \cup {Purged})
      /\ attempts \in [Key -> 0 .. MaxCalls] /\ Len(log) \in Nat
  BY AuthAssumption DEF Counted, TypeOK
<1>2. e \in Entry
  BY DEF Outcome, Entry, Results
<1>3. /\ Len(log) < MaxCalls /\ log' = Append(log, e)
      /\ attempts' = [attempts EXCEPT ![Short[f]] = CountAfter(Short[f], result)]
      /\ used' = UsedAfter(n, result) /\ now' = now /\ issued' = issued
  BY DEF VerifyResponse
<1> HIDE DEF e
<1>4. log' \in Seq(Entry \cup {Purged}) /\ Len(log') = Len(log) + 1
  BY <1>1, <1>2, <1>3
<1>5. /\ Short[f] \in Key /\ attempts[Short[f]] \in Nat /\ attempts[Short[f]] <= Len(log)
      /\ CountAfter(Short[f], result) \in Nat /\ CountAfter(Short[f], result) <= Len(log) + 1
  BY <1>1 DEF CountAfter, Counted
<1>6. \A k \in Key : attempts'[k] \in 0 .. MaxCalls /\ attempts'[k] <= Len(log) + 1
  BY <1>1, <1>3, <1>5 DEF Counted
<1>7. attempts' \in [Key -> 0 .. MaxCalls]
  BY <1>1, <1>3, <1>5
<1>8. used' \subseteq Nonce
  BY <1>3 DEF UsedAfter, Counted, TypeOK
<1> QED BY <1>1, <1>3, <1>4, <1>6, <1>7, <1>8 DEF Counted, TypeOK

\* The service keeps the types of its variables, and no counter of attempts ever
\* exceeds the number of calls.
THEOREM AuthTypeCorrect == Spec => []TypeOK
<1>1. Init => Counted
  BY AuthAssumption DEF Init, Counted, TypeOK
<1>2. Counted /\ [Next]_vars => Counted'
  <2> SUFFICES ASSUME Counted, [Next]_vars PROVE Counted'
    OBVIOUS
  <2>1. CASE Clock
    BY <2>1 DEF Clock, Counted, TypeOK
  <2>2. CASE PurgeOldNonces
    <3>1. /\ log' = Append(log, Purged) /\ Len(log) < MaxCalls /\ used' = {}
          /\ UNCHANGED <<now, issued, attempts>>
      BY <2>2 DEF PurgeOldNonces
    <3>2. log' \in Seq(Entry \cup {Purged}) /\ Len(log') = Len(log) + 1 /\ Len(log) \in Nat
      BY <3>1 DEF Counted, TypeOK
    <3>3. \A k \in Key : attempts[k] \in Nat
      BY DEF Counted, TypeOK
    <3> QED BY <3>1, <3>2, <3>3, AuthAssumption DEF Counted, TypeOK
  <2>3. ASSUME NEW n \in Nonce, CreateChallenge(n) PROVE Counted'
    BY <2>3 DEF CreateChallenge, Counted, TypeOK
  <2>4. ASSUME NEW n \in Nonce, NEW f \in Fp, NEW member \in BOOLEAN,
               VerifyResponse(n, f, member)
        PROVE  Counted'
    BY <2>4, VerifyCounted
  <2>5. CASE UNCHANGED vars
    BY <2>5 DEF vars, Counted, TypeOK
  <2> QED BY <2>1, <2>2, <2>3, <2>4, <2>5 DEF Next
<1>3. Counted => TypeOK
  BY DEF Counted
<1> QED BY <1>1, <1>2, <1>3, PTL DEF Spec
=============================================================================
