---------------------------- MODULE AuthService ----------------------------
(***************************************************************************)
(* sanctum-app/auth_service.rs: challenges, single-use nonces and attempt  *)
(* counters of the host.  One service is shared by all connections, each   *)
(* of which creates its challenge and verifies the response in calls of    *)
(* its own, so calls of several clients mix in any order.                  *)
(***************************************************************************)
EXTENDS Naturals, Sequences, FiniteSets

CONSTANTS Fp,           \* fingerprints
          Key,          \* truncated fingerprints
          Short,        \* Fingerprint::short: first and last four digits
          Nonce,        \* bound: challenges created
          None,         \* a challenge not created yet
          MaxAttempts,  \* MAX_AUTH_ATTEMPTS: 3
          Tolerance,    \* TIMESTAMP_TOLERANCE_SECS: 120
          NonceCap,     \* nonces kept before a purge clears them: 10000
          Horizon,      \* bound: latest time
          MaxCalls      \* bound: calls recorded

ASSUME AuthAssumption ==
    /\ Short \in [Fp -> Key]
    /\ {MaxAttempts, Tolerance, NonceCap, Horizon, MaxCalls} \subseteq Nat

VARIABLES now,        \* SystemTime::now, which may be set back
          issued,     \* timestamp of each challenge created
          used,       \* used_nonces
          attempts,   \* attempt_counts; 0 where there is no entry
          log         \* history: outcomes of verify_response, and purges

vars == <<now, issued, used, attempts, log>>

Results == {"ok", "locked", "replay", "stale", "unauthorized"}
Entry == [fp : Fp, nonce : Nonce, result : Results]
Purged == [result |-> "purged"]

Init == /\ now = 0
        /\ issued = [n \in Nonce |-> None]
        /\ used = {}
        /\ attempts = [k \in Key |-> 0]
        /\ log = <<>>

Clock == \E t \in 0 .. Horizon : /\ now' = t
                                 /\ UNCHANGED <<issued, used, attempts, log>>

CreateChallenge(n) ==
    /\ issued[n] = None
    /\ issued' = [issued EXCEPT ![n] = now]
    /\ UNCHANGED <<now, used, attempts, log>>

Drift(n) == IF now > issued[n] THEN now - issued[n] ELSE issued[n] - now

\* Variant of Outcome: the counter is compared before it is raised.
OutcomeLate(n, f, member) ==
    IF attempts[Short[f]] > MaxAttempts THEN "locked"
    ELSE IF n \in used                  THEN "replay"
    ELSE IF Drift(n) > Tolerance        THEN "stale"
    ELSE IF ~ member                    THEN "unauthorized"
    ELSE "ok"

\* The checks of verify_response, in their order.
Outcome(n, f, member) ==
    IF attempts[Short[f]] + 1 > MaxAttempts THEN "locked"
    ELSE IF n \in used                      THEN "replay"
    ELSE IF Drift(n) > Tolerance            THEN "stale"
    ELSE IF ~ member                        THEN "unauthorized"
    ELSE "ok"

\* Variant of UsedAfter: the nonce is spent by a refusal, too.
UsedAfterAny(n, result) == IF result = "locked" THEN used ELSE used \cup {n}

UsedAfter(n, result) == IF result = "ok" THEN used \cup {n} ELSE used

CountAfter(k, result) == IF result = "ok" THEN 0 ELSE attempts[k] + 1

VerifyResponse(n, f, member) ==
    LET key    == Short[f]
        result == Outcome(n, f, member)
    IN  /\ issued[n] # None /\ Len(log) < MaxCalls
        /\ attempts' = [attempts EXCEPT ![key] = CountAfter(key, result)]
        /\ used' = UsedAfter(n, result)
        /\ log' = Append(log, [fp |-> f, nonce |-> n, result |-> result])
        /\ UNCHANGED <<now, issued>>

\* Nothing calls it yet: "call periodically".
PurgeOldNonces ==
    /\ Cardinality(used) > NonceCap /\ Len(log) < MaxCalls
    /\ used' = {}
    /\ log' = Append(log, Purged)
    /\ UNCHANGED <<now, issued, attempts>>

Next == \/ Clock \/ PurgeOldNonces
        \/ \E n \in Nonce : CreateChallenge(n)
        \/ \E n \in Nonce, f \in Fp, member \in BOOLEAN : VerifyResponse(n, f, member)

Spec == Init /\ [][Next]_vars
-----------------------------------------------------------------------------
(* Properties: each outcome is explained by the calls before it. *)

\* Every variable stays in its type.
TypeOK == /\ now \in 0 .. Horizon
          /\ issued \in [Nonce -> 0 .. Horizon \cup {None}]
          /\ used \subseteq Nonce
          /\ attempts \in [Key -> 0 .. MaxCalls]
          /\ log \in Seq(Entry \cup {Purged})

Calls == {i \in DOMAIN log : log[i] # Purged}
KeyAt(i) == Short[log[i].fp]

\* Refusals of the key of call i since its last success, before call i.
RefusalsBefore(i) ==
    {j \in Calls : /\ j < i /\ KeyAt(j) = KeyAt(i)
                   /\ \A m \in Calls : m \in j .. i - 1 /\ KeyAt(m) = KeyAt(i)
                                       => log[m].result # "ok"}

\* A key is locked out exactly after MaxAttempts refusals in a row, however the
\* calls of several clients mix (verify_response, its counter).
LockedAfterRefusals ==
    \A i \in Calls : log[i].result = "locked"
                     <=> Cardinality(RefusalsBefore(i)) >= MaxAttempts

SpentBefore(i) ==
    \E j \in Calls : /\ j < i /\ log[j].result = "ok"
                     /\ log[j].nonce = log[i].nonce
                     /\ \A m \in j .. i : log[m] # Purged

\* An answer to a challenge is refused as a replay exactly when that challenge
\* was answered with success before and no purge has come between; a refused
\* answer does not spend the challenge (verify_response, used_nonces).
ReplayIffSpent ==
    \A i \in Calls : /\ log[i].result = "replay" => SpentBefore(i)
                     /\ log[i].result \in {"ok", "stale", "unauthorized"}
                        => ~ SpentBefore(i)
=============================================================================
