------------------------ MODULE TelemetryExportProofs ------------------------
(***************************************************************************)
(* Theorems about TelemetryExport: for any number of items and any         *)
(* capacities, batch sizes and limits, the queues and the exports stay     *)
(* bounded, every item is accounted for, off is final, and nothing is sent *)
(* with a refused token or once telemetry is off.                          *)
(***************************************************************************)
EXTENDS TelemetryExport, SequenceTheorems, FiniteSetTheorems, TLAPS

-----------------------------------------------------------------------------
(* The inductive invariant.                                                *)

\* The queues are typed and bounded, and hold no item twice.
QueueOK ==
    /\ outbox \in [Signal -> Seq(Item)]
    /\ capacity \in {PRE_CONFIG_CAPACITY, CAPACITY}
    /\ \A s \in Signal : Len(outbox[s]) <= capacity /\ IsInjective(outbox[s])
    /\ Range(outbox["traces"]) \cap Range(outbox["logs"]) = {}

\* A kept batch is no larger than a batch and has an attempt left.
RetryOK ==
    /\ retry \in [Signal -> Pending]
    /\ \A s \in Signal : /\ Cardinality(retry[s].items) <= MAX_BATCH
                         /\ retry[s].attempts < MAX_BATCH_ATTEMPTS
    /\ retry["traces"].items \cap retry["logs"].items = {}

\* One export at a time waits for an answer, and the flag says so.
PostsOK ==
    /\ posts \subseteq Post /\ exporting \in BOOLEAN
    /\ posts # {} => exporting
    /\ \A p, q \in posts : p = q
    /\ \A p \in posts : Cardinality(p.items) <= MAX_BATCH

\* A signal that has a batch on the wire keeps none for a retry.
SlotIsFree == \A p \in posts : retry[p.signal].items = {}

\* The life cycle and the send policy are off together, which is said once;
\* while they are not, a failure is left before giving up.
PolicyOK ==
    /\ lifecycle \in {"awaiting", "configured"} \cup OffReason
    /\ policy \in Policy
    /\ failed_refreshes \in 0 .. MAX_CONSECUTIVE_FAILURES
    /\ is_off <=> policy.stopped # Running
    /\ ~is_off => /\ policy.failures < MAX_CONSECUTIVE_FAILURES
                  /\ failed_refreshes < MAX_CONSECUTIVE_FAILURES
    /\ off_lines = IF is_off THEN 1 ELSE 0

OffIsEmpty == is_off => Queued = {} /\ Retrying = {}

\* A refused token is on no request, and no request leaves before a refresh.
RefusedIsSilent ==
    refused => posts = {} /\ (is_off \/ policy.refresh_pending)

\* Six disjoint places, the items in them, and how many were lost of `made`.
Apart(Q, R, F, A, U, D) ==
    /\ Q \cap (R \cup F \cup A \cup U \cup D) = {}
    /\ R \cap (F \cup A \cup U \cup D) = {}
    /\ F \cap (A \cup U \cup D) = {}
    /\ A \cap (U \cup D) = {}
    /\ U \cap D = {}
Balances(held, made, lost) ==
    /\ held \subseteq 1 .. made
    /\ Cardinality(held) + lost = made

Held == Queued \cup Retrying \cup InFlight \cup accepted \cup unloaded
            \cup discarded
LedgerOK ==
    /\ produced \in 0 .. MaxItems /\ dropped \in Nat
    /\ Apart(Queued, Retrying, InFlight, accepted, unloaded, discarded)
    /\ Balances(Held, produced, dropped)

RestOK ==
    /\ fetching \in {"none", "session", "loop"}
    /\ signed_in \in {"unknown", "yes", "no"}
    /\ loop \in {"asleep", "refreshing", "exporting", "done"}
    /\ {usable, flushing, due, refused} \subseteq BOOLEAN
    /\ age \in 0 .. PRE_CONFIG_MAX + 1

ExportInv ==
    /\ QueueOK /\ RetryOK /\ PostsOK /\ SlotIsFree
    /\ PolicyOK /\ OffIsEmpty /\ RefusedIsSilent
    /\ LedgerOK /\ RestOK

-----------------------------------------------------------------------------
(* Sequences without repetition.                                           *)

LEMMA EmptyQueue == Range(<<>>) = {} /\ IsInjective(<<>>)
<1>1. DOMAIN <<>> = {} OBVIOUS
<1> QED BY <1>1, Zenon DEF Range, IsInjective

LEMMA AppendQueue ==
  ASSUME NEW S, NEW q \in Seq(S), IsInjective(q), NEW x \in S,
         x \notin Range(q)
  PROVE  /\ Range(Append(q, x)) = Range(q) \cup {x}
         /\ IsInjective(Append(q, x))
<1> DEFINE a == Append(q, x)
<1>1. /\ a \in Seq(S) /\ Len(a) = Len(q) + 1 /\ a[Len(q) + 1] = x
      /\ \A i \in 1 .. Len(q) : a[i] = q[i]
  OBVIOUS
<1>2. DOMAIN a = 1 .. Len(q) + 1 /\ DOMAIN q = 1 .. Len(q) /\ Len(q) \in Nat
  BY <1>1
<1> HIDE DEF a
<1>3. Range(a) = Range(q) \cup {x}
  <2>1. ASSUME NEW y \in Range(a) PROVE y \in Range(q) \cup {x}
    <3>1. PICK i \in 1 .. Len(q) + 1 : a[i] = y BY <1>2, <2>1 DEF Range
    <3>2. CASE i = Len(q) + 1 BY <1>1, <3>1, <3>2
    <3>3. CASE i \in 1 .. Len(q) BY <1>1, <1>2, <3>1, <3>3 DEF Range
    <3> QED BY <1>2, <3>2, <3>3
  <2>2. x \in Range(a)
    <3>1. Len(q) + 1 \in DOMAIN a BY <1>2
    <3> QED BY <1>1, <3>1 DEF Range
  <2>3. ASSUME NEW y \in Range(q) PROVE y \in Range(a)
    <3>1. PICK i \in 1 .. Len(q) : q[i] = y BY <1>2, <2>3 DEF Range
    <3>2. i \in DOMAIN a /\ a[i] = y BY <1>1, <1>2, <3>1
    <3> QED BY <3>2 DEF Range
  <2> QED BY <2>1, <2>2, <2>3
<1>4. IsInjective(a)
  <2> SUFFICES ASSUME NEW i \in 1 .. Len(q) + 1, NEW j \in 1 .. Len(q) + 1,
                      a[i] = a[j]
               PROVE  i = j
    BY <1>2 DEF IsInjective
  <2>1. \A k \in 1 .. Len(q) : a[k] # x
    <3> TAKE k \in 1 .. Len(q)
    <3>1. q[k] \in Range(q) BY <1>2 DEF Range
    <3> QED BY <1>1, <3>1
  <2>2. CASE i \in 1 .. Len(q) /\ j \in 1 .. Len(q)
    BY <1>1, <1>2, <2>2 DEF IsInjective
  <2> QED BY <1>1, <1>2, <2>1, <2>2
<1> QED BY <1>3, <1>4 DEF a

\* A queue cut after its first n items.
LEMMA CutQueue ==
  ASSUME NEW S, NEW q \in Seq(S), IsInjective(q), NEW n \in 0 .. Len(q)
  PROVE  LET front == SubSeq(q, 1, n)
             back == SubSeq(q, n + 1, Len(q))
         IN  /\ front \in Seq(S) /\ Len(front) = n /\ IsInjective(front)
             /\ back \in Seq(S) /\ Len(back) = Len(q) - n
             /\ IsInjective(back)
             /\ Range(front) \subseteq Range(q)
             /\ Range(back) = Range(q) \ Range(front)
             /\ IsFiniteSet(Range(front)) /\ Cardinality(Range(front)) <= n
<1> DEFINE front == SubSeq(q, 1, n)
           back == SubSeq(q, n + 1, Len(q))
<1>1. Len(q) \in Nat /\ DOMAIN q = 1 .. Len(q) OBVIOUS
<1>2. /\ front \in Seq(S) /\ Len(front) = n /\ DOMAIN front = 1 .. n
      /\ \A i \in 1 .. n : front[i] = q[i]
  BY <1>1
<1>3. /\ back \in Seq(S) /\ Len(back) = Len(q) - n
      /\ DOMAIN back = 1 .. Len(q) - n
      /\ \A i \in 1 .. Len(q) - n : back[i] = q[n + i]
  <2>1. n + 1 \in 1 .. Len(q) + 1 /\ Len(q) \in (n + 1) - 1 .. Len(q) BY <1>1
  <2>2. /\ back \in Seq(S) /\ Len(back) = Len(q) - (n + 1) + 1
        /\ \A i \in 1 .. Len(q) - (n + 1) + 1 : back[i] = q[(n + 1) + i - 1]
    BY <2>1, SubSeqProperties
  <2>3. Len(q) - (n + 1) + 1 = Len(q) - n BY <1>1
  <2>4. ASSUME NEW i \in 1 .. Len(q) - n PROVE back[i] = q[n + i]
    <3>1. (n + 1) + i - 1 = n + i BY <1>1
    <3> QED BY <2>2, <2>3, <3>1
  <2>5. DOMAIN back = 1 .. Len(back) BY <2>2, LenProperties
  <2> HIDE DEF back
  <2> QED BY <2>2, <2>3, <2>4, <2>5
<1> HIDE DEF front, back
<1>4. \A i, j \in 1 .. Len(q) : q[i] = q[j] => i = j
  BY <1>1 DEF IsInjective
<1>5. IsInjective(front) BY <1>1, <1>2, <1>4 DEF IsInjective
<1>6. IsInjective(back)
  <2> SUFFICES ASSUME NEW i \in 1 .. Len(q) - n, NEW j \in 1 .. Len(q) - n,
                      back[i] = back[j]
               PROVE  i = j
    BY <1>3 DEF IsInjective
  <2>1. n + i \in 1 .. Len(q) /\ n + j \in 1 .. Len(q) BY <1>1
  <2>2. q[n + i] = q[n + j] BY <1>3
  <2>3. n + i = n + j BY <1>4, <2>1, <2>2
  <2> QED BY <1>1, <2>3
<1>7. Range(front) \subseteq Range(q)
  BY <1>1, <1>2 DEF Range
<1>8. Range(back) = Range(q) \ Range(front)
  <2>1. ASSUME NEW y \in Range(back) PROVE y \in Range(q) \ Range(front)
    <3>1. PICK i \in 1 .. Len(q) - n : y = q[n + i]
      BY <1>3, <2>1 DEF Range
    <3>2. n + i \in 1 .. Len(q) BY <1>1
    <3>3. y \in Range(q) BY <1>1, <3>1, <3>2 DEF Range
    <3>4. ASSUME NEW j \in 1 .. n, front[j] = y PROVE FALSE
      <4>1. q[j] = q[n + i] /\ j \in 1 .. Len(q) BY <1>1, <1>2, <3>1, <3>4
      <4> QED BY <1>1, <1>4, <3>2, <4>1
    <3> QED BY <1>2, <3>3, <3>4 DEF Range
  <2>2. ASSUME NEW y \in Range(q), y \notin Range(front)
        PROVE  y \in Range(back)
    <3>1. PICK j \in 1 .. Len(q) : y = q[j] BY <1>1, <2>2 DEF Range
    <3>2. j \notin 1 .. n BY <1>2, <2>2, <3>1 DEF Range
    <3>3. j - n \in 1 .. Len(q) - n /\ n + (j - n) = j BY <1>1, <3>2
    <3>4. back[j - n] = y /\ j - n \in DOMAIN back BY <1>3, <3>1, <3>3
    <3> QED BY <3>4 DEF Range
  <2> QED BY <2>1, <2>2
<1>9. IsFiniteSet(Range(front)) /\ Cardinality(Range(front)) <= n
  <2>1. IsFiniteSet(1 .. n) /\ Cardinality(1 .. n) = n
    BY <1>1, FS_Interval
  <2>2. Range(front) = {front[i] : i \in 1 .. n} BY <1>2 DEF Range
  <2>3. front \in Surjection(1 .. n, Range(front))
    <3>1. front \in [1 .. n -> Range(front)]
      <4>1. front = [i \in 1 .. n |-> front[i]] BY <1>2, LenProperties
      <4>2. \A i \in 1 .. n : front[i] \in Range(front) BY <2>2
      <4> QED BY <4>1, <4>2, Zenon
    <3>2. \A y \in Range(front) : \E i \in 1 .. n : front[i] = y
      BY <2>2
    <3> QED BY <3>1, <3>2 DEF Surjection
  <2>4. IsFiniteSet(Range(front))
          /\ Cardinality(Range(front)) <= Cardinality(1 .. n)
    BY <2>1, <2>3, FS_Surjection
  <2> QED BY <2>1, <2>4
<1> QED BY <1>2, <1>3, <1>5, <1>6, <1>7, <1>8, <1>9 DEF front, back

-----------------------------------------------------------------------------
(* The ledger.                                                             *)

LEMMA Limits ==
  /\ MaxItems \in Nat /\ CAPACITY \in Nat /\ PRE_CONFIG_CAPACITY \in Nat
  /\ MAX_BATCH \in Nat /\ KEEPALIVE_MAX_ITEMS \in Nat
  /\ MAX_BATCH_ATTEMPTS \in Nat
  /\ MAX_CONSECUTIVE_FAILURES \in Nat /\ PRE_CONFIG_MAX \in Nat
  /\ PRE_CONFIG_CAPACITY >= 1 /\ PRE_CONFIG_CAPACITY <= CAPACITY
  /\ MAX_BATCH_ATTEMPTS >= 1 /\ MAX_CONSECUTIVE_FAILURES >= 1
  /\ MAX_BATCH >= 1
BY TelemetryAssumption

\* Sets of items are finite.
LEMMA HeldIsFinite ==
  ASSUME NEW n \in Nat, NEW S, S \subseteq 1 .. n
  PROVE  IsFiniteSet(S) /\ Cardinality(S) \in Nat
<1>1. IsFiniteSet(1 .. n) BY FS_Interval
<1>2. IsFiniteSet(S) BY <1>1, FS_Subset
<1> QED BY <1>2, FS_CardinalityType

\* A new item finds its place.
LEMMA LedgerGains ==
  ASSUME NEW n \in Nat, NEW lost \in Nat, NEW S, Balances(S, n, lost)
  PROVE  Balances(S \cup {n + 1}, n + 1, lost) /\ n + 1 \notin S
<1>1. IsFiniteSet(S) /\ Cardinality(S) \in Nat
  BY HeldIsFinite DEF Balances
<1>2. n + 1 \notin S BY DEF Balances
<1>3. Cardinality(S \cup {n + 1}) = Cardinality(S) + 1
  BY <1>1, <1>2, FS_AddElement
<1>4. S \cup {n + 1} \subseteq 1 .. n + 1 BY DEF Balances
<1>5. Cardinality(S) + lost = n BY DEF Balances
<1>6. Cardinality(S \cup {n + 1}) + lost = n + 1 BY <1>1, <1>3, <1>5
<1> QED BY <1>2, <1>4, <1>6 DEF Balances

\* Items that are lost are counted.
LEMMA LedgerLoses ==
  ASSUME NEW n \in Nat, NEW lost \in Nat, NEW S, Balances(S, n, lost),
         NEW gone, gone \subseteq S
  PROVE  /\ Balances(S \ gone, n, lost + Cardinality(gone))
         /\ Cardinality(gone) \in Nat
<1>1. IsFiniteSet(S) /\ Cardinality(S) \in Nat
  BY HeldIsFinite DEF Balances
<1>2. gone \subseteq 1 .. n BY DEF Balances
<1>3. Cardinality(gone) \in Nat BY <1>2, HeldIsFinite
<1>4. S \cap gone = gone OBVIOUS
<1>5. Cardinality(S \ gone) = Cardinality(S) - Cardinality(gone)
  BY <1>1, <1>4, FS_Difference
<1>6. Cardinality(S) + lost = n /\ S \ gone \subseteq 1 .. n BY DEF Balances
<1>7. Cardinality(S \ gone) + (lost + Cardinality(gone)) = n
  BY <1>1, <1>3, <1>5, <1>6
<1> QED BY <1>3, <1>6, <1>7 DEF Balances

\* The union over the two signals.
LEMMA TwoSignals ==
  /\ Queued = Range(outbox["traces"]) \cup Range(outbox["logs"])
  /\ Retrying = retry["traces"].items \cup retry["logs"].items
BY DEF Queued, Retrying, Signal

LEMMA NothingQueued ==
  outbox = [s \in Signal |-> <<>>] => Queued = {}
<1> SUFFICES ASSUME outbox = [s \in Signal |-> <<>>] PROVE Queued = {}
  OBVIOUS
<1>1. outbox["traces"] = <<>> /\ outbox["logs"] = <<>> BY DEF Signal
<1> QED BY <1>1, TwoSignals, EmptyQueue

LEMMA NothingKept ==
  retry = [s \in Signal |-> NoPending] =>
    Retrying = {} /\ RetryOK /\ \A s \in Signal : retry[s].items = {}
<1> SUFFICES ASSUME retry = [s \in Signal |-> NoPending]
             PROVE  /\ Retrying = {} /\ RetryOK
                    /\ \A s \in Signal : retry[s].items = {}
  OBVIOUS
<1>1. \A s \in Signal : retry[s].items = {} /\ retry[s].attempts = 0
  BY DEF NoPending
<1>2. Retrying = {} BY <1>1 DEF Retrying
<1>3. retry \in [Signal -> Pending] BY Limits DEF NoPending, Pending
<1>4. Cardinality({}) = 0 BY FS_EmptySet
<1>5. RetryOK BY <1>1, <1>3, <1>4, Limits DEF RetryOK, Signal
<1> QED BY <1>1, <1>2, <1>5

\* A request in flight is the only one.
LEMMA TheOnlyPost ==
  ASSUME PostsOK, NEW p \in posts
  PROVE  posts = {p} /\ posts \ {p} = {} /\ InFlight = p.items
<1>1. posts = {p} BY DEF PostsOK
<1> QED BY <1>1 DEF InFlight

LEMMA NoPost == ASSUME posts = {} PROVE InFlight = {} BY DEF InFlight

-----------------------------------------------------------------------------
(* The policy.                                                             *)

LEMMA StoppedPolicy ==
  ASSUME NEW p \in Policy, NEW reason \in OffReason
  PROVE  /\ Stopped(p, reason) \in Policy
         /\ Stopped(p, reason).stopped # Running
         /\ Stopped(p, reason).refresh_pending = p.refresh_pending
<1>1. reason # Running BY DEF OffReason, Running
<1> QED BY <1>1 DEF Stopped, Policy

\* What an answer makes of the policy.
LEMMA RecordedPolicy ==
  ASSUME PolicyOK, NEW outcome \in ExportOutcome
  PROVE  /\ Recorded(outcome) \in Policy
         /\ is_off => Recorded(outcome) = policy
         /\ Recorded(outcome).stopped = Running =>
              Recorded(outcome).failures < MAX_CONSECUTIVE_FAILURES
         /\ outcome = "Accepted" =>
              Recorded(outcome).stopped = policy.stopped
         /\ outcome = "Unauthorized" =>
              Recorded(outcome).stopped # Running
                \/ Recorded(outcome).refresh_pending
         /\ policy.refresh_pending => Recorded(outcome).refresh_pending
         /\ \A n : retry_batch(outcome, n) =>
                     Recorded(outcome).stopped = Running
<1>1. /\ policy \in Policy /\ (is_off <=> policy.stopped # Running)
      /\ ~is_off => policy.failures < MAX_CONSECUTIVE_FAILURES
  BY DEF PolicyOK
<1>2. /\ policy.failures \in 0 .. MAX_CONSECUTIVE_FAILURES
      /\ policy.waiting \in BOOLEAN /\ policy.refresh_pending \in BOOLEAN
      /\ policy.refreshed_after_401 \in BOOLEAN
      /\ policy.stopped \in OffReason \cup {Running}
  BY <1>1 DEF Policy
<1>3. CASE policy.stopped # Running
  <2>1. Recorded(outcome) = policy BY <1>3 DEF Recorded
  <2> QED BY <1>1, <1>3, <2>1 DEF retry_batch, PolicyOK
<1>4. CASE policy.stopped = Running
  <2>1. ~is_off /\ policy.failures < MAX_CONSECUTIVE_FAILURES BY <1>1, <1>4
  <2>2. "Unauthorized" # Running /\ "GaveUp" # Running
          /\ "Unauthorized" \in OffReason /\ "GaveUp" \in OffReason
    BY DEF Running, OffReason
  <2>3. CASE outcome = "Accepted"
    <3>1. Recorded(outcome) =
            [policy EXCEPT !.failures = 0, !.refreshed_after_401 = FALSE,
                           !.waiting = FALSE]
      BY <1>4, <2>3 DEF Recorded
    <3>2. /\ Recorded(outcome) \in Policy
          /\ Recorded(outcome).stopped = policy.stopped
          /\ Recorded(outcome).failures = 0
          /\ Recorded(outcome).refresh_pending = policy.refresh_pending
      <4>1. 0 \in 0 .. MAX_CONSECUTIVE_FAILURES BY Limits
      <4> QED BY <1>1, <1>2, <3>1, <4>1 DEF Policy
    <3>3. 0 < MAX_CONSECUTIVE_FAILURES BY Limits
    <3> QED BY <1>4, <2>1, <2>3, <3>2, <3>3 DEF retry_batch
  <2>4. CASE outcome = "Unauthorized"
    <3>1. Recorded(outcome) =
            IF policy.refreshed_after_401 THEN Stopped(policy, "Unauthorized")
            ELSE [policy EXCEPT !.refreshed_after_401 = TRUE,
                                !.refresh_pending = TRUE]
      BY <1>4, <2>4 DEF Recorded
    <3>2. CASE policy.refreshed_after_401
      BY <1>1, <1>4, <2>1, <2>2, <2>4, <3>1, <3>2, StoppedPolicy
      DEF retry_batch
    <3>3. CASE ~policy.refreshed_after_401
      BY <1>1, <1>2, <1>4, <2>1, <2>4, <3>1, <3>3 DEF Policy, retry_batch
    <3> QED BY <3>2, <3>3
  <2>5. CASE outcome = "Rejected"
    <3>1. Recorded(outcome) = policy BY <1>4, <2>5 DEF Recorded
    <3> QED BY <1>1, <1>4, <2>1, <2>5, <3>1 DEF retry_batch
  <2>6. CASE outcome = "Retryable"
    <3>1. Recorded(outcome) =
            IF policy.failures + 1 >= MAX_CONSECUTIVE_FAILURES
            THEN [policy EXCEPT !.failures = @ + 1, !.stopped = "GaveUp"]
            ELSE [policy EXCEPT !.failures = @ + 1, !.waiting = TRUE]
      BY <1>4, <2>6 DEF Recorded
    <3>2. CASE policy.failures + 1 >= MAX_CONSECUTIVE_FAILURES
      <4>1. policy.failures + 1 \in 0 .. MAX_CONSECUTIVE_FAILURES
        BY <1>2, <2>1, Limits
      <4>2. /\ Recorded(outcome) \in Policy
            /\ Recorded(outcome).stopped = "GaveUp"
            /\ Recorded(outcome).refresh_pending = policy.refresh_pending
        BY <1>1, <1>2, <2>2, <3>1, <3>2, <4>1 DEF Policy
      <4>3. \A n : ~retry_batch(outcome, n)
        BY <1>2, <3>2, Limits DEF retry_batch
      <4> QED BY <1>4, <2>1, <2>2, <2>6, <4>2, <4>3
    <3>3. CASE ~(policy.failures + 1 >= MAX_CONSECUTIVE_FAILURES)
      <4>1. policy.failures + 1 \in 0 .. MAX_CONSECUTIVE_FAILURES
              /\ policy.failures + 1 < MAX_CONSECUTIVE_FAILURES
        BY <1>2, <2>1, <3>3, Limits
      <4>2. /\ Recorded(outcome) \in Policy
            /\ Recorded(outcome).stopped = policy.stopped
            /\ Recorded(outcome).failures = policy.failures + 1
            /\ Recorded(outcome).refresh_pending = policy.refresh_pending
        BY <1>1, <1>2, <3>1, <3>3, <4>1 DEF Policy
      <4> QED BY <1>4, <2>1, <2>6, <4>1, <4>2
    <3> QED BY <3>2, <3>3
  <2> QED BY <2>3, <2>4, <2>5, <2>6 DEF ExportOutcome
<1> QED BY <1>3, <1>4

-----------------------------------------------------------------------------
(* Turning telemetry off.                                                  *)

\* stop() finds telemetry off and leaves it, or discards what is held.
StillOff ==
    /\ is_off
    /\ UNCHANGED <<lifecycle, policy, retry, outbox, discarded, off_lines>>
JustOff ==
    /\ ~is_off
    /\ lifecycle' \in OffReason
    /\ policy' \in Policy /\ policy'.stopped # Running
    /\ outbox' = [s \in Signal |-> <<>>]
    /\ retry' = [s \in Signal |-> NoPending]
    /\ discarded' = discarded \cup Queued \cup Retrying
    /\ off_lines' = off_lines + 1

LEMMA StopEffect ==
  ASSUME PolicyOK, NEW reason \in OffReason, NEW pol \in Policy,
         is_off => pol = policy, stop(reason, pol, retry)
  PROVE  StillOff \/ JustOff
<1>1. is_off <=> policy.stopped # Running BY DEF PolicyOK
<1>2. CASE is_off
  <2>1. pol = policy /\ pol.stopped # Running BY <1>1, <1>2
  <2> QED BY <1>2, <2>1 DEF stop, StillOff
<1>3. CASE ~is_off
  <2>1. TurnOff(reason, pol, retry) BY <1>3 DEF stop
  <2>2. lifecycle' = reason /\ policy' = Stopped(pol, reason)
    BY <1>3, <2>1 DEF TurnOff
  <2>3. policy' \in Policy /\ policy'.stopped # Running
    BY <2>2, StoppedPolicy
  <2>4. /\ outbox' = [s \in Signal |-> <<>>]
        /\ retry' = [s \in Signal |-> NoPending]
        /\ discarded' = discarded \cup Queued \cup Retrying
        /\ off_lines' = off_lines + 1
    BY <2>1 DEF TurnOff, Retrying
  <2> QED BY <1>3, <2>2, <2>3, <2>4 DEF JustOff
<1> QED BY <1>2, <1>3

\* Nothing queued is a sound queue.
LEMMA EmptyQueueOK ==
  (/\ outbox = [s \in Signal |-> <<>>]
   /\ capacity \in {PRE_CONFIG_CAPACITY, CAPACITY}) => QueueOK
<1> SUFFICES ASSUME outbox = [s \in Signal |-> <<>>],
                    capacity \in {PRE_CONFIG_CAPACITY, CAPACITY}
             PROVE  QueueOK
  OBVIOUS
<1>1. \A s \in Signal : outbox[s] = <<>> OBVIOUS
<1>2. outbox \in [Signal -> Seq(Item)] OBVIOUS
<1>3. capacity \in Nat BY Limits
<1>4. \A s \in Signal : Len(outbox[s]) <= capacity BY <1>1, <1>3
<1>5. \A s \in Signal : IsInjective(outbox[s]) BY <1>1, EmptyQueue
<1>6. Range(outbox["traces"]) = {} BY <1>1, EmptyQueue DEF Signal
<1> QED BY <1>2, <1>4, <1>5, <1>6 DEF QueueOK

\* What a stop leaves: the queues and the retries are sound and empty, and
\* the ledger keeps its total, whatever becomes of the request in flight.
LEMMA StopIsSound ==
  ASSUME ExportInv, StillOff \/ JustOff,
         capacity' \in {capacity, CAPACITY},
         failed_refreshes' \in 0 .. MAX_CONSECUTIVE_FAILURES
  PROVE  /\ QueueOK' /\ RetryOK' /\ PolicyOK' /\ OffIsEmpty' /\ is_off'
         /\ \A s \in Signal : retry'[s].items = {}
         /\ Queued' = {} /\ Retrying' = {}
         /\ discarded' = discarded \cup Queued \cup Retrying
<1>1. CASE StillOff
  <2>1. Queued = {} /\ Retrying = {}
    BY <1>1 DEF ExportInv, OffIsEmpty, StillOff
  <2>2. Queued' = Queued /\ Retrying' = Retrying /\ is_off' = is_off
    BY <1>1 DEF StillOff, Queued, Retrying, is_off
  <2>3. capacity' \in Nat /\ capacity' >= capacity
          /\ capacity' \in {PRE_CONFIG_CAPACITY, CAPACITY} /\ capacity \in Nat
    BY Limits DEF ExportInv, QueueOK
  <2>4. QueueOK'
    BY <1>1, <2>3 DEF StillOff, QueueOK, ExportInv
  <2>5. RetryOK' BY <1>1 DEF StillOff, RetryOK, ExportInv
  <2>6. PolicyOK'
    BY <1>1, <2>2 DEF StillOff, PolicyOK, ExportInv
  <2>7. \A s \in Signal : retry'[s].items = {}
    BY <2>1, <2>2 DEF Retrying
  <2> QED BY <1>1, <2>1, <2>2, <2>4, <2>5, <2>6, <2>7 DEF StillOff, OffIsEmpty
<1>2. CASE JustOff
  <2>1. is_off' BY <1>2 DEF JustOff, is_off
  <2>2. Queued' = {}
    <3>1. (outbox = [s \in Signal |-> <<>>] => Queued = {})'
      BY NothingQueued, PTL
    <3> QED BY <1>2, <3>1 DEF JustOff
  <2>3. Retrying' = {} /\ RetryOK' /\ \A s \in Signal : retry'[s].items = {}
    <3>1. (retry = [s \in Signal |-> NoPending] =>
             Retrying = {} /\ RetryOK
               /\ \A s \in Signal : retry[s].items = {})'
      BY NothingKept, PTL
    <3> QED BY <1>2, <3>1 DEF JustOff
  <2>4. capacity' \in {PRE_CONFIG_CAPACITY, CAPACITY}
    BY DEF ExportInv, QueueOK
  <2>5. QueueOK'
    <3>1. ((/\ outbox = [s \in Signal |-> <<>>]
            /\ capacity \in {PRE_CONFIG_CAPACITY, CAPACITY}) => QueueOK)'
      BY EmptyQueueOK, PTL
    <3> QED BY <1>2, <2>4, <3>1 DEF JustOff
  <2>6. off_lines = 0 BY <1>2 DEF JustOff, ExportInv, PolicyOK
  <2>7. off_lines' = 1 BY <1>2, <2>6 DEF JustOff
  <2>8. PolicyOK' BY <1>2, <2>1, <2>7 DEF JustOff, PolicyOK
  <2> QED BY <1>2, <2>1, <2>2, <2>3, <2>5, <2>8 DEF JustOff, OffIsEmpty
<1> QED BY <1>1, <1>2

\* Discarding keeps the ledger.
LEMMA LedgerMoves ==
  ASSUME LedgerOK, UNCHANGED <<produced, dropped>>, Held' = Held,
         Apart(Queued', Retrying', InFlight', accepted', unloaded', discarded')
  PROVE  LedgerOK'
BY DEF LedgerOK

-----------------------------------------------------------------------------
(* Frames: what a step that leaves a part alone leaves of the invariant.   *)

LEMMA QueueFrame ==
  ASSUME QueueOK, UNCHANGED outbox, capacity' \in {capacity, CAPACITY}
  PROVE  QueueOK' /\ Queued' = Queued
<1>1. capacity' \in Nat /\ capacity' >= capacity
        /\ capacity' \in {PRE_CONFIG_CAPACITY, CAPACITY} /\ capacity \in Nat
  BY Limits DEF QueueOK
<1> QED BY <1>1 DEF QueueOK, Queued

LEMMA RetryFrame ==
  ASSUME RetryOK, UNCHANGED retry PROVE RetryOK' /\ Retrying' = Retrying
BY DEF RetryOK, Retrying

LEMMA PostsFrame ==
  ASSUME PostsOK, UNCHANGED <<posts, exporting>>
  PROVE  PostsOK' /\ InFlight' = InFlight
BY DEF PostsOK, InFlight

LEMMA SendFrame ==
  ASSUME ExportInv, UNCHANGED <<retry, exporting, posts>>
  PROVE  /\ RetryOK' /\ PostsOK' /\ SlotIsFree'
         /\ Retrying' = Retrying /\ InFlight' = InFlight
BY RetryFrame, PostsFrame DEF ExportInv, SlotIsFree

LEMMA PolicyFrame ==
  ASSUME ExportInv,
         UNCHANGED <<lifecycle, policy, failed_refreshes, off_lines>>
  PROVE  PolicyOK' /\ is_off' = is_off
BY DEF ExportInv, PolicyOK, is_off

LEMMA TwoSignalsNext ==
  /\ Queued' = Range(outbox'["traces"]) \cup Range(outbox'["logs"])
  /\ Retrying' = retry'["traces"].items \cup retry'["logs"].items
BY DEF Queued, Retrying, Signal

LEMMA RefusedFrame ==
  ASSUME ExportInv, refused' => refused, posts' = posts, is_off' = is_off,
         policy'.refresh_pending = policy.refresh_pending
  PROVE  RefusedIsSilent'
BY DEF ExportInv, RefusedIsSilent

-----------------------------------------------------------------------------
(* Producers.                                                              *)

\* A push finds room, or the oldest item makes it and is counted.
LEMMA PushIsSound ==
  ASSUME ExportInv, NEW s \in Signal, NEW i \in Item, i \notin Held,
         push(s, i), UNCHANGED <<retry, posts, accepted, unloaded, discarded>>
  PROVE  /\ QueueOK'
         /\ \/ dropped' = dropped /\ Queued' = Queued \cup {i}
            \/ \E h \in Queued : /\ dropped' = dropped + 1
                                 /\ Queued' = (Queued \ {h}) \cup {i}
<1> DEFINE q == outbox[s]
           r == IF Len(q) = capacity THEN Tail(q) ELSE q
<1>1. /\ q \in Seq(Item) /\ IsInjective(q) /\ Len(q) <= capacity
      /\ Len(q) \in Nat /\ capacity \in Nat /\ capacity >= 1
  BY Limits DEF ExportInv, QueueOK
<1>2. /\ outbox' = [outbox EXCEPT ![s] = Append(r, i)]
      /\ dropped' = IF Len(q) = capacity THEN dropped + 1 ELSE dropped
      /\ capacity' = capacity
  BY DEF push
<1>3. /\ r \in Seq(Item) /\ IsInjective(r) /\ Len(r) < capacity
      /\ Range(r) \subseteq Range(q)
      /\ Len(q) = capacity =>
           (\E h \in Range(q) : Range(r) = Range(q) \ {h})
      /\ Len(q) # capacity => Range(r) = Range(q)
  <2>1. CASE Len(q) # capacity BY <1>1, <2>1
  <2>2. CASE Len(q) = capacity
    <3> DEFINE front == SubSeq(q, 1, 1)
               back == SubSeq(q, 1 + 1, Len(q))
    <3>1. 1 \in 0 .. Len(q) BY <1>1, <2>2
    <3>2. /\ front \in Seq(Item) /\ Len(front) = 1
          /\ back \in Seq(Item) /\ Len(back) = Len(q) - 1 /\ IsInjective(back)
          /\ Range(front) \subseteq Range(q)
          /\ Range(back) = Range(q) \ Range(front)
      BY <1>1, <3>1, CutQueue
    <3>3. r = back
      <4>1. r = Tail(q) BY <2>2
      <4>2. q # <<>> BY <1>1, <2>2
      <4>3. Tail(q) = SubSeq(q, 2, Len(q)) BY <1>1, <4>2, TailIsSubSeq
      <4>4. back = SubSeq(q, 2, Len(q))
        <5>1. 1 + 1 = 2 OBVIOUS
        <5> QED BY <5>1, Zenon
      <4> HIDE DEF r, back
      <4> QED BY <4>1, <4>3, <4>4
    <3> HIDE DEF r, front, back
    <3>4. Range(front) = {front[1]}
      <4>1. DOMAIN front = {1} BY <3>2
      <4> QED BY <4>1 DEF Range
    <3>5. front[1] \in Range(q) BY <3>2, <3>4
    <3>6. Len(r) < capacity BY <1>1, <2>2, <3>2, <3>3
    <3> QED BY <2>2, <3>2, <3>3, <3>4, <3>5, <3>6
  <2> QED BY <2>1, <2>2
<1>4. i \notin Range(q) /\ i \notin Range(outbox["traces"])
        /\ i \notin Range(outbox["logs"])
  BY TwoSignals DEF Held, Signal
<1> HIDE DEF r
<1>5. /\ Range(Append(r, i)) = Range(r) \cup {i} /\ IsInjective(Append(r, i))
  BY <1>3, <1>4, AppendQueue
<1>6. Append(r, i) \in Seq(Item) /\ Len(Append(r, i)) <= capacity
  BY <1>1, <1>3
<1>7. /\ outbox' \in [Signal -> Seq(Item)]
      /\ outbox'[s] = Append(r, i)
      /\ \A t \in Signal : t # s => outbox'[t] = outbox[t]
  BY <1>2, <1>6 DEF ExportInv, QueueOK
<1>8. Range(outbox["traces"]) \cap Range(outbox["logs"]) = {}
  BY DEF ExportInv, QueueOK
<1>9. Range(outbox'["traces"]) \cap Range(outbox'["logs"]) = {}
  <2>1. CASE s = "traces" BY <1>3, <1>4, <1>5, <1>7, <1>8, <2>1 DEF Signal
  <2>2. CASE s = "logs" BY <1>3, <1>4, <1>5, <1>7, <1>8, <2>2 DEF Signal
  <2> QED BY <2>1, <2>2 DEF Signal
<1>10. QueueOK'
  <2>1. \A t \in Signal : Len(outbox'[t]) <= capacity'
                            /\ IsInjective(outbox'[t])
    BY <1>2, <1>5, <1>6, <1>7 DEF ExportInv, QueueOK
  <2>2. capacity' \in {PRE_CONFIG_CAPACITY, CAPACITY}
    BY <1>2 DEF ExportInv, QueueOK
  <2> QED BY <1>7, <1>9, <2>1, <2>2 DEF QueueOK
<1>11. CASE Len(q) # capacity
  <2>1. Range(outbox'[s]) = Range(q) \cup {i} BY <1>3, <1>5, <1>7, <1>11
  <2>2. Queued' = Queued \cup {i}
    <3>1. CASE s = "traces"
      BY <1>7, <2>1, <3>1, TwoSignals, TwoSignalsNext DEF Signal
    <3>2. CASE s = "logs"
      BY <1>7, <2>1, <3>2, TwoSignals, TwoSignalsNext DEF Signal
    <3> QED BY <3>1, <3>2 DEF Signal
  <2> QED BY <1>2, <1>10, <1>11, <2>2
<1>12. CASE Len(q) = capacity
  <2>1. PICK h \in Range(q) : Range(r) = Range(q) \ {h} BY <1>3, <1>12
  <2>2. Range(outbox'[s]) = (Range(q) \ {h}) \cup {i}
    BY <1>5, <1>7, <2>1
  <2>3. h \in Queued /\ Queued' = (Queued \ {h}) \cup {i}
    <3>1. CASE s = "traces"
      BY <1>7, <1>8, <2>1, <2>2, <3>1, TwoSignals, TwoSignalsNext DEF Signal
    <3>2. CASE s = "logs"
      BY <1>7, <1>8, <2>1, <2>2, <3>2, TwoSignals, TwoSignalsNext DEF Signal
    <3> QED BY <3>1, <3>2 DEF Signal
  <2> QED BY <1>2, <1>10, <1>12, <2>3
<1> QED BY <1>11, <1>12

\* SpanHandle::finish, start_screen, push_log.
LEMMA RecordIsSound ==
  ASSUME ExportInv, NEW s \in Signal, Record(s), flushing' \in BOOLEAN
  PROVE  ExportInv'
<1> DEFINE i == produced + 1
<1>1. /\ produced < MaxItems /\ produced' = i
      /\ IF is_off
         THEN /\ discarded' = discarded \cup {i}
              /\ UNCHANGED <<outbox, capacity, dropped>>
         ELSE push(s, i) /\ UNCHANGED discarded
      /\ UNCHANGED <<retry, exporting, posts>>
      /\ UNCHANGED <<lifecycle, policy, failed_refreshes, off_lines>>
      /\ UNCHANGED <<usable, fetching, signed_in, loop, due, age, accepted,
                     unloaded, refused>>
  BY DEF Record, queueVars, configVars, loopVars
<1>2. produced \in Nat /\ i \in Item /\ i \in 0 .. MaxItems /\ dropped \in Nat
        /\ Balances(Held, produced, dropped)
        /\ Apart(Queued, Retrying, InFlight, accepted, unloaded, discarded)
  BY <1>1, Limits DEF ExportInv, LedgerOK, Item
<1> HIDE DEF i
<1>3. i \notin Held /\ Balances(Held \cup {i}, i, dropped)
  BY <1>2, LedgerGains DEF i
<1>4. /\ RetryOK' /\ PostsOK' /\ SlotIsFree'
      /\ Retrying' = Retrying /\ InFlight' = InFlight
  BY <1>1, SendFrame
<1>5. PolicyOK' /\ is_off' = is_off BY <1>1, PolicyFrame
<1>6. RefusedIsSilent' BY <1>1, <1>5, RefusedFrame
<1>7. RestOK' BY <1>1 DEF ExportInv, RestOK
<1>8. CASE is_off
  <2>1. QueueOK' /\ Queued' = Queued
    BY <1>1, <1>8, QueueFrame DEF ExportInv
  <2>2. OffIsEmpty' BY <1>4, <1>5, <2>1 DEF OffIsEmpty, ExportInv
  <2>3. Held' = Held \cup {i} BY <1>1, <1>4, <1>8, <2>1 DEF Held
  <2>4. Apart(Queued', Retrying', InFlight', accepted', unloaded', discarded')
    BY <1>1, <1>2, <1>3, <1>4, <1>8, <2>1 DEF Apart, Held
  <2>5. LedgerOK' BY <1>1, <1>2, <1>3, <1>8, <2>3, <2>4 DEF LedgerOK
  <2> QED BY <1>4, <1>5, <1>6, <1>7, <2>1, <2>2, <2>5 DEF ExportInv
<1>9. CASE ~is_off
  <2>1. push(s, i) /\ UNCHANGED discarded BY <1>1, <1>9
  <2>2. /\ QueueOK'
        /\ \/ dropped' = dropped /\ Queued' = Queued \cup {i}
           \/ \E h \in Queued : /\ dropped' = dropped + 1
                                /\ Queued' = (Queued \ {h}) \cup {i}
    BY <1>1, <1>2, <1>3, <2>1, PushIsSound
  <2>3. OffIsEmpty' BY <1>5, <1>9 DEF OffIsEmpty
  <2>4. Apart(Queued', Retrying', InFlight', accepted', unloaded', discarded')
    BY <1>1, <1>2, <1>3, <1>4, <2>1, <2>2 DEF Apart, Held
  <2>5. CASE dropped' = dropped /\ Queued' = Queued \cup {i}
    <3>1. Held' = Held \cup {i} BY <1>1, <1>4, <2>1, <2>5 DEF Held
    <3>2. LedgerOK' BY <1>1, <1>2, <1>3, <2>4, <2>5, <3>1 DEF LedgerOK
    <3> QED BY <1>4, <1>5, <1>6, <1>7, <2>2, <2>3, <3>2 DEF ExportInv
  <2>6. CASE \E h \in Queued : /\ dropped' = dropped + 1
                               /\ Queued' = (Queued \ {h}) \cup {i}
    <3>1. PICK h \in Queued : /\ dropped' = dropped + 1
                              /\ Queued' = (Queued \ {h}) \cup {i}
      BY <2>6
    <3>2. h # i BY <1>3 DEF Held
    <3>3. Held' = (Held \cup {i}) \ {h}
      BY <1>1, <1>2, <1>4, <2>1, <3>1, <3>2 DEF Held, Apart
    <3>4. {h} \subseteq Held \cup {i} BY DEF Held
    <3>5. Cardinality({h}) = 1 BY FS_Singleton
    <3>6. i \in Nat BY <1>2
    <3>7. Balances(Held', i, dropped + 1)
      BY <1>2, <1>3, <3>3, <3>4, <3>5, <3>6, LedgerLoses
    <3>8. LedgerOK' BY <1>1, <1>2, <2>4, <3>1, <3>7 DEF LedgerOK
    <3> QED BY <1>4, <1>5, <1>6, <1>7, <2>2, <2>3, <3>8 DEF ExportInv
  <2> QED BY <2>2, <2>5, <2>6
<1> QED BY <1>8, <1>9

-----------------------------------------------------------------------------
(* Exports.                                                                *)

\* take_batch cuts the queue.
LEMMA TakeIsSound ==
  ASSUME QueueOK, NEW s \in Signal, NEW max \in Nat
  PROVE  /\ take_batch(s, max) \in Seq(Item)
         /\ Len(take_batch(s, max)) <= max
         /\ IsInjective(take_batch(s, max))
         /\ Range(take_batch(s, max)) \subseteq Range(outbox[s])
         /\ Cardinality(Range(take_batch(s, max))) <= max
         /\ AfterTaking(s, max) \in Seq(Item)
         /\ IsInjective(AfterTaking(s, max))
         /\ Len(AfterTaking(s, max)) <= Len(outbox[s])
         /\ Range(AfterTaking(s, max))
              = Range(outbox[s]) \ Range(take_batch(s, max))
<1> DEFINE q == outbox[s]
           n == IF max < Len(q) THEN max ELSE Len(q)
           front == SubSeq(q, 1, n)
           back == SubSeq(q, n + 1, Len(q))
<1>1. q \in Seq(Item) /\ IsInjective(q) /\ Len(q) \in Nat BY DEF QueueOK
<1>2. n \in 0 .. Len(q) /\ n <= max BY <1>1
<1> HIDE DEF n
<1>3. /\ front \in Seq(Item) /\ Len(front) = n /\ IsInjective(front)
      /\ back \in Seq(Item) /\ Len(back) = Len(q) - n /\ IsInjective(back)
      /\ Range(front) \subseteq Range(q)
      /\ Range(back) = Range(q) \ Range(front)
      /\ IsFiniteSet(Range(front)) /\ Cardinality(Range(front)) <= n
  BY <1>1, <1>2, CutQueue
<1>4. take_batch(s, max) = front BY DEF take_batch, n
<1>5. AfterTaking(s, max) = back BY <1>3, <1>4 DEF AfterTaking
<1> HIDE DEF front, back
<1>6. Cardinality(Range(front)) \in Nat BY <1>3, FS_CardinalityType
<1>7. Cardinality(Range(front)) <= max BY <1>2, <1>3, <1>6
<1> QED BY <1>1, <1>2, <1>3, <1>4, <1>5, <1>7

\* A batch leaves the retry slot, or the queue, for the wire.
LEMMA SendIsSound ==
  ASSUME ExportInv, NEW s \in Signal, NEW owner \in {"loop", "flush"},
         HasBatch(s), Send(owner, s, {}), UNCHANGED capacity
  PROVE  /\ QueueOK' /\ RetryOK' /\ SlotIsFree' /\ posts' # {}
         /\ (exporting' = TRUE) => PostsOK'
         /\ \/ /\ InFlight' \subseteq Retrying /\ Queued' = Queued
               /\ Retrying' = Retrying \ InFlight'
            \/ /\ InFlight' \subseteq Queued /\ Retrying' = Retrying
               /\ Queued' = Queued \ InFlight'
<1> DEFINE b == next_batch(s)
           n == [owner |-> owner, signal |-> s, items |-> b.items,
                 attempts |-> b.attempts, old |-> FALSE]
<1>0. QueueOK /\ RetryOK /\ retry[s] \in Pending BY DEF ExportInv, RetryOK
<1>1. b.items \subseteq Item /\ b.attempts \in 1 .. MAX_BATCH_ATTEMPTS
        /\ Cardinality(b.items) <= MAX_BATCH
  <2>1. CASE retry[s].items # {}
    <3>1. b = [items |-> retry[s].items, attempts |-> retry[s].attempts + 1]
      BY <2>1 DEF next_batch
    <3>2. /\ b.items = retry[s].items
          /\ b.attempts = retry[s].attempts + 1
      BY <3>1
    <3>3. /\ retry[s].items \subseteq Item
          /\ retry[s].attempts \in 0 .. MAX_BATCH_ATTEMPTS
          /\ retry[s].attempts < MAX_BATCH_ATTEMPTS
          /\ Cardinality(retry[s].items) <= MAX_BATCH
      BY <1>0 DEF RetryOK, Pending
    <3> HIDE DEF b
    <3> QED BY <3>2, <3>3, Limits
  <2>2. CASE retry[s].items = {}
    <3>1. b = [items |-> Range(take_batch(s, MAX_BATCH)), attempts |-> 1]
      BY <2>2 DEF next_batch
    <3>2. b.items = Range(take_batch(s, MAX_BATCH)) /\ b.attempts = 1
      BY <3>1
    <3>3. /\ take_batch(s, MAX_BATCH) \in Seq(Item)
          /\ Cardinality(Range(take_batch(s, MAX_BATCH))) <= MAX_BATCH
      BY <1>0, TakeIsSound, Limits
    <3>4. Range(take_batch(s, MAX_BATCH)) \subseteq Item
      BY <3>3 DEF Range
    <3>5. 1 \in 1 .. MAX_BATCH_ATTEMPTS BY Limits
    <3> HIDE DEF b
    <3> QED BY <3>2, <3>3, <3>4, <3>5
  <2> QED BY <2>1, <2>2
<1>2. posts' = {n} BY DEF Send
<1> HIDE DEF b
<1>3. n \in Post /\ n.signal = s /\ n.items = b.items
  BY <1>1 DEF Post
<1> HIDE DEF n
<1>4. InFlight' = b.items BY <1>2, <1>3 DEF InFlight
<1>5. (exporting' = TRUE) => PostsOK' BY <1>1, <1>2, <1>3 DEF PostsOK
<1>6. CASE retry[s].items # {}
  <2>1. b.items = retry[s].items BY <1>6 DEF b, next_batch
  <2>2. retry' = [retry EXCEPT ![s] = NoPending] /\ outbox' = outbox
    BY <1>6 DEF Send
  <2>3. NoPending \in Pending /\ NoPending.items = {}
          /\ NoPending.attempts = 0
    BY Limits DEF NoPending, Pending
  <2>4. /\ retry' \in [Signal -> Pending] /\ retry'[s] = NoPending
        /\ \A t \in Signal : t # s => retry'[t] = retry[t]
    BY <1>0, <2>2, <2>3 DEF RetryOK
  <2>5. Cardinality({}) = 0 BY FS_EmptySet
  <2>6. RetryOK'
    <3>1. \A t \in Signal : /\ Cardinality(retry'[t].items) <= MAX_BATCH
                            /\ retry'[t].attempts < MAX_BATCH_ATTEMPTS
      <4> TAKE t \in Signal
      <4>1. CASE t = s
        <5>1. 0 <= MAX_BATCH /\ 0 < MAX_BATCH_ATTEMPTS BY Limits
        <5> QED BY <2>3, <2>4, <2>5, <4>1, <5>1
      <4>2. CASE t # s BY <1>0, <2>4, <4>2 DEF RetryOK
      <4> QED BY <4>1, <4>2
    <3>2. retry'["traces"].items \cap retry'["logs"].items = {}
      BY <1>0, <2>3, <2>4 DEF RetryOK, Signal
    <3> QED BY <2>4, <3>1, <3>2 DEF RetryOK
  <2>7. SlotIsFree' BY <1>2, <1>3, <2>3, <2>4 DEF SlotIsFree
  <2>8. QueueOK' /\ Queued' = Queued BY <1>0, <2>2, QueueFrame
  <2>9. /\ InFlight' \subseteq Retrying
        /\ Retrying' = Retrying \ InFlight'
    <3>1. retry["traces"].items \cap retry["logs"].items = {}
      BY <1>0 DEF RetryOK
    <3>2. CASE s = "traces"
      BY <1>4, <2>1, <2>3, <2>4, <3>1, <3>2, TwoSignals, TwoSignalsNext
      DEF Signal
    <3>3. CASE s = "logs"
      BY <1>4, <2>1, <2>3, <2>4, <3>1, <3>3, TwoSignals, TwoSignalsNext
      DEF Signal
    <3> QED BY <3>2, <3>3 DEF Signal
  <2> QED BY <1>2, <1>5, <2>6, <2>7, <2>8, <2>9
<1>7. CASE retry[s].items = {}
  <2>1. b.items = Range(take_batch(s, MAX_BATCH)) BY <1>7 DEF b, next_batch
  <2>2. retry' = retry /\ outbox' = [outbox EXCEPT ![s] =
                                         AfterTaking(s, MAX_BATCH)]
    BY <1>7 DEF Send
  <2>3. /\ Range(take_batch(s, MAX_BATCH)) \subseteq Range(outbox[s])
        /\ AfterTaking(s, MAX_BATCH) \in Seq(Item)
        /\ IsInjective(AfterTaking(s, MAX_BATCH))
        /\ Len(AfterTaking(s, MAX_BATCH)) <= Len(outbox[s])
        /\ Range(AfterTaking(s, MAX_BATCH))
             = Range(outbox[s]) \ Range(take_batch(s, MAX_BATCH))
    BY <1>0, TakeIsSound, Limits
  <2>4. /\ outbox' \in [Signal -> Seq(Item)]
        /\ outbox'[s] = AfterTaking(s, MAX_BATCH)
        /\ \A t \in Signal : t # s => outbox'[t] = outbox[t]
    BY <1>0, <2>2, <2>3 DEF QueueOK
  <2>5. Range(outbox["traces"]) \cap Range(outbox["logs"]) = {}
    BY <1>0 DEF QueueOK
  <2>6. QueueOK'
    <3>1. Len(outbox[s]) \in Nat /\ Len(outbox[s]) <= capacity
            /\ capacity \in Nat /\ Len(AfterTaking(s, MAX_BATCH)) \in Nat
      BY <1>0, <2>3, Limits DEF QueueOK
    <3>2. \A t \in Signal : Len(outbox'[t]) <= capacity
                              /\ IsInjective(outbox'[t])
      <4> TAKE t \in Signal
      <4>1. CASE t = s
        <5>1. Len(AfterTaking(s, MAX_BATCH)) <= capacity BY <2>3, <3>1
        <5> QED BY <2>3, <2>4, <4>1, <5>1
      <4>2. CASE t # s BY <1>0, <2>4, <4>2 DEF QueueOK
      <4> QED BY <4>1, <4>2
    <3>3. Range(outbox'["traces"]) \cap Range(outbox'["logs"]) = {}
      BY <2>3, <2>4, <2>5 DEF Signal
    <3> QED BY <1>0, <2>4, <3>2, <3>3 DEF QueueOK
  <2>7. RetryOK' /\ Retrying' = Retrying BY <1>0, <2>2, RetryFrame
  <2>8. SlotIsFree' BY <1>2, <1>3, <1>7, <2>2 DEF SlotIsFree
  <2>9. InFlight' \subseteq Queued /\ Queued' = Queued \ InFlight'
    <3>1. CASE s = "traces"
      BY <1>4, <2>1, <2>3, <2>4, <2>5, <3>1, TwoSignals, TwoSignalsNext
      DEF Signal
    <3>2. CASE s = "logs"
      BY <1>4, <2>1, <2>3, <2>4, <2>5, <3>2, TwoSignals, TwoSignalsNext
      DEF Signal
    <3> QED BY <3>1, <3>2 DEF Signal
  <2> QED BY <1>2, <1>5, <2>6, <2>7, <2>8, <2>9
<1> QED BY <1>6, <1>7

\* export_once up to its await, started by the loop or by a panic's flush.
LEMMA ExportIsSound ==
  ASSUME ExportInv, NEW owner \in {"loop", "flush"}, export_once(owner),
         UNCHANGED <<capacity, dropped, produced>>,
         UNCHANGED <<lifecycle, policy, failed_refreshes, off_lines>>,
         UNCHANGED <<accepted, unloaded, discarded, refused>>
  PROVE  /\ QueueOK' /\ RetryOK' /\ PostsOK' /\ SlotIsFree' /\ PolicyOK'
         /\ OffIsEmpty' /\ RefusedIsSilent' /\ LedgerOK'
<1>1. PolicyOK' /\ is_off' = is_off BY PolicyFrame
<1>2. CASE UNCHANGED <<posts, retry, outbox, exporting>>
  <2>1. /\ RetryOK' /\ PostsOK' /\ SlotIsFree'
        /\ Retrying' = Retrying /\ InFlight' = InFlight
    BY <1>2, SendFrame
  <2>2. QueueOK' /\ Queued' = Queued BY <1>2, QueueFrame DEF ExportInv
  <2>3. OffIsEmpty' BY <1>1, <2>1, <2>2 DEF OffIsEmpty, ExportInv
  <2>4. RefusedIsSilent' BY <1>1, <1>2, RefusedFrame
  <2>5. LedgerOK' BY <2>1, <2>2 DEF ExportInv, LedgerOK, Held
  <2> QED BY <1>1, <2>1, <2>2, <2>3, <2>4, <2>5
<1>3. CASE /\ ~exporting /\ should_export /\ (\E s \in Signal : HasBatch(s))
           /\ Send(owner, IF HasBatch("traces") THEN "traces" ELSE "logs",
                   posts)
           /\ exporting' = TRUE
  <2> DEFINE s == IF HasBatch("traces") THEN "traces" ELSE "logs"
  <2>1. s \in Signal /\ HasBatch(s) BY <1>3 DEF Signal
  <2>2. posts = {} BY <1>3 DEF ExportInv, PostsOK
  <2>3. Send(owner, s, {}) BY <1>3, <2>2
  <2> HIDE DEF s
  <2>4. /\ QueueOK' /\ RetryOK' /\ SlotIsFree' /\ PostsOK'
        /\ \/ /\ InFlight' \subseteq Retrying /\ Queued' = Queued
              /\ Retrying' = Retrying \ InFlight'
           \/ /\ InFlight' \subseteq Queued /\ Retrying' = Retrying
              /\ Queued' = Queued \ InFlight'
    BY <1>3, <2>1, <2>3, SendIsSound
  <2>5. ~is_off BY <2>1 DEF HasBatch, has_credentials, is_off, OffReason
  <2>6. OffIsEmpty' BY <1>1, <2>5 DEF OffIsEmpty
  <2>7. ~refused
    BY <1>3, <2>5 DEF ExportInv, RefusedIsSilent, should_export
  <2>8. RefusedIsSilent' BY <2>7 DEF RefusedIsSilent
  <2>9. InFlight = {} BY <2>2, NoPost
  <2>10. Apart(Queued, Retrying, InFlight, accepted, unloaded, discarded)
    BY DEF ExportInv, LedgerOK
  <2>11. Held' = Held BY <2>4, <2>9 DEF Held
  <2>12. Apart(Queued', Retrying', InFlight', accepted', unloaded',
               discarded')
    BY <2>4, <2>9, <2>10 DEF Apart
  <2>13. LedgerOK' BY <2>11, <2>12, LedgerMoves DEF ExportInv
  <2> QED BY <1>1, <2>4, <2>6, <2>8, <2>13
<1> QED BY <1>2, <1>3 DEF export_once

\* The rest of export_once, from an answer on.
LEMMA AnswerIsSound ==
  ASSUME ExportInv, NEW p \in posts, NEW outcome \in ExportOutcome,
         post_answer(p, outcome)
  PROVE  ExportInv'
<1> DEFINE accept == outcome = "Accepted"
           more   == accept /\ p.signal = "traces" /\ HasBatch("logs")
           keep   == retry_batch(outcome, p.attempts)
           kept   == IF keep THEN [retry EXCEPT ![p.signal] =
                              [items |-> p.items, attempts |-> p.attempts]]
                     ELSE retry
           pol    == Recorded(outcome)
<1>1. /\ accepted' = IF accept THEN accepted \cup p.items ELSE accepted
      /\ dropped' = IF accept \/ keep THEN dropped
                    ELSE dropped + Cardinality(p.items)
      /\ refused' = (refused \/ (outcome = "Unauthorized" /\ ~p.old))
      /\ IF more
         THEN /\ Send(p.owner, "logs", posts \ {p})
              /\ policy' = pol
              /\ UNCHANGED <<exporting, lifecycle, discarded, off_lines, loop>>
         ELSE /\ posts' = posts \ {p}
              /\ exporting' = FALSE
              /\ loop' = IF p.owner = "loop" THEN "asleep" ELSE loop
              /\ IF pol.stopped # Running
                 THEN stop(pol.stopped, pol, kept)
                 ELSE /\ policy' = pol
                      /\ retry' = kept
                      /\ UNCHANGED <<lifecycle, outbox, discarded, off_lines>>
      /\ UNCHANGED <<capacity, usable, failed_refreshes, fetching, signed_in,
                     flushing, due, age, produced, unloaded>>
  BY DEF post_answer
<1>2. posts = {p} /\ posts \ {p} = {} /\ InFlight = p.items
  BY TheOnlyPost DEF ExportInv
<1>3. /\ p \in Post /\ exporting = TRUE /\ retry[p.signal].items = {}
      /\ Cardinality(p.items) <= MAX_BATCH
  BY DEF ExportInv, PostsOK, SlotIsFree
<1>4. /\ p.owner \in {"loop", "flush"} /\ p.signal \in Signal
      /\ p.items \subseteq Item /\ p.attempts \in 1 .. MAX_BATCH_ATTEMPTS
  BY <1>3 DEF Post
<1>5. /\ pol \in Policy
      /\ is_off => pol = policy
      /\ pol.stopped = Running => pol.failures < MAX_CONSECUTIVE_FAILURES
      /\ accept => pol.stopped = policy.stopped
      /\ outcome = "Unauthorized" =>
            pol.stopped # Running \/ pol.refresh_pending
      /\ policy.refresh_pending => pol.refresh_pending
      /\ keep => pol.stopped = Running
  BY RecordedPolicy DEF ExportInv
<1>6. /\ produced \in Nat /\ dropped \in Nat
      /\ Balances(Held, produced, dropped)
      /\ Apart(Queued, Retrying, InFlight, accepted, unloaded, discarded)
      /\ produced \in 0 .. MaxItems
  BY DEF ExportInv, LedgerOK
<1>7. /\ Balances(Held \ p.items, produced, dropped + Cardinality(p.items))
      /\ Cardinality(p.items) \in Nat
  BY <1>2, <1>6, LedgerLoses DEF Held
<1>8. keep => ~accept BY DEF retry_batch
<1> HIDE DEF pol, keep
<1>9. ~refused BY <1>2 DEF ExportInv, RefusedIsSilent
<1>10. RestOK'
  <2>1. loop' \in {"asleep", "refreshing", "exporting", "done"}
    BY <1>1 DEF ExportInv, RestOK
  <2>2. refused' \in BOOLEAN BY <1>1, <1>9
  <2> QED BY <1>1, <2>1, <2>2 DEF ExportInv, RestOK
<1>11. CASE more
  <2>1. /\ Send(p.owner, "logs", {}) /\ policy' = pol
        /\ UNCHANGED <<exporting, lifecycle, discarded, off_lines>>
        /\ accepted' = accepted \cup p.items /\ dropped' = dropped
        /\ HasBatch("logs")
    BY <1>1, <1>2, <1>11
  <2>2. /\ QueueOK' /\ RetryOK' /\ SlotIsFree' /\ PostsOK'
        /\ \/ /\ InFlight' \subseteq Retrying /\ Queued' = Queued
              /\ Retrying' = Retrying \ InFlight'
           \/ /\ InFlight' \subseteq Queued /\ Retrying' = Retrying
              /\ Queued' = Queued \ InFlight'
    BY <1>1, <1>3, <1>4, <2>1, SendIsSound DEF Signal
  <2>3. ~is_off /\ is_off' = is_off
    BY <2>1 DEF HasBatch, has_credentials, is_off, OffReason
  <2>4. PolicyOK'
    BY <1>1, <1>5, <1>11, <2>1, <2>3 DEF ExportInv, PolicyOK
  <2>5. OffIsEmpty' BY <2>3 DEF OffIsEmpty
  <2>6. ~refused' BY <1>1, <1>9, <1>11
  <2>7. RefusedIsSilent' BY <2>6 DEF RefusedIsSilent
  <2>8. Held' = Held BY <1>1, <1>2, <2>1, <2>2 DEF Held
  <2>9. Apart(Queued', Retrying', InFlight', accepted', unloaded', discarded')
    BY <1>1, <1>2, <1>6, <2>1, <2>2 DEF Apart
  <2>10. LedgerOK' BY <1>1, <2>1, <2>8, <2>9, LedgerMoves DEF ExportInv
  <2> QED BY <1>10, <2>2, <2>4, <2>5, <2>7, <2>10 DEF ExportInv
<1>12. CASE ~more
  <2>1. posts' = {} /\ exporting' = FALSE BY <1>1, <1>2, <1>12
  <2>2. PostsOK' /\ SlotIsFree' BY <2>1 DEF PostsOK, SlotIsFree
  <2>3. InFlight' = {} BY <2>1 DEF InFlight
  <2>4. CASE pol.stopped # Running
    <3>1. kept = retry /\ ~keep BY <1>5, <2>4
    <3>2. stop(pol.stopped, pol, retry) BY <1>1, <1>12, <2>4, <3>1
    <3>3. pol.stopped \in OffReason BY <1>5, <2>4 DEF Policy
    <3>4. StillOff \/ JustOff
      BY <1>5, <3>2, <3>3, StopEffect DEF ExportInv
    <3>5. capacity' \in {capacity, CAPACITY}
            /\ failed_refreshes' \in 0 .. MAX_CONSECUTIVE_FAILURES
      BY <1>1 DEF ExportInv, PolicyOK
    <3>6. /\ QueueOK' /\ RetryOK' /\ PolicyOK' /\ OffIsEmpty' /\ is_off'
          /\ Queued' = {} /\ Retrying' = {}
          /\ discarded' = discarded \cup Queued \cup Retrying
      BY <3>4, <3>5, StopIsSound
    <3>7. RefusedIsSilent' BY <2>1, <3>6 DEF RefusedIsSilent
    <3>8. Apart(Queued', Retrying', InFlight', accepted', unloaded',
                discarded')
      BY <1>1, <1>2, <1>6, <2>3, <3>6 DEF Apart
    <3>9. LedgerOK'
      <4>1. CASE accept
        <5>1. Held' = Held BY <1>1, <1>2, <2>3, <3>6, <4>1 DEF Held
        <5> QED BY <1>1, <3>8, <4>1, <5>1, LedgerMoves DEF ExportInv
      <4>2. CASE ~accept
        <5>1. Held' = Held \ p.items
          BY <1>1, <1>2, <1>6, <2>3, <3>6, <4>2 DEF Held, Apart
        <5>2. dropped' = dropped + Cardinality(p.items)
          BY <1>1, <3>1, <4>2
        <5> QED BY <1>1, <1>6, <1>7, <3>8, <5>1, <5>2 DEF LedgerOK
      <4> QED BY <4>1, <4>2
    <3> QED BY <1>10, <2>2, <3>6, <3>7, <3>9 DEF ExportInv
  <2>5. CASE pol.stopped = Running
    <3>1. /\ policy' = pol /\ retry' = kept
          /\ UNCHANGED <<lifecycle, outbox, discarded, off_lines>>
      BY <1>1, <1>12, <2>5
    <3>2. is_off' = is_off /\ ~is_off
      BY <1>5, <2>5, <3>1 DEF is_off, ExportInv, PolicyOK
    <3>3. PolicyOK'
      BY <1>1, <1>5, <2>5, <3>1, <3>2 DEF ExportInv, PolicyOK
    <3>4. OffIsEmpty' BY <3>2 DEF OffIsEmpty
    <3>5. RefusedIsSilent'
      BY <1>1, <1>5, <1>9, <2>1, <2>5, <3>1 DEF RefusedIsSilent
    <3>6. QueueOK' /\ Queued' = Queued
      BY <1>1, <3>1, QueueFrame DEF ExportInv
    <3>7. CASE keep
      <4> DEFINE k == [items |-> p.items, attempts |-> p.attempts]
      <4>1. retry' = [retry EXCEPT ![p.signal] = k] BY <3>1, <3>7
      <4>2. p.attempts < MAX_BATCH_ATTEMPTS
        BY <3>7 DEF keep, retry_batch
      <4>3. k \in Pending /\ k.items = p.items /\ k.attempts = p.attempts
        BY <1>4, Limits DEF Pending
      <4> HIDE DEF k
      <4>4. /\ retry' \in [Signal -> Pending] /\ retry'[p.signal] = k
            /\ \A t \in Signal : t # p.signal => retry'[t] = retry[t]
        BY <1>4, <4>1, <4>3 DEF ExportInv, RetryOK
      <4>5. p.items \cap Retrying = {} BY <1>2, <1>6 DEF Apart
      <4>6. Retrying' = Retrying \cup p.items
              /\ retry'["traces"].items \cap retry'["logs"].items = {}
        <5>1. CASE p.signal = "traces"
          BY <1>3, <4>3, <4>4, <4>5, <5>1, TwoSignals, TwoSignalsNext
          DEF Signal
        <5>2. CASE p.signal = "logs"
          BY <1>3, <4>3, <4>4, <4>5, <5>2, TwoSignals, TwoSignalsNext
          DEF Signal
        <5> QED BY <1>4, <5>1, <5>2 DEF Signal
      <4>7. RetryOK'
        <5>1. \A t \in Signal : /\ Cardinality(retry'[t].items) <= MAX_BATCH
                                /\ retry'[t].attempts < MAX_BATCH_ATTEMPTS
          <6> TAKE t \in Signal
          <6>1. CASE t = p.signal BY <1>3, <4>2, <4>3, <4>4, <6>1
          <6>2. CASE t # p.signal BY <4>4, <6>2 DEF ExportInv, RetryOK
          <6> QED BY <6>1, <6>2
        <5> QED BY <4>4, <4>6, <5>1 DEF RetryOK
      <4>8. dropped' = dropped /\ accepted' = accepted
        BY <1>1, <1>8, <3>7
      <4>9. Held' = Held
        BY <1>1, <1>2, <2>3, <3>1, <3>6, <4>6, <4>8 DEF Held
      <4>10. Apart(Queued', Retrying', InFlight', accepted', unloaded',
                   discarded')
        BY <1>1, <1>2, <1>6, <2>3, <3>1, <3>6, <4>6, <4>8 DEF Apart
      <4>11. LedgerOK' BY <1>1, <4>8, <4>9, <4>10, LedgerMoves DEF ExportInv
      <4> QED BY <1>10, <2>2, <3>3, <3>4, <3>5, <3>6, <4>7, <4>11 DEF ExportInv
    <3>8. CASE ~keep
      <4>1. retry' = retry BY <3>1, <3>8
      <4>2. RetryOK' /\ Retrying' = Retrying
        BY <4>1, RetryFrame DEF ExportInv
      <4>3. Apart(Queued', Retrying', InFlight', accepted', unloaded',
                  discarded')
        BY <1>1, <1>2, <1>6, <2>3, <3>1, <3>6, <4>2 DEF Apart
      <4>4. LedgerOK'
        <5>1. CASE accept
          <6>1. Held' = Held
            BY <1>1, <1>2, <2>3, <3>1, <3>6, <4>2, <5>1 DEF Held
          <6> QED BY <1>1, <4>3, <5>1, <6>1, LedgerMoves DEF ExportInv
        <5>2. CASE ~accept
          <6>1. Held' = Held \ p.items
            BY <1>1, <1>2, <1>6, <2>3, <3>1, <3>6, <4>2, <5>2 DEF Held, Apart
          <6>2. dropped' = dropped + Cardinality(p.items)
            BY <1>1, <3>8, <5>2
          <6> QED BY <1>1, <1>6, <1>7, <4>3, <6>1, <6>2 DEF LedgerOK
        <5> QED BY <5>1, <5>2
      <4> QED BY <1>10, <2>2, <3>3, <3>4, <3>5, <3>6, <4>2, <4>4 DEF ExportInv
    <3> QED BY <3>7, <3>8
  <2> QED BY <2>4, <2>5
<1> QED BY <1>11, <1>12

-----------------------------------------------------------------------------
(* The session, the configuration and the page's end.                      *)

\* A stop outside an answer: what is queued and kept is discarded, what is in
\* flight stays in flight.
LEMMA HaltIsSound ==
  ASSUME ExportInv, NEW reason \in OffReason, stop(reason, policy, retry),
         UNCHANGED <<capacity, dropped, failed_refreshes, exporting, posts>>,
         UNCHANGED <<produced, accepted, unloaded, refused>>
  PROVE  /\ QueueOK' /\ RetryOK' /\ PostsOK' /\ SlotIsFree' /\ PolicyOK'
         /\ OffIsEmpty' /\ RefusedIsSilent' /\ LedgerOK'
<1>1. StillOff \/ JustOff
  BY StopEffect DEF ExportInv, PolicyOK
<1>2. capacity' \in {capacity, CAPACITY}
        /\ failed_refreshes' \in 0 .. MAX_CONSECUTIVE_FAILURES
  BY DEF ExportInv, PolicyOK
<1>3. /\ QueueOK' /\ RetryOK' /\ PolicyOK' /\ OffIsEmpty' /\ is_off'
      /\ \A s \in Signal : retry'[s].items = {}
      /\ Queued' = {} /\ Retrying' = {}
      /\ discarded' = discarded \cup Queued \cup Retrying
  BY <1>1, <1>2, StopIsSound
<1>4. PostsOK' /\ InFlight' = InFlight BY PostsFrame DEF ExportInv
<1>5. \A p \in posts : p.signal \in Signal BY DEF ExportInv, PostsOK, Post
<1>6. SlotIsFree' BY <1>3, <1>5 DEF SlotIsFree
<1>7. RefusedIsSilent' BY <1>3 DEF ExportInv, RefusedIsSilent
<1>8. Apart(Queued, Retrying, InFlight, accepted, unloaded, discarded)
  BY DEF ExportInv, LedgerOK
<1>9. Apart(Queued', Retrying', InFlight', accepted', unloaded', discarded')
  BY <1>3, <1>4, <1>8 DEF Apart
<1>10. Held' = Held BY <1>3, <1>4 DEF Held
<1>11. LedgerOK' BY <1>9, <1>10, LedgerMoves DEF ExportInv
<1> QED BY <1>3, <1>4, <1>6, <1>7, <1>11

\* set_session.
LEMMA SessionIsSound ==
  ASSUME ExportInv, NEW yes \in BOOLEAN, set_session(yes)
  PROVE  ExportInv'
<1>1. /\ UNCHANGED <<capacity, dropped, failed_refreshes, exporting, posts>>
      /\ UNCHANGED <<produced, accepted, unloaded, refused>>
      /\ UNCHANGED <<usable, flushing, loop, due, age>>
      /\ signed_in' \in {"yes", "no"}
  BY DEF set_session, loopVars
<1>2. CASE yes
  <2>1. /\ UNCHANGED <<lifecycle, policy, retry, outbox, discarded, off_lines>>
        /\ fetching' \in {"session", fetching}
    BY <1>2 DEF set_session
  <2>2. QueueOK' /\ Queued' = Queued
    BY <1>1, <2>1, QueueFrame DEF ExportInv
  <2>3. /\ RetryOK' /\ PostsOK' /\ SlotIsFree'
        /\ Retrying' = Retrying /\ InFlight' = InFlight
    BY <1>1, <2>1, SendFrame
  <2>4. PolicyOK' /\ is_off' = is_off BY <1>1, <2>1, PolicyFrame
  <2>5. OffIsEmpty' BY <2>2, <2>3, <2>4 DEF OffIsEmpty, ExportInv
  <2>6. RefusedIsSilent' BY <1>1, <2>1, <2>4, RefusedFrame
  <2>7. LedgerOK' BY <1>1, <2>1, <2>2, <2>3 DEF ExportInv, LedgerOK, Held
  <2>8. RestOK' BY <1>1, <2>1 DEF ExportInv, RestOK
  <2> QED BY <2>2, <2>3, <2>4, <2>5, <2>6, <2>7, <2>8 DEF ExportInv
<1>3. CASE ~yes
  <2>1. stop("SignedOut", policy, retry) /\ fetching' = fetching
    BY <1>3 DEF set_session
  <2>2. "SignedOut" \in OffReason BY DEF OffReason
  <2>3. /\ QueueOK' /\ RetryOK' /\ PostsOK' /\ SlotIsFree' /\ PolicyOK'
        /\ OffIsEmpty' /\ RefusedIsSilent' /\ LedgerOK'
    BY <1>1, <2>1, <2>2, HaltIsSound
  <2>4. RestOK' BY <1>1, <2>1 DEF ExportInv, RestOK
  <2> QED BY <2>3, <2>4 DEF ExportInv
<1> QED BY <1>2, <1>3

\* What a fetch may make of the life cycle.
LEMMA ConfigEffect ==
  ASSUME PolicyOK, NEW fetch \in ConfigFetch
  PROVE  /\ on_config(fetch) \in {"awaiting", "configured"} \cup OffReason
         /\ is_off => on_config(fetch) = lifecycle
         /\ on_config(fetch) \notin OffReason =>
              /\ ~is_off
              /\ fetch \in {"Configured", "Unavailable"}
              /\ fetch = "Unavailable" =>
                   /\ on_config(fetch) = lifecycle
                   /\ has_credentials => failed_refreshes + 1
                                           < MAX_CONSECUTIVE_FAILURES
<1>1. lifecycle \in {"awaiting", "configured"} \cup OffReason
        /\ failed_refreshes \in Nat
  BY DEF PolicyOK
<1>2. CASE is_off
  <2>1. on_config(fetch) = lifecycle BY <1>2 DEF on_config
  <2> QED BY <1>1, <1>2, <2>1 DEF is_off
<1>3. CASE ~is_off
  <2>1. CASE fetch = "Configured"
    <3>1. on_config(fetch) = "configured" BY <1>3, <2>1 DEF on_config
    <3> QED BY <1>3, <2>1, <3>1
  <2>2. CASE fetch = "Expired"
    <3>1. on_config(fetch) = "SessionExpired" BY <1>3, <2>2 DEF on_config
    <3> QED BY <1>3, <3>1 DEF OffReason
  <2>3. CASE fetch = "Absent"
    <3>1. on_config(fetch) = "NotConfigured" BY <1>3, <2>3 DEF on_config
    <3> QED BY <1>3, <3>1 DEF OffReason
  <2>4. CASE fetch = "SignedOut"
    <3>1. on_config(fetch) =
            IF has_credentials THEN "SessionExpired" ELSE "SignedOut"
      BY <1>3, <2>4 DEF on_config
    <3> QED BY <1>3, <3>1 DEF OffReason
  <2>5. CASE fetch = "Unavailable"
    <3>1. on_config(fetch) =
            IF has_credentials
                 /\ failed_refreshes + 1 >= MAX_CONSECUTIVE_FAILURES
            THEN "GaveUp" ELSE lifecycle
      BY <1>3, <2>5 DEF on_config
    <3>2. CASE has_credentials
                 /\ failed_refreshes + 1 >= MAX_CONSECUTIVE_FAILURES
      BY <1>3, <3>1, <3>2 DEF OffReason
    <3>3. CASE ~(has_credentials
                   /\ failed_refreshes + 1 >= MAX_CONSECUTIVE_FAILURES)
      <4>1. on_config(fetch) = lifecycle BY <3>1, <3>3
      <4>2. has_credentials =>
              failed_refreshes + 1 < MAX_CONSECUTIVE_FAILURES
        BY <1>1, <3>3, Limits
      <4> QED BY <1>1, <1>3, <2>5, <4>1, <4>2
    <3> QED BY <3>2, <3>3
  <2> QED BY <2>1, <2>2, <2>3, <2>4, <2>5 DEF ConfigFetch
<1> QED BY <1>2, <1>3

\* refresh_config, when fetch_config returns.
LEMMA ConfigIsSound ==
  ASSUME ExportInv, NEW fetch \in ConfigFetch, config_answer(fetch)
  PROVE  ExportInv'
<1> DEFINE next == on_config(fetch)
           on   == next = "configured" /\ fetch = "Configured"
<1>1. /\ fetching' = "none"
      /\ loop' = IF fetching = "loop" THEN "asleep" ELSE loop
      /\ failed_refreshes' = IF on THEN 0
                             ELSE IF has_credentials /\ fetch = "Unavailable"
                             THEN failed_refreshes + 1 ELSE failed_refreshes
      /\ usable' = (on \/ usable)
      /\ capacity' = IF on THEN CAPACITY ELSE capacity
      /\ refused' = (refused /\ ~on)
      /\ posts' = IF on THEN {[p EXCEPT !.old = TRUE] : p \in posts}
                  ELSE posts
      /\ IF next \in OffReason
         THEN stop(next, policy, retry)
         ELSE /\ lifecycle' = next
              /\ policy' = IF on THEN [policy EXCEPT !.refresh_pending = FALSE]
                           ELSE policy
              /\ UNCHANGED <<retry, outbox, discarded, off_lines>>
      /\ UNCHANGED <<signed_in, dropped, exporting, flushing, due, age,
                     produced, accepted, unloaded>>
  BY DEF config_answer
<1>2. /\ next \in {"awaiting", "configured"} \cup OffReason
      /\ is_off => next = lifecycle
      /\ next \notin OffReason =>
           /\ ~is_off /\ fetch \in {"Configured", "Unavailable"}
           /\ fetch = "Unavailable" =>
                /\ next = lifecycle
                /\ has_credentials => failed_refreshes + 1
                                        < MAX_CONSECUTIVE_FAILURES
  BY ConfigEffect DEF ExportInv
<1> HIDE DEF next
<1>3. RestOK' BY <1>1 DEF ExportInv, RestOK
<1>4. /\ PostsOK' /\ InFlight' = InFlight
      /\ \A q \in posts' : \E p \in posts : q.signal = p.signal
      /\ (posts = {}) => (posts' = {})
  <2>1. CASE on
    <3>1. \A p \in posts : /\ [p EXCEPT !.old = TRUE] \in Post
                           /\ [p EXCEPT !.old = TRUE].items = p.items
                           /\ [p EXCEPT !.old = TRUE].signal = p.signal
      BY DEF ExportInv, PostsOK, Post
    <3>2. posts' = {[p EXCEPT !.old = TRUE] : p \in posts} BY <1>1, <2>1
    <3>3. ASSUME NEW q \in posts'
          PROVE  \E p \in posts : /\ q \in Post /\ q.items = p.items
                                  /\ q.signal = p.signal
      <4>1. PICK p \in posts : q = [p EXCEPT !.old = TRUE] BY <3>2, <3>3
      <4> QED BY <3>1, <4>1
    <3>4. InFlight' = InFlight
      <4>1. ASSUME NEW x \in InFlight PROVE x \in InFlight'
        <5>1. PICK p \in posts : x \in p.items BY <4>1 DEF InFlight
        <5>2. PICK q \in posts' : q = [p EXCEPT !.old = TRUE] BY <3>2
        <5>3. q.items = p.items BY <3>1, <5>2
        <5> QED BY <5>1, <5>3 DEF InFlight
      <4>2. ASSUME NEW x \in InFlight' PROVE x \in InFlight
        <5>1. PICK q \in posts' : x \in q.items BY <4>2 DEF InFlight
        <5> QED BY <3>3, <5>1 DEF InFlight
      <4> QED BY <4>1, <4>2
    <3>5. \A q, r \in posts' : q = r
      <4> SUFFICES ASSUME NEW q \in posts', NEW r \in posts' PROVE q = r
        OBVIOUS
      <4>1. PICK p \in posts : q = [p EXCEPT !.old = TRUE] BY <3>2
      <4>2. PICK o \in posts : r = [o EXCEPT !.old = TRUE] BY <3>2
      <4>3. p = o BY DEF ExportInv, PostsOK
      <4> QED BY <4>1, <4>2, <4>3
    <3>6. posts = {} <=> posts' = {} BY <3>2
    <3>7. PostsOK'
      BY <1>1, <3>3, <3>5, <3>6 DEF ExportInv, PostsOK
    <3> QED BY <3>3, <3>4, <3>6, <3>7
  <2>2. CASE ~on
    <3>1. UNCHANGED <<posts, exporting>> BY <1>1, <2>2
    <3> QED BY <3>1, PostsFrame DEF ExportInv
  <2> QED BY <2>1, <2>2
<1>5. capacity' \in {capacity, CAPACITY} BY <1>1
<1>6. Apart(Queued, Retrying, InFlight, accepted, unloaded, discarded)
  BY DEF ExportInv, LedgerOK
<1>7. failed_refreshes \in Nat
        /\ failed_refreshes \in 0 .. MAX_CONSECUTIVE_FAILURES
        /\ (~is_off => failed_refreshes < MAX_CONSECUTIVE_FAILURES)
  BY DEF ExportInv, PolicyOK
<1>8. has_credentials => ~is_off
  BY DEF has_credentials, is_off, OffReason
<1>9. failed_refreshes' \in 0 .. MAX_CONSECUTIVE_FAILURES
  BY <1>1, <1>7, <1>8, Limits
<1>10. CASE next \in OffReason
  <2>1. StillOff \/ JustOff
    BY <1>1, <1>10, StopEffect DEF ExportInv, PolicyOK
  <2>2. /\ QueueOK' /\ RetryOK' /\ PolicyOK' /\ OffIsEmpty' /\ is_off'
        /\ \A s \in Signal : retry'[s].items = {}
        /\ Queued' = {} /\ Retrying' = {}
        /\ discarded' = discarded \cup Queued \cup Retrying
    BY <1>5, <1>9, <2>1, StopIsSound
  <2>3. \A q \in posts' : q.signal \in Signal BY <1>4 DEF PostsOK, Post
  <2>4. SlotIsFree' BY <2>2, <2>3 DEF SlotIsFree
  <2>5. RefusedIsSilent'
    BY <1>1, <1>4, <2>2 DEF ExportInv, RefusedIsSilent
  <2>6. Apart(Queued', Retrying', InFlight', accepted', unloaded',
              discarded')
    BY <1>1, <1>4, <1>6, <2>2 DEF Apart
  <2>7. Held' = Held BY <1>1, <1>4, <2>2 DEF Held
  <2>8. LedgerOK' BY <1>1, <2>6, <2>7, LedgerMoves DEF ExportInv
  <2> QED BY <1>3, <1>4, <2>2, <2>4, <2>5, <2>8 DEF ExportInv
<1>11. CASE next \notin OffReason
  <2>1. /\ lifecycle' = next
        /\ policy' = IF on THEN [policy EXCEPT !.refresh_pending = FALSE]
                     ELSE policy
        /\ UNCHANGED <<retry, outbox, discarded, off_lines>>
    BY <1>1, <1>11
  <2>2. ~is_off /\ ~is_off' BY <1>2, <1>11, <2>1 DEF is_off
  <2>3. policy' \in Policy /\ policy'.stopped = policy.stopped
          /\ policy'.failures = policy.failures
          /\ (~on => policy' = policy)
    BY <2>1 DEF ExportInv, PolicyOK, Policy
  <2>4. failed_refreshes' < MAX_CONSECUTIVE_FAILURES
    BY <1>1, <1>2, <1>7, <1>11, <2>2, Limits
  <2>5. PolicyOK'
    BY <1>2, <1>9, <2>1, <2>2, <2>3, <2>4 DEF ExportInv, PolicyOK
  <2>6. QueueOK' /\ Queued' = Queued
    BY <1>5, <2>1, QueueFrame DEF ExportInv
  <2>7. RetryOK' /\ Retrying' = Retrying
    BY <2>1, RetryFrame DEF ExportInv
  <2>8. SlotIsFree' BY <1>4, <2>1 DEF ExportInv, SlotIsFree
  <2>9. OffIsEmpty' BY <2>2 DEF OffIsEmpty
  <2>10. RefusedIsSilent'
    BY <1>1, <1>4, <2>2, <2>3 DEF ExportInv, RefusedIsSilent
  <2>11. Held' = Held BY <1>1, <1>4, <2>1, <2>6, <2>7 DEF Held
  <2>12. LedgerOK'
    BY <1>1, <1>4, <1>6, <2>1, <2>6, <2>7, <2>11, LedgerMoves DEF ExportInv
  <2> QED
      BY <1>3, <1>4, <2>5, <2>6, <2>7, <2>8, <2>9, <2>10, <2>12 DEF ExportInv
<1> QED BY <1>10, <1>11

\* flush_on_pagehide: each queue is cut, and what was cut off is sent or
\* discarded.
LEMMA PagehideIsSound ==
  ASSUME ExportInv, flush_on_pagehide
  PROVE  ExportInv'
<1> DEFINE max == KEEPALIVE_MAX_ITEMS
           batch == [s \in Signal |-> take_batch(s, max)]
           taken == UNION {Range(batch[s]) : s \in Signal}
           sent(f) == UNION {Range(SubSeq(batch[s], 1, f[s])) : s \in Signal}
<1>1. /\ has_credentials
      /\ outbox' = [s \in Signal |-> AfterTaking(s, max)]
      /\ UNCHANGED <<capacity, dropped, produced, accepted>>
      /\ UNCHANGED <<lifecycle, policy, failed_refreshes, off_lines>>
      /\ UNCHANGED <<retry, exporting, posts>>
      /\ UNCHANGED <<usable, fetching, signed_in, flushing, loop, due, age,
                     refused>>
  BY DEF flush_on_pagehide, configVars, sendVars, loopVars
<1>2. PICK fit \in [Signal -> 0 .. max] :
        /\ \A s \in Signal : \/ fit[s] \in fit_keepalive(Len(batch[s]))
                             \/ (batch[s] = <<>> /\ fit[s] = 0)
        /\ unloaded' = unloaded \cup sent(fit)
        /\ discarded' = discarded \cup (taken \ sent(fit))
  BY DEF flush_on_pagehide
<1>3. max \in Nat BY Limits
<1> HIDE DEF max
<1>4. \A s \in Signal :
        /\ batch[s] \in Seq(Item) /\ IsInjective(batch[s])
        /\ Range(batch[s]) \subseteq Range(outbox[s])
        /\ outbox'[s] \in Seq(Item) /\ IsInjective(outbox'[s])
        /\ Len(outbox'[s]) <= Len(outbox[s])
        /\ Range(outbox'[s]) = Range(outbox[s]) \ Range(batch[s])
  BY <1>1, <1>3, TakeIsSound DEF ExportInv
<1> HIDE DEF batch
<1>5. sent(fit) \subseteq taken
  <2>1. ASSUME NEW s \in Signal
        PROVE  Range(SubSeq(batch[s], 1, fit[s])) \subseteq Range(batch[s])
    <3>1. Len(batch[s]) \in Nat BY <1>4
    <3>2. batch[s] = <<>> => Len(batch[s]) = 0 OBVIOUS
    <3>3. fit[s] \in 0 .. Len(batch[s])
      <4>1. CASE fit[s] \in fit_keepalive(Len(batch[s]))
        <5>1. fit[s] \in 1 .. Len(batch[s]) BY <4>1 DEF fit_keepalive
        <5> QED BY <3>1, <5>1
      <4>2. CASE batch[s] = <<>> /\ fit[s] = 0 BY <3>1, <3>2, <4>2
      <4> QED BY <1>2, <4>1, <4>2
    <3> QED BY <1>4, <3>3, CutQueue
  <2> QED BY <2>1
<1> DEFINE gone == sent(fit)
<1>6. /\ unloaded' = unloaded \cup gone
      /\ discarded' = discarded \cup (taken \ gone)
      /\ gone \subseteq taken
  BY <1>2, <1>5
<1>7. taken = Range(batch["traces"]) \cup Range(batch["logs"])
  BY DEF Signal
<1> HIDE DEF gone, taken
<1>8. "traces" \in Signal /\ "logs" \in Signal BY DEF Signal
<1>9. Range(outbox["traces"]) \cap Range(outbox["logs"]) = {}
  BY DEF ExportInv, QueueOK
<1>10. /\ Queued' = Queued \ taken /\ taken \subseteq Queued
       /\ Range(outbox'["traces"]) \cap Range(outbox'["logs"]) = {}
  BY <1>4, <1>7, <1>8, <1>9, TwoSignals, TwoSignalsNext
<1>11. QueueOK'
  <2>1. outbox' \in [Signal -> Seq(Item)] BY <1>1, <1>4
  <2>2. capacity \in Nat /\ capacity' = capacity
          /\ \A s \in Signal : Len(outbox[s]) <= capacity
    BY <1>1, Limits DEF ExportInv, QueueOK
  <2>3. \A s \in Signal : outbox[s] \in Seq(Item) BY DEF ExportInv, QueueOK
  <2>4. \A s \in Signal : Len(outbox'[s]) \in Nat /\ Len(outbox[s]) \in Nat
    BY <1>4, <2>3
  <2>5. \A s \in Signal : Len(outbox'[s]) <= capacity'
    BY <1>4, <2>2, <2>4
  <2>6. capacity' \in {PRE_CONFIG_CAPACITY, CAPACITY}
    BY <2>2 DEF ExportInv, QueueOK
  <2> QED BY <1>4, <1>10, <2>1, <2>5, <2>6 DEF QueueOK
<1>12. /\ RetryOK' /\ PostsOK' /\ SlotIsFree'
       /\ Retrying' = Retrying /\ InFlight' = InFlight
  BY <1>1, SendFrame
<1>13. PolicyOK' /\ is_off' = is_off BY <1>1, PolicyFrame
<1>14. OffIsEmpty'
  BY <1>1, <1>13 DEF OffIsEmpty, has_credentials, is_off, OffReason
<1>15. RefusedIsSilent' BY <1>1, <1>13, RefusedFrame
<1>16. Apart(Queued, Retrying, InFlight, accepted, unloaded, discarded)
  BY DEF ExportInv, LedgerOK
<1>17. Apart(Queued', Retrying', InFlight', accepted', unloaded', discarded')
  BY <1>1, <1>6, <1>10, <1>12, <1>16 DEF Apart
<1>18. Held' = Held BY <1>1, <1>6, <1>10, <1>12 DEF Held
<1>19. LedgerOK' BY <1>1, <1>17, <1>18, LedgerMoves DEF ExportInv
<1>20. RestOK' BY <1>1 DEF ExportInv, RestOK
<1> QED BY <1>11, <1>12, <1>13, <1>14, <1>15, <1>19, <1>20 DEF ExportInv

-----------------------------------------------------------------------------
(* The loop and time.                                                      *)

\* A step that leaves the queues, the exports and the ledger alone.
LEMMA QuietIsSound ==
  ASSUME ExportInv, PolicyOK', is_off' = is_off,
         policy'.refresh_pending = policy.refresh_pending,
         UNCHANGED <<outbox, capacity, dropped, produced>>,
         UNCHANGED <<retry, exporting, posts>>,
         UNCHANGED <<accepted, unloaded, discarded, refused>>
  PROVE  /\ QueueOK' /\ RetryOK' /\ PostsOK' /\ SlotIsFree' /\ PolicyOK'
         /\ OffIsEmpty' /\ RefusedIsSilent' /\ LedgerOK'
<1>1. QueueOK' /\ Queued' = Queued BY QueueFrame DEF ExportInv
<1>2. /\ RetryOK' /\ PostsOK' /\ SlotIsFree'
      /\ Retrying' = Retrying /\ InFlight' = InFlight
  BY SendFrame
<1>3. OffIsEmpty' BY <1>1, <1>2 DEF OffIsEmpty, ExportInv
<1>4. RefusedIsSilent' BY RefusedFrame
<1>5. LedgerOK' BY <1>1, <1>2 DEF ExportInv, LedgerOK, Held
<1> QED BY <1>1, <1>2, <1>3, <1>4, <1>5

\* The export a panic spawned, and the loop's.
LEMMA FlushIsSound ==
  ASSUME ExportInv, flush
  PROVE  ExportInv'
<1>1. /\ export_once("flush") /\ flushing' = FALSE
      /\ UNCHANGED <<capacity, dropped, produced>>
      /\ UNCHANGED <<lifecycle, policy, failed_refreshes, off_lines>>
      /\ UNCHANGED <<accepted, unloaded, discarded, refused>>
      /\ UNCHANGED <<usable, fetching, signed_in, loop, due, age>>
  BY DEF flush, configVars, loopVars, historyVars
<1>2. /\ QueueOK' /\ RetryOK' /\ PostsOK' /\ SlotIsFree' /\ PolicyOK'
      /\ OffIsEmpty' /\ RefusedIsSilent' /\ LedgerOK'
  BY <1>1, ExportIsSound
<1>3. RestOK' BY <1>1 DEF ExportInv, RestOK
<1> QED BY <1>2, <1>3 DEF ExportInv

LEMMA LoopExportIsSound ==
  ASSUME ExportInv, loop_exports
  PROVE  ExportInv'
<1>1. /\ export_once("loop") /\ due' = FALSE /\ loop' \in {loop, "exporting"}
      /\ UNCHANGED <<capacity, dropped, produced>>
      /\ UNCHANGED <<lifecycle, policy, failed_refreshes, off_lines>>
      /\ UNCHANGED <<accepted, unloaded, discarded, refused>>
      /\ UNCHANGED <<usable, fetching, signed_in, flushing, age>>
  BY DEF loop_exports, Wakes, configVars, historyVars
<1>2. /\ QueueOK' /\ RetryOK' /\ PostsOK' /\ SlotIsFree' /\ PolicyOK'
      /\ OffIsEmpty' /\ RefusedIsSilent' /\ LedgerOK'
  BY <1>1, ExportIsSound
<1>3. RestOK' BY <1>1 DEF ExportInv, RestOK
<1> QED BY <1>2, <1>3 DEF ExportInv

\* A wait for configuration that is over.
LEMMA TimeOutIsSound ==
  ASSUME ExportInv, loop_times_out
  PROVE  ExportInv'
<1>1. /\ stop("ConfigTimedOut", policy, retry) /\ due' = FALSE
      /\ UNCHANGED <<capacity, dropped, failed_refreshes, exporting, posts>>
      /\ UNCHANGED <<produced, accepted, unloaded, refused>>
      /\ UNCHANGED <<usable, fetching, signed_in, flushing, loop, age>>
  BY DEF loop_times_out, Wakes
<1>2. "ConfigTimedOut" \in OffReason BY DEF OffReason
<1>3. /\ QueueOK' /\ RetryOK' /\ PostsOK' /\ SlotIsFree' /\ PolicyOK'
      /\ OffIsEmpty' /\ RefusedIsSilent' /\ LedgerOK'
  BY <1>1, <1>2, HaltIsSound
<1>4. RestOK' BY <1>1 DEF ExportInv, RestOK
<1> QED BY <1>3, <1>4 DEF ExportInv

\* The loop's end: a stop came before it, so there is nothing to discard.
LEMMA FinishIsSound ==
  ASSUME ExportInv, loop_finishes
  PROVE  ExportInv'
<1>1. /\ Finished /\ loop' = "done" /\ due' = FALSE
      /\ discarded' = discarded \cup Queued \cup Retrying
      /\ outbox' = [s \in Signal |-> <<>>]
      /\ retry' = [s \in Signal |-> NoPending]
      /\ UNCHANGED <<capacity, dropped, produced>>
      /\ UNCHANGED <<lifecycle, policy, failed_refreshes, off_lines>>
      /\ UNCHANGED <<posts, exporting>>
      /\ UNCHANGED <<usable, fetching, signed_in, flushing, age>>
      /\ UNCHANGED <<accepted, unloaded, refused>>
  BY DEF loop_finishes, Wakes, configVars
<1>2. is_off BY <1>1 DEF Finished, ExportInv, PolicyOK
<1>3. Queued = {} /\ Retrying = {} BY <1>2 DEF ExportInv, OffIsEmpty
<1>4. Queued' = {}
  <2>1. (outbox = [s \in Signal |-> <<>>] => Queued = {})'
    BY NothingQueued, PTL
  <2> QED BY <1>1, <2>1
<1>5. Retrying' = {} /\ RetryOK' /\ \A s \in Signal : retry'[s].items = {}
  <2>1. (retry = [s \in Signal |-> NoPending] =>
           Retrying = {} /\ RetryOK
             /\ \A s \in Signal : retry[s].items = {})'
    BY NothingKept, PTL
  <2> QED BY <1>1, <2>1
<1>6. QueueOK'
  <2>1. ((/\ outbox = [s \in Signal |-> <<>>]
          /\ capacity \in {PRE_CONFIG_CAPACITY, CAPACITY}) => QueueOK)'
    BY EmptyQueueOK, PTL
  <2>2. capacity' \in {PRE_CONFIG_CAPACITY, CAPACITY}
    BY <1>1 DEF ExportInv, QueueOK
  <2> QED BY <1>1, <2>1, <2>2
<1>7. PostsOK' /\ InFlight' = InFlight BY <1>1, PostsFrame DEF ExportInv
<1>8. \A p \in posts' : p.signal \in Signal BY <1>7 DEF PostsOK, Post
<1>9. SlotIsFree' BY <1>5, <1>8 DEF SlotIsFree
<1>10. PolicyOK' /\ is_off' = is_off BY <1>1, PolicyFrame
<1>11. OffIsEmpty' BY <1>4, <1>5 DEF OffIsEmpty
<1>12. RefusedIsSilent' BY <1>1, <1>10, RefusedFrame
<1>13. LedgerOK' BY <1>1, <1>3, <1>4, <1>5, <1>7 DEF ExportInv, LedgerOK, Held
<1>14. RestOK' BY <1>1 DEF ExportInv, RestOK
<1> QED
    BY <1>5, <1>6, <1>7, <1>9, <1>10, <1>11, <1>12, <1>13, <1>14 DEF ExportInv

LEMMA RefreshIsSound ==
  ASSUME ExportInv, loop_refreshes
  PROVE  ExportInv'
<1>1. /\ due' = FALSE /\ fetching' \in {"loop", fetching}
      /\ loop' \in {"refreshing", loop}
      /\ UNCHANGED <<outbox, capacity, dropped, produced>>
      /\ UNCHANGED <<lifecycle, policy, failed_refreshes, off_lines>>
      /\ UNCHANGED <<retry, exporting, posts>>
      /\ UNCHANGED <<accepted, unloaded, discarded, refused>>
      /\ UNCHANGED <<usable, signed_in, flushing, age>>
  BY DEF loop_refreshes, Wakes, queueVars, sendVars, historyVars
<1>2. PolicyOK' /\ is_off' = is_off BY <1>1, PolicyFrame
<1>3. /\ QueueOK' /\ RetryOK' /\ PostsOK' /\ SlotIsFree'
      /\ OffIsEmpty' /\ RefusedIsSilent' /\ LedgerOK'
  BY <1>1, <1>2, QuietIsSound
<1>4. RestOK' BY <1>1 DEF ExportInv, RestOK
<1> QED BY <1>2, <1>3, <1>4 DEF ExportInv

LEMMA TimeIsSound ==
  ASSUME ExportInv, Tick \/ token_ages \/ backoff_ends \/ UNCHANGED vars
  PROVE  ExportInv'
<1>1. /\ UNCHANGED <<outbox, capacity, dropped, produced>>
      /\ UNCHANGED <<retry, exporting, posts>>
      /\ UNCHANGED <<accepted, unloaded, discarded, refused>>
      /\ UNCHANGED <<lifecycle, failed_refreshes, off_lines>>
      /\ UNCHANGED <<fetching, signed_in, flushing, loop>>
  BY DEF Tick, token_ages, backoff_ends, vars, queueVars, configVars, sendVars,
         loopVars, historyVars
<1>2. /\ usable' \in {usable, FALSE} /\ due' \in {due, TRUE}
      /\ policy' \in {policy, [policy EXCEPT !.waiting = FALSE]}
  BY DEF Tick, token_ages, backoff_ends, vars, queueVars, configVars, sendVars,
         loopVars, historyVars
<1>3. age' = age \/ (age <= PRE_CONFIG_MAX /\ age' = age + 1)
  BY DEF Tick, token_ages, backoff_ends, vars, queueVars, configVars, sendVars,
         loopVars, historyVars
<1>4. is_off' = is_off BY <1>1 DEF is_off
<1>5. policy' \in Policy /\ policy'.stopped = policy.stopped
        /\ policy'.failures = policy.failures
        /\ policy'.refresh_pending = policy.refresh_pending
  BY <1>2 DEF ExportInv, PolicyOK, Policy
<1>6. PolicyOK' BY <1>1, <1>4, <1>5 DEF ExportInv, PolicyOK
<1>7. /\ QueueOK' /\ RetryOK' /\ PostsOK' /\ SlotIsFree'
      /\ OffIsEmpty' /\ RefusedIsSilent' /\ LedgerOK'
  BY <1>1, <1>4, <1>5, <1>6, QuietIsSound
<1>8. age' \in 0 .. PRE_CONFIG_MAX + 1
  BY <1>3, Limits DEF ExportInv, RestOK
<1>9. RestOK' BY <1>1, <1>2, <1>8 DEF ExportInv, RestOK
<1> QED BY <1>6, <1>7, <1>9 DEF ExportInv

-----------------------------------------------------------------------------
(* The theorems.                                                           *)

LEMMA ExportInit == Init => ExportInv
<1> SUFFICES ASSUME Init PROVE ExportInv OBVIOUS
<1>1. QueueOK BY EmptyQueueOK DEF Init
<1>2. Queued = {} BY NothingQueued DEF Init
<1>3. Retrying = {} /\ RetryOK BY NothingKept DEF Init
<1>4. InFlight = {} BY NoPost DEF Init
<1>5. PostsOK /\ SlotIsFree BY DEF Init, PostsOK, SlotIsFree
<1>6. ~is_off BY DEF Init, is_off, OffReason
<1>7. policy \in Policy /\ policy.stopped = Running /\ policy.failures = 0
  BY Limits DEF Init, Policy
<1>8. PolicyOK BY <1>6, <1>7, Limits DEF Init, PolicyOK
<1>9. OffIsEmpty /\ RefusedIsSilent
  BY <1>6 DEF Init, OffIsEmpty, RefusedIsSilent
<1>10. Held = {} BY <1>2, <1>3, <1>4 DEF Held, Init
<1>11. Cardinality({}) = 0 BY FS_EmptySet
<1>12. Balances({}, 0, 0) BY <1>11 DEF Balances
<1>13. LedgerOK
  <2>1. /\ produced = 0 /\ dropped = 0
        /\ accepted = {} /\ unloaded = {} /\ discarded = {}
    BY DEF Init
  <2>2. Apart({}, {}, {}, {}, {}, {}) BY DEF Apart
  <2>3. produced \in 0 .. MaxItems /\ dropped \in Nat BY <2>1, Limits
  <2> QED BY <1>2, <1>3, <1>4, <1>10, <1>12, <2>1, <2>2, <2>3 DEF LedgerOK
<1>14. RestOK
  <2>1. {usable, flushing, due, refused} \subseteq BOOLEAN BY DEF Init
  <2>2. age \in 0 .. PRE_CONFIG_MAX + 1 BY Limits DEF Init
  <2>3. /\ fetching = "none" /\ signed_in = "unknown" /\ loop = "asleep"
    BY DEF Init
  <2> QED BY <2>1, <2>2, <2>3 DEF RestOK
<1> QED BY <1>1, <1>3, <1>5, <1>8, <1>9, <1>13, <1>14 DEF ExportInv

LEMMA ExportStep ==
  ASSUME ExportInv, [Next]_vars
  PROVE  ExportInv'
<1>1. ASSUME NEW s \in Signal, record_item(s) PROVE ExportInv'
  <2>1. flushing' \in BOOLEAN BY <1>1 DEF record_item, ExportInv, RestOK
  <2> QED BY <1>1, <2>1, RecordIsSound DEF record_item
<1>2. CASE panic
  <2>1. flushing' \in BOOLEAN BY <1>2 DEF panic, has_credentials
  <2>2. Record("logs") /\ "logs" \in Signal BY <1>2 DEF panic, Signal
  <2> QED BY <2>1, <2>2, RecordIsSound
<1>3. ASSUME NEW yes \in BOOLEAN, set_session(yes) PROVE ExportInv'
  BY <1>3, SessionIsSound
<1>4. CASE ConfigAnswers BY <1>4, ConfigIsSound DEF ConfigAnswers
<1>5. CASE PostAnswers BY <1>5, AnswerIsSound DEF PostAnswers
<1>6. CASE flush BY <1>6, FlushIsSound
<1>7. CASE flush_on_pagehide BY <1>7, PagehideIsSound
<1>8. CASE loop_times_out BY <1>8, TimeOutIsSound
<1>9. CASE loop_finishes BY <1>9, FinishIsSound
<1>10. CASE loop_refreshes BY <1>10, RefreshIsSound
<1>11. CASE loop_exports BY <1>11, LoopExportIsSound
<1>12. CASE Tick \/ token_ages \/ backoff_ends \/ UNCHANGED vars
  BY <1>12, TimeIsSound
<1> QED BY <1>1, <1>2, <1>3, <1>4, <1>5, <1>6, <1>7, <1>8, <1>9, <1>10,
           <1>11, <1>12
        DEF Next

\* The inductive invariant: the queues, the exports, the policy and the
\* ledger are sound, whatever interleaving of the loop, a panic's flush, the
\* page's end and the answers has happened.
THEOREM TelemetryInvariant == Spec => []ExportInv
BY ExportInit, ExportStep, PTL DEF Spec

\* What the exporters hold is bounded by the queues' capacity and one batch
\* a signal, and is nothing once telemetry is off, which is said once.
THEOREM TelemetryOutboxIsSound == Spec => []OutboxIsSound
<1>1. ExportInv => OutboxIsSound
  <2> SUFFICES ASSUME ExportInv PROVE OutboxIsSound OBVIOUS
  <2>1. /\ produced \in 0 .. MaxItems /\ dropped \in Nat
        /\ Balances(Held, produced, dropped)
    BY DEF ExportInv, LedgerOK
  <2>2. Held \subseteq 1 .. produced /\ Cardinality(Held) + dropped = produced
    BY <2>1 DEF Balances
  <2>3. produced \in Nat /\ produced <= MaxItems BY <2>1, Limits
  <2>4. Cardinality(Held) \in Nat BY <2>2, <2>3, HeldIsFinite
  <2>5. dropped \in 0 .. MaxItems BY <2>1, <2>2, <2>3, <2>4, Limits
  <2>6. \A gone \in {accepted, unloaded, discarded} : gone \subseteq Item
    <3>1. Held \subseteq Item BY <2>2, <2>3, Limits DEF Item
    <3> QED BY <3>1 DEF Held
  <2>7. TypeOK
    <3>1. /\ outbox \in [Signal -> Seq(Item)]
          /\ capacity \in {PRE_CONFIG_CAPACITY, CAPACITY}
          /\ lifecycle \in {"awaiting", "configured"} \cup OffReason
          /\ failed_refreshes \in 0 .. MAX_CONSECUTIVE_FAILURES
          /\ policy \in Policy
          /\ retry \in [Signal -> Pending]
          /\ posts \subseteq Post
      BY DEF ExportInv, QueueOK, PolicyOK, RetryOK, PostsOK
    <3>2. off_lines \in Nat BY DEF ExportInv, PolicyOK
    <3>3. {usable, exporting, flushing, due, refused} \subseteq BOOLEAN
      BY DEF ExportInv, RestOK, PostsOK
    <3> QED BY <2>1, <2>5, <2>6, <3>1, <3>2, <3>3 DEF TypeOK, ExportInv, RestOK
  <2>8. MemoryIsBounded
    <3> SUFFICES ASSUME NEW s \in Signal
                 PROVE  /\ Len(outbox[s]) <= capacity
                        /\ Cardinality(retry[s].items \cup
                             UNION {p.items : p \in {q \in posts :
                                                       q.signal = s}})
                             <= MAX_BATCH
      BY DEF MemoryIsBounded
    <3>1. Len(outbox[s]) <= capacity BY DEF ExportInv, QueueOK
    <3>2. CASE \E p \in posts : p.signal = s
      <4>1. PICK p \in posts : p.signal = s BY <3>2
      <4>2. {q \in posts : q.signal = s} = {p}
        BY <4>1 DEF ExportInv, PostsOK
      <4>3. retry[s].items = {} BY <4>1 DEF ExportInv, SlotIsFree
      <4>4. retry[s].items \cup
              UNION {r.items : r \in {q \in posts : q.signal = s}} = p.items
        BY <4>2, <4>3
      <4> QED BY <3>1, <4>4 DEF ExportInv, PostsOK
    <3>3. CASE ~\E p \in posts : p.signal = s
      <4>1. {q \in posts : q.signal = s} = {} BY <3>3
      <4>2. retry[s].items \cup
              UNION {r.items : r \in {q \in posts : q.signal = s}}
              = retry[s].items
        BY <4>1
      <4> QED BY <3>1, <4>2 DEF ExportInv, RetryOK
    <3> QED BY <3>2, <3>3
  <2>9. OffHoldsNothing
    BY DEF ExportInv, PolicyOK, OffIsEmpty, OffHoldsNothing
  <2>10. OffIsSaidOnce BY DEF ExportInv, PolicyOK, OffIsSaidOnce
  <2> QED BY <2>7, <2>8, <2>9, <2>10 DEF OutboxIsSound
<1> QED BY <1>1, TelemetryInvariant, PTL

\* Every item produced is in exactly one place, and the ones in none are the
\* ones counted as dropped.
THEOREM TelemetryItemsAreAccountedFor == Spec => []ItemsAreAccountedFor
<1>1. ExportInv => ItemsAreAccountedFor
  <2> SUFFICES ASSUME ExportInv PROVE ItemsAreAccountedFor OBVIOUS
  <2> DEFINE places == <<Queued, Retrying, InFlight, accepted, unloaded,
                         discarded>>
  <2>1. /\ Apart(Queued, Retrying, InFlight, accepted, unloaded, discarded)
        /\ Balances(Held, produced, dropped)
    BY DEF ExportInv, LedgerOK
  <2>2. DOMAIN places = 1 .. 6 OBVIOUS
  <2>3. /\ places[1] = Queued /\ places[2] = Retrying
        /\ places[3] = InFlight /\ places[4] = accepted
        /\ places[5] = unloaded /\ places[6] = discarded
    OBVIOUS
  <2> HIDE DEF places
  <2>4. \A j \in DOMAIN places : j \in {1, 2, 3, 4, 5, 6} BY <2>2
  <2>5. /\ places[1] \cap places[2] = {} /\ places[1] \cap places[3] = {}
        /\ places[1] \cap places[4] = {} /\ places[1] \cap places[5] = {}
        /\ places[1] \cap places[6] = {} /\ places[2] \cap places[3] = {}
        /\ places[2] \cap places[4] = {} /\ places[2] \cap places[5] = {}
        /\ places[2] \cap places[6] = {} /\ places[3] \cap places[4] = {}
        /\ places[3] \cap places[5] = {} /\ places[3] \cap places[6] = {}
        /\ places[4] \cap places[5] = {} /\ places[4] \cap places[6] = {}
        /\ places[5] \cap places[6] = {}
    BY <2>1, <2>3 DEF Apart
  <2>6. \A j, k \in DOMAIN places : j # k => places[j] \cap places[k] = {}
    BY <2>4, <2>5
  <2>7. Range(places) = {places[j] : j \in 1 .. 6} BY <2>2 DEF Range
  <2>8. {places[j] : j \in 1 .. 6}
          = {places[1], places[2], places[3], places[4], places[5], places[6]}
    <3>1. 1 .. 6 = {1, 2, 3, 4, 5, 6} OBVIOUS
    <3> QED BY <3>1
  <2>9. UNION Range(places) = Held BY <2>3, <2>7, <2>8 DEF Held
  <2>10. Cardinality(UNION Range(places)) + dropped = produced
    BY <2>1, <2>9 DEF Balances
  <2> QED BY <2>6, <2>10 DEF ItemsAreAccountedFor, places
<1> QED BY <1>1, TelemetryInvariant, PTL

\* A stop that comes second changes nothing of the first.
LEMMA StopIsFinal ==
  ASSUME NEW reason, NEW pol, NEW kept, is_off, stop(reason, pol, kept)
  PROVE  lifecycle' = lifecycle
BY DEF stop, TurnOff

\* Off is final: no answer, and no session, turns telemetry on again.
THEOREM TelemetryOffIsFinal == Spec => OffIsFinal
<1>1. ExportInv /\ [Next]_vars => [is_off => lifecycle' = lifecycle]_vars
  <2> SUFFICES ASSUME ExportInv, Next, is_off PROVE lifecycle' = lifecycle
    OBVIOUS
  <2> USE DEF configVars
  <2>1. ASSUME NEW s \in Signal, Record(s) PROVE lifecycle' = lifecycle
    BY <2>1 DEF Record
  <2>2. ASSUME NEW yes \in BOOLEAN, set_session(yes)
        PROVE  lifecycle' = lifecycle
    BY <2>2, StopIsFinal DEF set_session
  <2>3. ASSUME NEW fetch \in ConfigFetch, config_answer(fetch)
        PROVE  lifecycle' = lifecycle
    <3>1. on_config(fetch) = lifecycle BY ConfigEffect DEF ExportInv
    <3>2. on_config(fetch) \in OffReason BY <3>1 DEF is_off
    <3>3. stop(on_config(fetch), policy, retry)
      BY <2>3, <3>2 DEF config_answer
    <3> QED BY <3>3, StopIsFinal
  <2>4. ASSUME NEW p \in posts, NEW outcome \in ExportOutcome,
               post_answer(p, outcome)
        PROVE  lifecycle' = lifecycle
    BY <2>4, StopIsFinal DEF post_answer
  <2>5. CASE loop_times_out BY <2>5, StopIsFinal DEF loop_times_out
  <2>6. CASE flush \/ flush_on_pagehide \/ loop_finishes \/ loop_refreshes
             \/ loop_exports \/ Tick \/ backoff_ends \/ token_ages
    BY <2>6
    DEF flush, flush_on_pagehide, loop_finishes, loop_refreshes, loop_exports,
        Tick, backoff_ends, token_ages
  <2>7. CASE panic BY <2>1, <2>7 DEF panic, Signal
  <2> QED
      BY <2>1, <2>2, <2>3, <2>4, <2>5, <2>6, <2>7
      DEF Next, record_item, ConfigAnswers, PostAnswers
<1> QED BY <1>1, TelemetryInvariant, PTL DEF Spec, OffIsFinal

\* What SilentWhenRefusedOrOff says of a step.
NothingNewIsSent ==
    /\ unloaded' = unloaded
    /\ \A p \in posts' : \E q \in posts :
          p.items = q.items /\ p.attempts = q.attempts

\* Nothing is sent with a token the ingest has refused, or once telemetry is
\* off, by the loop, a panic's flush, an answer or the page's end.
THEOREM TelemetrySilentWhenRefusedOrOff == Spec => SilentWhenRefusedOrOff
<1>1. ExportInv /\ [Next]_vars =>
        [is_off \/ refused => NothingNewIsSent]_vars
  <2> SUFFICES ASSUME ExportInv, Next, is_off \/ refused
               PROVE  NothingNewIsSent
    OBVIOUS
  <2>1. ~should_export
    BY DEF ExportInv, PolicyOK, RefusedIsSilent, should_export
  <2>2. UNCHANGED <<unloaded, posts>> => NothingNewIsSent
    BY DEF NothingNewIsSent
  <2>3. ASSUME NEW s \in Signal, Record(s) PROVE NothingNewIsSent
    BY <2>2, <2>3 DEF Record
  <2>4. ASSUME NEW yes \in BOOLEAN, set_session(yes) PROVE NothingNewIsSent
    BY <2>2, <2>4 DEF set_session
  <2>5. ASSUME NEW fetch \in ConfigFetch, config_answer(fetch)
        PROVE  NothingNewIsSent
    <3>1. /\ unloaded' = unloaded
          /\ posts' \in {{[p EXCEPT !.old = TRUE] : p \in posts}, posts}
      BY <2>5 DEF config_answer
    <3>2. CASE posts' = posts BY <2>2, <3>1, <3>2
    <3>3. CASE posts' = {[p EXCEPT !.old = TRUE] : p \in posts}
      <4> SUFFICES ASSUME NEW q \in posts'
                   PROVE  \E p \in posts : /\ q.items = p.items
                                           /\ q.attempts = p.attempts
        BY <3>1 DEF NothingNewIsSent
      <4>1. PICK p \in posts : q = [p EXCEPT !.old = TRUE] BY <3>3
      <4>2. p \in Post BY DEF ExportInv, PostsOK
      <4>3. q.items = p.items /\ q.attempts = p.attempts
        BY <4>1, <4>2 DEF Post
      <4> QED BY <4>3
    <3> QED BY <3>1, <3>2, <3>3
  <2>6. ASSUME NEW p \in posts, NEW outcome \in ExportOutcome,
               post_answer(p, outcome)
        PROVE  NothingNewIsSent
    <3>1. is_off BY DEF ExportInv, RefusedIsSilent
    <3>2. ~HasBatch("logs")
      BY <3>1 DEF HasBatch, has_credentials, is_off, OffReason
    <3>3. unloaded' = unloaded /\ posts' = posts \ {p}
      BY <2>6, <3>2 DEF post_answer
    <3> QED BY <3>3 DEF NothingNewIsSent
  <2>7. CASE flush
    BY <2>1, <2>2, <2>7 DEF flush, export_once, historyVars
  <2>8. CASE loop_exports
    BY <2>1, <2>2, <2>8 DEF loop_exports, export_once, historyVars
  <2>9. CASE flush_on_pagehide
    <3>1. ~is_off BY <2>9 DEF flush_on_pagehide, has_credentials, is_off,
                              OffReason
    <3> QED
        BY <2>9, <3>1
        DEF flush_on_pagehide, needs_refresh, ExportInv, RefusedIsSilent
  <2>10. CASE loop_times_out \/ loop_finishes \/ loop_refreshes \/ Tick
              \/ backoff_ends \/ token_ages
    BY <2>2, <2>10
    DEF loop_times_out, loop_finishes, loop_refreshes, Tick, backoff_ends,
        token_ages, sendVars, historyVars
  <2>11. CASE panic BY <2>3, <2>11 DEF panic, Signal
  <2> QED
      BY <2>3, <2>4, <2>5, <2>6, <2>7, <2>8, <2>9, <2>10, <2>11
      DEF Next, record_item, ConfigAnswers, PostAnswers
<1> QED
    BY <1>1, TelemetryInvariant, PTL
    DEF Spec, SilentWhenRefusedOrOff, NothingNewIsSent
=============================================================================
