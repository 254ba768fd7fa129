--------------------------- MODULE TelemetryExport ---------------------------
(***************************************************************************)
(* Telemetry of one page load of the SPA (telemetry.rs, outbox.rs): two    *)
(* bounded queues, the life cycle of the configuration, the send policy,   *)
(* and the tasks that share them.  The browser runs one task at a time     *)
(* but every await is a switch: while the export loop waits for an answer  *)
(* of the ingest or of the config route, items are pushed, a panic flushes *)
(* (a second exporter), the page is hidden, the session ends.              *)
(* An item is a number; a request body is the set of items it carries.     *)
(* Times are abstracted to what the code compares: whether a token is      *)
(* usable, whether a backoff is over, and ticks spent awaiting.            *)
(***************************************************************************)
EXTENDS Integers, Sequences, FiniteSets, Functions

CONSTANTS
    MaxItems,                \* bound: items produced
    CAPACITY,                \* of a queue, once configured
    PRE_CONFIG_CAPACITY,     \* of a queue, until then
    MAX_BATCH,               \* items in a request
    KEEPALIVE_MAX_ITEMS,     \* items a pagehide request starts from
    MAX_BATCH_ATTEMPTS,
    MAX_CONSECUTIVE_FAILURES,
    PRE_CONFIG_MAX           \* ticks to wait for configuration

ASSUME TelemetryAssumption ==
    /\ MaxItems \in Nat
    /\ {CAPACITY, MAX_BATCH, KEEPALIVE_MAX_ITEMS, MAX_BATCH_ATTEMPTS,
        MAX_CONSECUTIVE_FAILURES, PRE_CONFIG_MAX} \subseteq Nat \ {0}
    /\ PRE_CONFIG_CAPACITY \in 1 .. CAPACITY
    /\ MAX_BATCH <= CAPACITY

Signal == {"traces", "logs"}
OffReason == {"NotConfigured", "SignedOut", "ConfigTimedOut",
              "SessionExpired", "Unauthorized", "GaveUp"}
Running == "running"          \* policy.stopped = None
ExportOutcome == {"Accepted", "Unauthorized", "Rejected", "Retryable"}
ConfigFetch == {"Configured", "Expired", "Absent", "SignedOut",
                "Unavailable"}

Item == 1 .. MaxItems
NoPending == [items |-> {}, attempts |-> 0]
Pending == [items : SUBSET Item, attempts : 0 .. MAX_BATCH_ATTEMPTS]
Post == [owner : {"loop", "flush"}, signal : Signal, items : SUBSET Item,
         attempts : 1 .. MAX_BATCH_ATTEMPTS,
         old : BOOLEAN]   \* the credentials were replaced since it was sent

VARIABLES
    outbox,       \* the spans and logs waiting
    capacity,     \* of both queues
    lifecycle,    \* "awaiting", "configured" or an OffReason; never back
    usable,       \* the configured token is not expired or about to be
    failed_refreshes,
    policy,       \* ExportPolicy
    retry,        \* retry_spans, retry_logs
    dropped,      \* items counted as dropped: no room, or after a send
    exporting, posts,     \* the flag, and the exports awaiting an answer
    fetching,     \* the task awaiting a config answer, or "none"
    signed_in,
    flushing,     \* a panic has spawned an export that has not run yet
    loop, due,    \* the export loop, and whether its timer has run out
    age,          \* ticks spent awaiting configuration
    produced,     \* items produced so far
    accepted, unloaded, discarded,  \* history: where settled items went
    refused,      \* history: the ingest refused the configured token
    off_lines     \* history: console lines that say telemetry is off

queueVars == <<outbox, capacity, dropped>>
configVars == <<lifecycle, usable, failed_refreshes, fetching, signed_in>>
sendVars == <<policy, retry, exporting, posts, flushing>>
loopVars == <<loop, due, age>>
historyVars == <<accepted, unloaded, discarded, refused, off_lines>>
vars == <<queueVars, configVars, sendVars, loopVars, produced, historyVars>>

Policy == [stopped : OffReason \cup {Running},
           failures : 0 .. MAX_CONSECUTIVE_FAILURES,
           waiting : BOOLEAN,              \* now < next_attempt_at_ms
           refreshed_after_401 : BOOLEAN,
           refresh_pending : BOOLEAN]

TypeOK ==
    /\ outbox \in [Signal -> Seq(Item)]
    /\ capacity \in {PRE_CONFIG_CAPACITY, CAPACITY}
    /\ lifecycle \in {"awaiting", "configured"} \cup OffReason
    /\ failed_refreshes \in 0 .. MAX_CONSECUTIVE_FAILURES
    /\ policy \in Policy
    /\ retry \in [Signal -> Pending]
    /\ dropped \in 0 .. MaxItems
    /\ posts \subseteq Post
    /\ fetching \in {"none", "session", "loop"}
    /\ signed_in \in {"unknown", "yes", "no"}
    /\ loop \in {"asleep", "refreshing", "exporting", "done"}
    /\ {usable, exporting, flushing, due, refused} \subseteq BOOLEAN
    /\ age \in 0 .. PRE_CONFIG_MAX + 1
    /\ off_lines \in Nat
    /\ produced \in 0 .. MaxItems
    /\ \A gone \in {accepted, unloaded, discarded} : gone \subseteq Item

-----------------------------------------------------------------------------
(* The queue, the life cycle and the policy, as functions of their state.  *)

Queued == UNION {Range(outbox[s]) : s \in Signal}
Retrying == UNION {retry[s].items : s \in Signal}
InFlight == UNION {p.items : p \in posts}
is_off == lifecycle \in OffReason
has_credentials == lifecycle = "configured"
\* Mutant: a refusal is not followed by a refresh.
NoRefreshAfterRefusal == FALSE

needs_refresh == policy.stopped = Running /\ policy.refresh_pending

\* Mutant: an export may go out while a refresh is owed.
ShouldExportUnrefreshed == policy.stopped = Running /\ ~policy.waiting

should_export ==
    policy.stopped = Running /\ ~policy.refresh_pending /\ ~policy.waiting

\* Outbox::push of an item: the oldest makes room.
push(s, i) ==
    LET full == Len(outbox[s]) = capacity
    IN  /\ outbox' = [outbox EXCEPT ![s] =
                          Append(IF full THEN Tail(@) ELSE @, i)]
        /\ dropped' = IF full THEN dropped + 1 ELSE dropped
        /\ UNCHANGED capacity

\* Outbox::take_batch of at most `max` items: what it returns.
take_batch(s, max) ==
    SubSeq(outbox[s], 1, IF max < Len(outbox[s]) THEN max ELSE Len(outbox[s]))
AfterTaking(s, max) == SubSeq(outbox[s], Len(take_batch(s, max)) + 1,
                              Len(outbox[s]))

\* Mutant: a late configuration turns telemetry on again.
OnConfigRevives(fetch) ==
    IF fetch = "Configured" THEN "configured"
    ELSE IF is_off THEN lifecycle
    ELSE IF fetch = "Unavailable" THEN lifecycle ELSE "NotConfigured"

\* Lifecycle::on_config: what a fetch makes of the life cycle.
on_config(fetch) ==
    CASE is_off -> lifecycle
      [] ~is_off /\ fetch = "Configured" -> "configured"
      [] ~is_off /\ fetch = "Expired" -> "SessionExpired"
      [] ~is_off /\ fetch = "Absent" -> "NotConfigured"
      [] ~is_off /\ fetch = "SignedOut" ->
            IF has_credentials THEN "SessionExpired" ELSE "SignedOut"
      [] ~is_off /\ fetch = "Unavailable" ->
            IF has_credentials
                 /\ failed_refreshes + 1 >= MAX_CONSECUTIVE_FAILURES
            THEN "GaveUp" ELSE lifecycle

Stopped(p, reason) == IF p.stopped = Running THEN [p EXCEPT !.stopped = reason]
                      ELSE p

\* ExportPolicy::record: the policy after an answer to a batch.
Recorded(outcome) ==
    CASE policy.stopped # Running -> policy
      [] policy.stopped = Running /\ outcome = "Accepted" ->
            [policy EXCEPT !.failures = 0, !.refreshed_after_401 = FALSE,
                           !.waiting = FALSE]
      [] policy.stopped = Running /\ outcome = "Unauthorized" ->
            IF policy.refreshed_after_401 THEN Stopped(policy, "Unauthorized")
            ELSE [policy EXCEPT !.refreshed_after_401 = TRUE,
                                !.refresh_pending = TRUE]
      [] policy.stopped = Running /\ outcome = "Rejected" -> policy
      [] policy.stopped = Running /\ outcome = "Retryable" ->
            IF policy.failures + 1 >= MAX_CONSECUTIVE_FAILURES
            THEN [policy EXCEPT !.failures = @ + 1, !.stopped = "GaveUp"]
            ELSE [policy EXCEPT !.failures = @ + 1, !.waiting = TRUE]

\* Mutant: a batch is kept although telemetry was stopped meanwhile.
RetryAfterStop(outcome, attempts) ==
    outcome = "Retryable" /\ attempts < MAX_BATCH_ATTEMPTS

retry_batch(outcome, attempts) ==
    /\ policy.stopped = Running /\ outcome = "Retryable"
    /\ policy.failures + 1 < MAX_CONSECUTIVE_FAILURES
    /\ attempts < MAX_BATCH_ATTEMPTS

TurnOff(reason, pol, kept) ==
    /\ lifecycle' = IF is_off THEN lifecycle ELSE reason
    /\ policy' = Stopped(pol, reason)
    /\ discarded' = discarded \cup Queued
                        \cup UNION {kept[s].items : s \in Signal}
    /\ outbox' = [s \in Signal |-> <<>>]
    /\ retry' = [s \in Signal |-> NoPending]
    /\ off_lines' = off_lines + 1

\* stop(): everything off and discarded, unless it already is.  `pol` and
\* `kept` are the policy and the retries the caller's step left.
stop(reason, pol, kept) ==
    IF is_off /\ pol.stopped # Running
    THEN /\ policy' = pol
         /\ retry' = kept
         /\ UNCHANGED <<lifecycle, outbox, discarded, off_lines>>
    ELSE TurnOff(reason, pol, kept)

-----------------------------------------------------------------------------
(* Producers: spans that finish, screens that start, log lines.            *)

\* SpanHandle::finish, start_screen, push_log.
Record(s) ==
    /\ produced < MaxItems
    /\ produced' = produced + 1
    /\ IF is_off
       THEN /\ discarded' = discarded \cup {produced + 1}
            /\ UNCHANGED queueVars
       ELSE push(s, produced + 1) /\ UNCHANGED discarded
    /\ UNCHANGED <<configVars, policy, retry, exporting, posts, loopVars,
                   accepted, unloaded, refused, off_lines>>

record_item(s) == Record(s) /\ UNCHANGED flushing

\* The panic hook: its log line, then flush(), which spawns an export.
panic ==
    /\ ~flushing
    /\ Record("logs")
    /\ flushing' = has_credentials

-----------------------------------------------------------------------------
(* The session and the configuration.                                      *)

\* set_session, once the profile has been asked for; it starts the first
\* fetch, or ends telemetry.
set_session(yes) ==
    /\ signed_in = "unknown"
    /\ signed_in' = IF yes THEN "yes" ELSE "no"
    /\ IF yes
       THEN /\ fetching' = IF fetching = "none" /\ ~is_off
                           THEN "session" ELSE fetching
            /\ UNCHANGED <<lifecycle, policy, retry, outbox, discarded,
                           off_lines>>
       ELSE /\ stop("SignedOut", policy, retry)
            /\ UNCHANGED fetching
    /\ UNCHANGED <<usable, failed_refreshes, capacity, dropped, exporting,
                   posts, flushing, loopVars, produced, accepted, unloaded,
                   refused>>

\* The rest of refresh_config, when fetch_config returns.
config_answer(fetch) ==
    LET next == on_config(fetch)
        on   == next = "configured" /\ fetch = "Configured"
    IN  /\ fetching # "none"
        /\ fetching' = "none"
        /\ loop' = IF fetching = "loop" THEN "asleep" ELSE loop
        /\ failed_refreshes' = IF on THEN 0
                               ELSE IF has_credentials /\ fetch = "Unavailable"
                               THEN failed_refreshes + 1 ELSE failed_refreshes
        /\ usable' = (on \/ usable)
        /\ capacity' = IF on THEN CAPACITY ELSE capacity
        /\ refused' = (refused /\ ~on)
        /\ posts' = IF on THEN {[p EXCEPT !.old = TRUE] : p \in posts}
                    ELSE posts
        /\ IF next \in OffReason
           THEN stop(next, policy, retry)
           ELSE /\ lifecycle' = next
                /\ policy' = IF on
                             THEN [policy EXCEPT !.refresh_pending = FALSE]
                             ELSE policy
                /\ UNCHANGED <<retry, outbox, discarded, off_lines>>
        /\ UNCHANGED <<signed_in, dropped, exporting, flushing, due, age,
                       produced, accepted, unloaded>>

-----------------------------------------------------------------------------
(* Exports.                                                                *)

\* next_batch: what `s` would send; retries first.
next_batch(s) ==
    IF retry[s].items # {}
    THEN [items |-> retry[s].items, attempts |-> retry[s].attempts + 1]
    ELSE [items |-> Range(take_batch(s, MAX_BATCH)), attempts |-> 1]
HasBatch(s) == has_credentials /\ usable /\ next_batch(s).items # {}

\* The batch leaves the queue, or the retry slot, for the wire.
Send(owner, s, others) ==
    /\ posts' = others \cup
          {[owner |-> owner, signal |-> s, items |-> next_batch(s).items,
            attempts |-> next_batch(s).attempts, old |-> FALSE]}
    /\ IF retry[s].items # {}
       THEN retry' = [retry EXCEPT ![s] = NoPending] /\ UNCHANGED outbox
       ELSE /\ outbox' = [outbox EXCEPT ![s] = AfterTaking(s, MAX_BATCH)]
            /\ UNCHANGED retry

\* Mutant: a second export starts while one is waiting for its answer.
ExportsPileUp(owner) ==
    IF should_export /\ (\E s \in Signal : HasBatch(s))
    THEN /\ Send(owner, IF HasBatch("traces") THEN "traces" ELSE "logs", posts)
         /\ exporting' = TRUE
    ELSE UNCHANGED <<posts, retry, outbox, exporting>>

\* export_once up to its first await: traces, else logs, else nothing.
export_once(owner) ==
    IF ~exporting /\ should_export /\ (\E s \in Signal : HasBatch(s))
    THEN /\ Send(owner, IF HasBatch("traces") THEN "traces" ELSE "logs", posts)
         /\ exporting' = TRUE
    ELSE UNCHANGED <<posts, retry, outbox, exporting>>

\* The rest of export_once from an answer on.  An accepted traces batch is
\* followed by the logs at once; anything else ends the export.
post_answer(p, outcome) ==
    LET accept == outcome = "Accepted"
        more   == accept /\ p.signal = "traces" /\ HasBatch("logs")
        keep   == retry_batch(outcome, p.attempts)
        kept   == IF keep THEN [retry EXCEPT ![p.signal] =
                                 [items |-> p.items, attempts |-> p.attempts]]
                  ELSE retry
    IN  /\ p \in posts
        /\ accepted' = IF accept THEN accepted \cup p.items ELSE accepted
        /\ dropped' = IF accept \/ keep THEN dropped
                      ELSE dropped + Cardinality(p.items)
        /\ refused' = (refused \/ (outcome = "Unauthorized" /\ ~p.old))
        /\ IF more
           THEN /\ Send(p.owner, "logs", posts \ {p})
                /\ policy' = Recorded(outcome)
                /\ UNCHANGED <<exporting, lifecycle, discarded, off_lines,
                               loop>>
           ELSE /\ posts' = posts \ {p}
                /\ exporting' = FALSE
                /\ loop' = IF p.owner = "loop" THEN "asleep" ELSE loop
                /\ IF Recorded(outcome).stopped # Running
                   THEN stop(Recorded(outcome).stopped, Recorded(outcome),
                             kept)
                   ELSE /\ policy' = Recorded(outcome)
                        /\ retry' = kept
                        /\ UNCHANGED <<lifecycle, outbox, discarded,
                                       off_lines>>
        /\ UNCHANGED <<capacity, usable, failed_refreshes, fetching, signed_in,
                       flushing, due, age, produced, unloaded>>

\* The export a panic spawned.
flush ==
    /\ flushing
    /\ flushing' = FALSE
    /\ export_once("flush")
    /\ UNCHANGED <<capacity, dropped, configVars, policy, loopVars, produced,
                   historyVars>>

\* fit_keepalive: how many of n items the keepalive budget may leave.
fit_keepalive(n) == {k \in 1 .. n : k = n \/ k <= n \div 2}

\* Mutant: the pagehide request ignores a refresh that is owed.
PagehideUngated ==
    /\ policy.stopped = Running /\ has_credentials /\ usable
    /\ Queued # {}
    /\ unloaded' = unloaded \cup Queued
    /\ outbox' = [s \in Signal |-> <<>>]
    /\ UNCHANGED <<capacity, dropped, configVars, sendVars, loopVars,
                   produced, accepted, discarded, refused, off_lines>>

\* flush_on_pagehide: fire and forget, past the backoff, not past the gates.
flush_on_pagehide ==
    /\ policy.stopped = Running /\ ~needs_refresh /\ has_credentials /\ usable
    /\ Queued # {}
    /\ LET batch == [s \in Signal |-> take_batch(s, KEEPALIVE_MAX_ITEMS)]
           taken == UNION {Range(batch[s]) : s \in Signal}
       IN  \E fit \in [Signal -> 0 .. KEEPALIVE_MAX_ITEMS] :
             /\ \A s \in Signal : \/ fit[s] \in fit_keepalive(Len(batch[s]))
                                  \/ batch[s] = <<>> /\ fit[s] = 0
             /\ LET sent == UNION {Range(SubSeq(batch[s], 1, fit[s])) :
                                      s \in Signal}
                IN  /\ unloaded' = unloaded \cup sent
                    /\ discarded' = discarded \cup (taken \ sent)
    /\ outbox' = [s \in Signal |-> AfterTaking(s, KEEPALIVE_MAX_ITEMS)]
    /\ UNCHANGED <<capacity, dropped, configVars, sendVars, loopVars,
                   produced, accepted, refused, off_lines>>

-----------------------------------------------------------------------------
(* export_loop: what a wake-up finds.                                      *)

Wakes == loop = "asleep" /\ due /\ due' = FALSE
expired == lifecycle = "awaiting" /\ age >= PRE_CONFIG_MAX
Finished == is_off \/ policy.stopped # Running

loop_times_out ==
    /\ Wakes /\ expired
    /\ stop("ConfigTimedOut", policy, retry)
    /\ UNCHANGED <<capacity, dropped, usable, failed_refreshes, fetching,
                   signed_in, exporting, posts, flushing, loop, age, produced,
                   accepted, unloaded, refused>>

loop_finishes ==
    /\ Wakes /\ Finished
    /\ loop' = "done"
    /\ discarded' = discarded \cup Queued \cup Retrying
    /\ outbox' = [s \in Signal |-> <<>>]
    /\ retry' = [s \in Signal |-> NoPending]
    /\ UNCHANGED <<capacity, dropped, configVars, policy, exporting, posts,
                   flushing, age, produced, accepted, unloaded, refused,
                   off_lines>>

\* Step::Wait and Step::Refresh; refresh_config returns at once when a fetch
\* is in flight.
WantsRefresh == IF has_credentials THEN needs_refresh \/ ~usable
                ELSE signed_in = "yes" /\ fetching = "none"
loop_refreshes ==
    /\ Wakes /\ ~expired /\ ~Finished
    /\ has_credentials => WantsRefresh
    /\ IF WantsRefresh /\ fetching = "none"
       THEN fetching' = "loop" /\ loop' = "refreshing"
       ELSE UNCHANGED <<fetching, loop>>
    /\ UNCHANGED <<queueVars, lifecycle, usable, failed_refreshes, signed_in,
                   sendVars, age, produced, historyVars>>

loop_exports ==
    /\ Wakes /\ ~Finished /\ has_credentials /\ ~WantsRefresh
    /\ export_once("loop")
    /\ loop' = IF posts' = posts THEN loop ELSE "exporting"
    /\ UNCHANGED <<capacity, dropped, configVars, policy, flushing, age,
                   produced, historyVars>>

-----------------------------------------------------------------------------
(* Time.                                                                   *)

\* A tick.  A timer that has run out is served before the next one.
Tick ==
    /\ ~(loop = "asleep" /\ due)
    /\ due' = TRUE
    /\ age' = IF lifecycle = "awaiting" /\ age <= PRE_CONFIG_MAX THEN age + 1
              ELSE age
    /\ UNCHANGED <<queueVars, configVars, sendVars, loop, produced,
                   historyVars>>

backoff_ends ==
    /\ policy.waiting
    /\ policy' = [policy EXCEPT !.waiting = FALSE]
    /\ UNCHANGED <<queueVars, configVars, retry, exporting, posts, flushing,
                   loopVars, produced, historyVars>>

token_ages ==
    /\ has_credentials /\ usable
    /\ usable' = FALSE
    /\ UNCHANGED <<queueVars, lifecycle, failed_refreshes, fetching, signed_in,
                   sendVars, loopVars, produced, historyVars>>

-----------------------------------------------------------------------------
Init ==
    /\ outbox = [s \in Signal |-> <<>>]
    /\ capacity = PRE_CONFIG_CAPACITY
    /\ dropped = 0
    /\ lifecycle = "awaiting"
    /\ usable = FALSE
    /\ failed_refreshes = 0
    /\ fetching = "none"
    /\ signed_in = "unknown"
    /\ policy = [stopped |-> Running, failures |-> 0, waiting |-> FALSE,
                 refreshed_after_401 |-> FALSE, refresh_pending |-> FALSE]
    /\ retry = [s \in Signal |-> NoPending]
    /\ exporting = FALSE
    /\ posts = {}
    /\ flushing = FALSE
    /\ loop = "asleep"
    /\ due = FALSE
    /\ age = 0
    /\ produced = 0
    /\ accepted = {} /\ unloaded = {} /\ discarded = {}
    /\ refused = FALSE
    /\ off_lines = 0

ConfigAnswers == \E fetch \in ConfigFetch : config_answer(fetch)
PostAnswers == \E p \in posts, outcome \in ExportOutcome :
                   post_answer(p, outcome)
LoopWakes == loop_times_out \/ loop_finishes \/ loop_refreshes \/ loop_exports

Next ==
    \/ \E s \in Signal : record_item(s)
    \/ panic
    \/ \E yes \in BOOLEAN : set_session(yes)
    \/ ConfigAnswers
    \/ PostAnswers
    \/ flush
    \/ flush_on_pagehide
    \/ loop_times_out
    \/ loop_finishes
    \/ loop_refreshes
    \/ loop_exports
    \/ Tick
    \/ backoff_ends
    \/ token_ages

Spec == Init /\ [][Next]_vars

\* The browser serves timers and spawned tasks, and settles every request;
\* nothing is assumed of the session, the producers or the answers' content.
Fairness ==
    /\ WF_vars(Tick) /\ WF_vars(LoopWakes) /\ WF_vars(flush)
    /\ WF_vars(backoff_ends)
    /\ WF_vars(ConfigAnswers) /\ WF_vars(PostAnswers)
LiveSpec == Spec /\ Fairness

-----------------------------------------------------------------------------
(* Properties.                                                             *)

\* Every item produced is in exactly one place - a queue, a retry slot, a
\* request in flight, or settled - and the items in none of them are exactly
\* the ones the `dropped` counters report.  Two exporters, a stop in the
\* middle of a request and a panic's flush are what could break it.
ItemsAreAccountedFor ==
    LET places == <<Queued, Retrying, InFlight, accepted, unloaded, discarded>>
    IN  /\ \A j, k \in DOMAIN places : j # k => places[j] \cap places[k] = {}
        /\ Cardinality(UNION Range(places)) + dropped = produced

\* "Nothing here is unbounded": a signal has at most its queue and one batch
\* outside it, in flight or kept, however many exports a session starts.
MemoryIsBounded ==
    \A s \in Signal :
        /\ Len(outbox[s]) <= capacity
        /\ Cardinality(retry[s].items \cup
               UNION {p.items : p \in {q \in posts : q.signal = s}})
             <= MAX_BATCH

\* Once telemetry is off nothing is held for it: an export that was in
\* flight when it was turned off leaves no batch behind (discard_everything).
OffHoldsNothing ==
    is_off => policy.stopped # Running /\ Queued = {} /\ Retrying = {}

\* "... and says so - once, whatever the reason and however many callers race
\* to it": the loop, an export, a config answer and the session may all call
\* stop.
OffIsSaidOnce == off_lines = IF is_off THEN 1 ELSE 0

\* What the exporters hold is bounded while telemetry runs and nothing once
\* it is off, which is said once (Outbox::push, retry_batch, stop).
OutboxIsSound ==
    TypeOK /\ MemoryIsBounded /\ OffHoldsNothing /\ OffIsSaidOnce

\* "Off for the rest of the page load, and why.  Final." - whatever answer
\* was still on its way.
OffIsFinal == [][is_off => lifecycle' = lifecycle]_vars

\* Nothing is sent, by the loop, a flush or a pagehide, with a token the
\* ingest has already refused, or once telemetry is off.
SilentWhenRefusedOrOff ==
    [][is_off \/ refused =>
         /\ unloaded' = unloaded
         /\ \A p \in posts' : \E q \in posts :
               p.items = q.items /\ p.attempts = q.attempts]_vars

\* A wait for configuration ends within PRE_CONFIG_MAX ticks ("past
\* PRE_CONFIG_MAX_MS the wait is over").
WaitIsBounded == lifecycle = "awaiting" => age <= PRE_CONFIG_MAX

\* The page does not wait for configuration for ever.
ConfigurationIsDecided == (lifecycle = "awaiting") ~> (lifecycle # "awaiting")

\* Once telemetry is off the loop stops waking up.
LoopStopsWhenOff == is_off ~> (loop = "done")

\* A batch kept for a retry is sent again, or given up with telemetry, unless
\* the token keeps expiring between being fetched and being used: one signal's
\* failures, a backoff or an owed refresh do not starve the other's batch.
RetriesAreServed ==
    <>[](has_credentials => usable) =>
        \A s \in Signal : (retry[s].items # {}) ~> (retry[s].items = {})

\* No wait of the export loop is for ever: for the configuration, for the
\* loop's end after a stop, for a kept batch's next attempt (run_exporter).
TelemetrySettles ==
    ConfigurationIsDecided /\ LoopStopsWhenOff /\ RetriesAreServed
=============================================================================
