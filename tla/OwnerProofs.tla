---------------------------- MODULE OwnerProofs ------------------------------
(***************************************************************************)
(* Proofs about what one owner sees: the sign-in that makes their session, *)
(* and the library it shows.  Each is for every value of the constants.    *)
(*                                                                         *)
(* SignIn: that flows are not crossed rests on the two flow cookies being  *)
(* set and cleared together.  That a session was validated needs to know   *)
(* whose verdict a callback takes: the validation that carries its flow    *)
(* has its token, since the provider redeems the code of a flow once.      *)
(*                                                                         *)
(* LibraryFeed: a list is sorted by its times, so that it has an order at  *)
(* all rests on no two pages sharing a time.  Late events and old answers  *)
(* bring old times back; each is still its own page's, since every commit  *)
(* has a time of its own.                                                  *)
(***************************************************************************)
EXTENDS SignIn, LibraryFeed, SequenceTheorems, FiniteSetTheorems, TLAPS

\* Both flow cookies are of the same login.
FlowCookiesAgree == cookies.state = cookies.pkce

Running(s) == checks[s].stage # "free"

\* A validation for a login is of a login whose code was redeemed, and one
\* that ended well was of a good token.
ChecksAreOfRedeemedFlows ==
    \A s \in Slot : Running(s) =>
        /\ checks[s].by # None => checks[s].by \in spent
        /\ checks[s].stage = "done" /\ checks[s].verdict = "ok" =>
             checks[s].token.defect = "none"

\* A callback that waits for its verdict is the only one of its flow, and the
\* validation made for the flow has its token.
VerdictIsItsOwn ==
    \A c \in callbacks : c.stage = "validating" =>
        /\ c.flow \in spent /\ c.token \in Token
        /\ \A d \in callbacks :
             d.stage = "validating" /\ d.flow = c.flow => d = c
        /\ \A s \in Slot : Running(s) /\ checks[s].by = c.flow =>
             checks[s].token = c.token

SignInInv ==
    /\ LoginsAreSound
    /\ FlowCookiesAgree /\ ChecksAreOfRedeemedFlows /\ VerdictIsItsOwn

\* The browser has no cookie and nothing is being validated.
LEMMA SignInInitial == Init => SignInInv
BY SignInAssumption
DEF Init, SignInInv, LoginsAreSound, TypeOK, FlowsAreNotCrossed,
    SessionsAreValidated, FlowCookiesAgree, ChecksAreOfRedeemedFlows,
    VerdictIsItsOwn, Check, Free, Kid, CodeState, Running

\* A running validation has somebody it is for and a token.
LEMMA RunningCheck ==
    ASSUME TypeOK, NEW s \in Slot, Running(s)
    PROVE  /\ checks[s].by \in Flow \cup {None} /\ checks[s].token \in Token
           /\ checks[s].stage = "writing" => checks[s].doc \subseteq Kid
           /\ checks[s].stage = "done" => checks[s].verdict \in Verdict
BY DEF TypeOK, Check, Free, Running

\* A step of one validation that leaves it with the same token, and for the
\* same login, keeps the invariant (JwksCache::get and refresh).
LEMMA ValidationStep ==
    ASSUME SignInInv, NEW s \in Slot, Running(s), NEW next \in Check,
           checks' = [checks EXCEPT ![s] = next],
           next.stage # "free", next.by = checks[s].by,
           next.token = checks[s].token,
           next.stage = "done" /\ next.verdict = "ok" =>
                next.token.defect = "none",
           keys' \subseteq Kid,
           UNCHANGED <<startup, idpVars, browserVars>>
    PROVE  SignInInv'
<1> USE DEF SignInInv, LoginsAreSound, startup, idpVars, browserVars
<1>1. TypeOK'
    BY DEF TypeOK
<1>2. \A r \in Slot :
        /\ Running(r)' <=> Running(r)
        /\ checks'[r].by = checks[r].by /\ checks'[r].token = checks[r].token
        /\ r # s => checks'[r] = checks[r]
        /\ r = s => checks'[r] = next
    BY DEF TypeOK, Running
<1>3. ChecksAreOfRedeemedFlows'
    BY <1>2 DEF ChecksAreOfRedeemedFlows
<1>4. VerdictIsItsOwn'
    BY <1>2 DEF VerdictIsItsOwn
<1> QED
    BY <1>1, <1>3, <1>4
    DEF FlowsAreNotCrossed, SessionsAreValidated, FlowCookiesAgree

\* A validation ends, for the reason its token gives.
LEMMA FinishStep ==
    ASSUME SignInInv, NEW s \in Slot, Running(s), NEW verdict \in Verdict,
           Finish(s, verdict),
           verdict = "ok" => checks[s].token.defect = "none",
           UNCHANGED <<startup, keys, idpVars, browserVars>>
    PROVE  SignInInv'
<1> DEFINE next == [stage |-> "done", by |-> checks[s].by,
                    token |-> checks[s].token, verdict |-> verdict]
<1>1. next \in Check /\ keys' \subseteq Kid
    BY RunningCheck DEF SignInInv, LoginsAreSound, TypeOK, Check
<1>2. checks' = [checks EXCEPT ![s] = next]
    BY DEF Finish
<1> QED
    BY <1>1, <1>2, ValidationStep

\* A validation moves to a stage that has nothing of its own.
LEMMA GotoStep ==
    ASSUME SignInInv, NEW s \in Slot, Running(s),
           NEW stage \in {"fetching", "rereading"}, Goto(s, stage),
           keys' \subseteq Kid, UNCHANGED <<startup, idpVars, browserVars>>
    PROVE  SignInInv'
<1> DEFINE next == [stage |-> stage, by |-> checks[s].by,
                    token |-> checks[s].token]
<1>1. next \in Check
    BY RunningCheck DEF SignInInv, LoginsAreSound, Check
<1>2. checks' = [checks EXCEPT ![s] = next]
    BY DEF Goto
<1> QED
    BY <1>1, <1>2, ValidationStep

\* What decode says of a token is a verdict, and a good one of a good token.
LEMMA DecodedIsAVerdict ==
    ASSUME NEW token
    PROVE  /\ Decoded(token) \in Verdict
           /\ Decoded(token) = "ok" => token.defect = "none"
BY DEF Decoded, Verdict

\* Start-up, validations, logins, callbacks and the provider keep the
\* invariant.
LEMMA SignInStep == SignInInv /\ [Next]_vars => SignInInv'
<1> SUFFICES ASSUME SignInInv, [Next]_vars PROVE SignInInv'
    OBVIOUS
<1> USE SignInAssumption DEF SignInInv, LoginsAreSound
<1>1. CASE discover
    BY <1>1
    DEF discover, DiscoverAgain, cacheVars, idpVars, browserVars, TypeOK,
        FlowsAreNotCrossed, SessionsAreValidated, FlowCookiesAgree,
        ChecksAreOfRedeemedFlows, VerdictIsItsOwn, Running
<1>2. ASSUME NEW s \in Slot, get(s) PROVE SignInInv'
    <2>1. Running(s) /\ UNCHANGED <<startup, keys, idpVars, browserVars>>
        BY <1>2 DEF get, Running
    <2>2. CASE Goto(s, "fetching")
        BY <2>1, <2>2, GotoStep DEF TypeOK
    <2>3. CASE Finish(s, "unauthorized")
        BY <2>1, <2>3, FinishStep DEF Verdict
    <2>4. CASE Finish(s, Decoded(checks[s].token))
        BY <2>1, <2>4, FinishStep, DecodedIsAVerdict
    <2> QED
        BY <1>2, <2>2, <2>3, <2>4 DEF get, ReadOrRefresh
<1>3. ASSUME NEW s \in Slot, refresh_fetch(s) PROVE SignInInv'
    <2> DEFINE next == [stage |-> "writing", by |-> checks[s].by,
                        token |-> checks[s].token, doc |-> published]
    <2>1. Running(s)
        BY <1>3 DEF refresh_fetch, Running
    <2>2. next \in Check /\ keys' \subseteq Kid
        BY <1>3, <2>1, RunningCheck DEF refresh_fetch, Check, TypeOK
    <2>3. checks' = [checks EXCEPT ![s] = next]
        BY <1>3 DEF refresh_fetch
    <2> QED
        BY <1>3, <2>1, <2>2, <2>3, ValidationStep DEF refresh_fetch
<1>4. ASSUME NEW s \in Slot, refresh_fails(s) PROVE SignInInv'
    BY <1>4, FinishStep DEF refresh_fails, Running, Verdict
<1>5. ASSUME NEW s \in Slot, refresh_write(s) PROVE SignInInv'
    <2>1. Running(s) /\ keys' \subseteq Kid
        BY <1>5, RunningCheck DEF refresh_write, Running
    <2> QED
        BY <1>5, <2>1, GotoStep DEF refresh_write
<1>6. ASSUME NEW s \in Slot, get_again(s) PROVE SignInInv'
    <2> DEFINE verdict == IF checks[s].token.kid \in keys
                          THEN Decoded(checks[s].token) ELSE "unauthorized"
    <2>1. /\ verdict \in Verdict
          /\ verdict = "ok" => checks[s].token.defect = "none"
        BY DecodedIsAVerdict DEF Verdict
    <2>2. /\ Running(s) /\ Finish(s, verdict)
          /\ UNCHANGED <<startup, keys, idpVars, browserVars>>
        BY <1>6 DEF get_again, Running
    <2> QED
        BY <2>1, <2>2, FinishStep
<1>7. ASSUME NEW bearer \in Token \cup {None}, auth_middleware(bearer)
      PROVE  SignInInv'
    <2>1. PICK token \in Token, s \in Slot :
            /\ checks[s] = Free
            /\ checks' = [checks EXCEPT ![s] =
                    [stage |-> "reading", by |-> None, token |-> token]]
        BY <1>7 DEF auth_middleware, StartCheck, TypeOK
    <2>2. UNCHANGED <<startup, keys, idpVars, browserVars>>
        BY <1>7 DEF auth_middleware
    <2>3. TypeOK'
        BY <2>1, <2>2 DEF TypeOK, Check, startup, idpVars, browserVars
    <2>4. \A r \in Slot : r # s => checks'[r] = checks[r]
        BY <2>1 DEF TypeOK
    <2>5. checks'[s] = [stage |-> "reading", by |-> None, token |-> token]
        BY <2>1 DEF TypeOK
    <2>6. ChecksAreOfRedeemedFlows'
        BY <2>2, <2>4, <2>5 DEF ChecksAreOfRedeemedFlows, Running, idpVars
    <2>7. VerdictIsItsOwn'
        BY <2>2, <2>4, <2>5
        DEF VerdictIsItsOwn, Running, idpVars, browserVars, TypeOK, Callback
    <2> QED
        BY <2>2, <2>3, <2>6, <2>7
        DEF FlowsAreNotCrossed, SessionsAreValidated, FlowCookiesAgree,
            browserVars
<1>8. ASSUME NEW s \in Slot, checks' = [checks EXCEPT ![s] = Free],
             spent' = spent,
             \A c \in callbacks' : c.stage = "validating" => c \in callbacks
      PROVE  /\ ChecksAreOfRedeemedFlows' /\ VerdictIsItsOwn'
             /\ checks' \in [Slot -> Check]
    <2>1. \A r \in Slot : Running(r)' => checks'[r] = checks[r] /\ Running(r)
        BY <1>8 DEF TypeOK, Running, Free
    <2> QED
        BY <1>8, <2>1
        DEF ChecksAreOfRedeemedFlows, VerdictIsItsOwn, TypeOK, Check
<1>9. ASSUME NEW s \in Slot, answer_request(s) PROVE SignInInv'
    <2>1. /\ ChecksAreOfRedeemedFlows' /\ VerdictIsItsOwn'
          /\ checks' \in [Slot -> Check]
        BY <1>8, <1>9 DEF answer_request, idpVars, browserVars
    <2> QED
        BY <1>9, <2>1
        DEF answer_request, startup, idpVars, browserVars, TypeOK,
            FlowsAreNotCrossed, SessionsAreValidated, FlowCookiesAgree
<1>10. ASSUME NEW keep \in BOOLEAN, rotate(keep) PROVE SignInInv'
    BY <1>10
    DEF rotate, startup, cacheVars, browserVars, TypeOK, Kid,
        FlowsAreNotCrossed, SessionsAreValidated, FlowCookiesAgree,
        ChecksAreOfRedeemedFlows, VerdictIsItsOwn, Running
<1>11. ASSUME NEW f \in Flow, NEW answer \in {"code", "error", "neither"},
              idp_redirects(f, answer)
       PROVE  SignInInv'
    BY <1>11
    DEF idp_redirects, startup, cacheVars, browserVars, TypeOK, CodeState,
        FlowsAreNotCrossed, SessionsAreValidated, FlowCookiesAgree,
        ChecksAreOfRedeemedFlows, VerdictIsItsOwn, Running
<1>12. ASSUME NEW f \in Flow, login(f) PROVE SignInInv'
    BY <1>12
    DEF login, NewFlowCookies, startup, cacheVars, TypeOK, CodeState,
        FlowsAreNotCrossed, SessionsAreValidated, FlowCookiesAgree,
        ChecksAreOfRedeemedFlows, VerdictIsItsOwn, Running
<1>13. ASSUME NEW f \in Flow, callback(f) PROVE SignInInv'
    <2>1. PICK stage \in {"exchanging", "failed"} :
            callbacks' = callbacks \cup
                {[flow |-> f, verifier |-> f, stage |-> stage, token |-> None]}
        BY <1>13 DEF callback, AddCallback, FlowCookiesAgree
    <2>2. UNCHANGED <<startup, cacheVars, idpVars, cookies>>
        BY <1>13 DEF callback
    <2>3. TypeOK'
        BY <2>1, <2>2 DEF startup, cacheVars, idpVars, TypeOK, Callback
    <2> QED
        BY <2>1, <2>2, <2>3
        DEF startup, cacheVars, idpVars, FlowsAreNotCrossed,
            SessionsAreValidated, FlowCookiesAgree, ChecksAreOfRedeemedFlows,
            VerdictIsItsOwn, Running
<1>14. ASSUME NEW c \in callbacks, Becomes(c, "failed", None),
              spent' \in {spent, spent \cup {c.flow}},
              UNCHANGED <<startup, keys, published, kid, codes, cookies,
                          checks>>
       PROVE  SignInInv'
    <2>1. TypeOK'
        BY <1>14 DEF Becomes, startup, TypeOK, Callback
    <2> QED
        BY <1>14, <2>1
        DEF Becomes, FlowsAreNotCrossed, SessionsAreValidated,
            FlowCookiesAgree, ChecksAreOfRedeemedFlows, VerdictIsItsOwn,
            Running
<1>15. ASSUME NEW c \in callbacks, NEW reached \in BOOLEAN,
              exchange_code(c, reached)
       PROVE  SignInInv'
    <2>1. CASE Becomes(c, "failed", None) /\ UNCHANGED checks
        BY <1>14, <1>15, <2>1 DEF exchange_code
    <2>2. ASSUME NEW token \in Token, Becomes(c, "validating", token),
                 StartCheck(c.flow, token),
                 c.flow \notin spent, spent' = spent \cup {c.flow}
          PROVE  SignInInv'
        <3>1. PICK s \in Slot :
                /\ checks[s] = Free
                /\ checks' = [checks EXCEPT ![s] =
                        [stage |-> "reading", by |-> c.flow, token |-> token]]
            BY <2>2 DEF StartCheck
        <3>2. /\ c.flow \in Flow
              /\ \A r \in Slot : r # s => checks'[r] = checks[r]
              /\ checks'[s] = [stage |-> "reading", by |-> c.flow,
                               token |-> token]
              /\ UNCHANGED <<startup, keys, published, kid, codes, cookies>>
            BY <1>15, <3>1 DEF exchange_code, TypeOK, Callback
        <3>3. TypeOK'
            BY <2>2, <3>1, <3>2 DEF startup, TypeOK, Check, Callback, Becomes
        <3>4. ChecksAreOfRedeemedFlows'
            BY <2>2, <3>2 DEF ChecksAreOfRedeemedFlows, Running
        <3>5. VerdictIsItsOwn'
            BY <2>2, <3>2
            DEF VerdictIsItsOwn, ChecksAreOfRedeemedFlows, Becomes, Running,
                TypeOK, Callback
        <3> QED
            BY <2>2, <3>2, <3>3, <3>4, <3>5
            DEF Becomes, FlowsAreNotCrossed, SessionsAreValidated,
                FlowCookiesAgree
    <2>3. ASSUME NEW defect \in Issued
          PROVE  [kid |-> kid, defect |-> defect] \in Token
        BY DEF TypeOK, Token, Defect
    <2> QED
        BY <1>15, <2>1, <2>2, <2>3 DEF exchange_code
<1>16. ASSUME NEW c \in callbacks, NEW s \in Slot, callback_validated(c, s)
       PROVE  SignInInv'
    <2>1. /\ checks' = [checks EXCEPT ![s] = Free]
          /\ UNCHANGED <<startup, keys, idpVars, cookies>>
        BY <1>16 DEF callback_validated
    <2>2. PICK stage \in {"session", "failed"}, token \in {c.token, None} :
            /\ Becomes(c, stage, token)
            /\ stage = "session" => token = c.token /\ checks[s].verdict = "ok"
        BY <1>16 DEF callback_validated
    <2>3. stage = "session" => token.defect = "none"
        BY <1>16, <2>2
        DEF callback_validated, VerdictIsItsOwn, ChecksAreOfRedeemedFlows,
            Running
    <2>4. /\ spent' = spent
          /\ \A d \in callbacks' : d.stage = "validating" => d \in callbacks
        BY <2>1, <2>2 DEF Becomes, idpVars
    <2>5. /\ ChecksAreOfRedeemedFlows' /\ VerdictIsItsOwn'
          /\ checks' \in [Slot -> Check]
        BY <1>8, <2>1, <2>4
    <2>6. TypeOK'
        BY <2>1, <2>2, <2>5 DEF startup, idpVars, TypeOK, Callback, Becomes
    <2> QED
        BY <2>1, <2>2, <2>3, <2>5, <2>6
        DEF Becomes, FlowsAreNotCrossed, SessionsAreValidated, FlowCookiesAgree
<1>17. ASSUME NEW c \in callbacks, callback_answered(c) PROVE SignInInv'
    BY <1>17
    DEF callback_answered, clear_flow_cookies, startup, cacheVars, idpVars,
        TypeOK, Callback, FlowsAreNotCrossed, SessionsAreValidated,
        FlowCookiesAgree, ChecksAreOfRedeemedFlows, VerdictIsItsOwn, Running
<1>18. CASE logout
    BY <1>18
    DEF logout, startup, cacheVars, idpVars, TypeOK, FlowsAreNotCrossed,
        SessionsAreValidated, FlowCookiesAgree, ChecksAreOfRedeemedFlows,
        VerdictIsItsOwn, Running
<1>19. CASE flow_cookies_expire
    BY <1>19
    DEF flow_cookies_expire, clear_flow_cookies, startup, cacheVars, idpVars,
        TypeOK, FlowsAreNotCrossed, SessionsAreValidated, FlowCookiesAgree,
        ChecksAreOfRedeemedFlows, VerdictIsItsOwn, Running
<1>20. CASE UNCHANGED vars
    BY <1>20
    DEF vars, startup, cacheVars, idpVars, browserVars, TypeOK,
        FlowsAreNotCrossed, SessionsAreValidated, FlowCookiesAgree,
        ChecksAreOfRedeemedFlows, VerdictIsItsOwn, Running
<1> QED
    BY <1>1, <1>2, <1>3, <1>4, <1>5, <1>6, <1>7, <1>9, <1>10, <1>11, <1>12,
       <1>13, <1>15, <1>16, <1>17, <1>18, <1>19, <1>20
    DEF Next

\* For any number of logins, overlapping validations and keys, cookies and
\* callbacks are typed, no login's code is exchanged with another's verifier,
\* and a session holds a token that was accepted (routes/auth.rs login,
\* callback; auth.rs validate_jwt).
THEOREM SignInLoginsAreSound == Spec => []LoginsAreSound
<1>1. SignInInv => LoginsAreSound
    BY DEF SignInInv
<1> QED
    BY <1>1, SignInInitial, SignInStep, PTL DEF Spec

-----------------------------------------------------------------------------
(* The library.                                                            *)

\* A row as some page had it, at a time that is that page's own.
OwnedRow(owner, now, row) ==
  /\ row \in Row
  /\ row.updated_at <= now /\ owner[row.updated_at] = row.id

\* An event that tells of such a row or such a time.
OwnedEvent(owner, now, event) ==
  /\ event \in Event
  /\ event.type = "PageCreated" => OwnedRow(owner, now, event.page)
  /\ event.type = "PageUpdated" =>
       event.updated_at <= now /\ owner[event.updated_at] = event.page_id

\* What the table, or a read of it, can be.
Snapshot(owner, now, S) ==
  /\ IsFiniteSet(S)
  /\ \A row \in S : OwnedRow(owner, now, row)
  /\ \A row, other \in S : row.id = other.id => row = other

\* What the list can be.
GoodList(owner, now, s) ==
  /\ s \in Seq(Row)
  /\ \A i \in 1..Len(s) : OwnedRow(owner, now, s[i])
  /\ \A i, j \in 1..Len(s) :
       i < j => s[i].id # s[j].id /\ s[i].updated_at >= s[j].updated_at

\* What handlers have yet to publish, what was sent, the answers on their way
\* and the answers to list requests, owned.
HandlersOwn(owner, now, H) ==
  \A h \in H : /\ h \in Seq(Event) /\ h # <<>>
               /\ \A i \in 1..Len(h) : OwnedEvent(owner, now, h[i])
ChannelOwn(owner, now, s) ==
  \A i \in 1..Len(s) : s[i] # Lagged => OwnedEvent(owner, now, s[i])
AcksOwn(owner, now, A) ==
  \A answer \in A : /\ OwnedEvent(owner, now, answer)
                    /\ answer.type \in {"PageCreated", "PageDeleted"}
FetchOwn(owner, now, F) == \A f \in Fetching : Snapshot(owner, now, F[f].rows)

\* Every commit has a time of its own, whose page nothing that is stored, on
\* its way or shown mistakes.
TimesAreOwn(owner, now) ==
  /\ Snapshot(owner, now, rows)
  /\ FetchOwn(owner, now, fetch)
  /\ HandlersOwn(owner, now, handlers)
  /\ ChannelOwn(owner, now, channel)
  /\ AcksOwn(owner, now, acks)
  /\ GoodList(owner, now, list)

\* The subscription: Lagged is first, and only then is it one event longer.
ChannelOK ==
  /\ channel \in Seq(Event \cup {Lagged})
  /\ Len(channel) <= Capacity + 1
  /\ Len(channel) = Capacity + 1 => channel[1] = Lagged
  /\ \A i \in 1..Len(channel) : channel[i] = Lagged => i = 1

\* What the rest is.
StateOK ==
  /\ client \in Clients
  /\ jobs \subseteq Page \X (1 .. MaxTime)
  /\ minted \subseteq Page /\ clock \in 0 .. MaxTime
  /\ \A row \in rows : row.id \in minted
  /\ conn \in {"waiting", "listing", "opening", "open"}
  /\ fetch \in [Fetching -> [stage : {"none", "sent", "answered"},
                             rows : SUBSET Row]]
  /\ selected \in Page \cup {NoPage}
  /\ told \subseteq Page

Owners == [0 .. MaxTime -> Page \cup {NoPage}]

\* The inductive invariant: the times can be given to pages.
LibraryInv ==
  StateOK /\ ChannelOK /\ \E owner \in Owners : TimesAreOwn(owner, clock)

-----------------------------------------------------------------------------
(* Ranks.                                                                  *)

\* A key that sets the members of S apart.
KeyOf(S, key) ==
  /\ IsFiniteSet(S) /\ key \in [S -> Int]
  /\ \A x, y \in S : key[x] = key[y] => x = y

\* s has the members of S, each once, from the smallest key up.
RisesThrough(s, S, key) ==
  /\ Cardinality(S) \in Nat /\ s \in [1..Cardinality(S) -> S]
  /\ \A i, j \in 1..Cardinality(S) : i < j => key[s[i]] < key[s[j]]
  /\ \A x \in S : \E i \in 1..Cardinality(S) : s[i] = x

\* Every number below the size of S is the rank of one member, since ranks
\* are an injection into the numbers below the size.
LEMMA RankedRises ==
  ASSUME NEW S, NEW key, KeyOf(S, key)
  PROVE  RisesThrough(Ranked(S, key), S, key)
<1> USE DEF KeyOf
<1> DEFINE n == Cardinality(S)
           below(x) == {y \in S : key[y] < key[x]}
           rank(x) == Cardinality(below(x))
           f == [x \in S |-> rank(x) + 1]
<1>1. n \in Nat
  BY FS_CardinalityType
<1>2. ASSUME NEW x \in S
      PROVE  IsFiniteSet(below(x)) /\ rank(x) \in Nat /\ rank(x) + 1 \in 1..n
  <2>1. IsFiniteSet(below(x)) /\ rank(x) \in Nat
    BY FS_Subset, FS_CardinalityType
  <2>2. IsFiniteSet(S \ {x}) /\ Cardinality(S \ {x}) = n - 1
    BY FS_RemoveElement
  <2>3. below(x) \in SUBSET (S \ {x})
    OBVIOUS
  <2>4. rank(x) <= n - 1
    <3> DEFINE b == below(x)
    <3> HIDE DEF b
    <3>1. Cardinality(b) <= Cardinality(S \ {x})
      BY <2>2, <2>3, FS_Subset DEF b
    <3> QED BY <2>2, <3>1 DEF b
  <2> HIDE DEF rank
  <2> QED BY <1>1, <2>1, <2>4
<1>3. ASSUME NEW x \in S, NEW y \in S, key[x] < key[y]
      PROVE  rank(x) < rank(y)
  <2>1. below(x) \in SUBSET below(y)
    BY <1>3
  <2>2. x \in below(y) /\ x \notin below(x)
    BY <1>3
  <2>3. IsFiniteSet(below(y)) /\ rank(y) \in Nat /\ rank(x) \in Nat
    BY <1>2
  <2> DEFINE b == below(x)  c == below(y)
  <2>4. b \in SUBSET c /\ b # c /\ IsFiniteSet(c)
    BY <2>1, <2>2, <2>3
  <2> HIDE DEF b, c
  <2>5. Cardinality(b) <= Cardinality(c) /\ Cardinality(b) # Cardinality(c)
    BY <2>4, FS_Subset
  <2>6. rank(x) <= rank(y) /\ rank(x) # rank(y)
    BY <2>5 DEF b, c
  <2> HIDE DEF rank
  <2> QED BY <2>3, <2>6
<1> HIDE DEF rank
<1>a. \A x \in S : rank(x) \in Nat /\ rank(x) + 1 \in 1..n
  BY <1>2 DEF rank
<1>4. f \in Injection(S, 1..n)
  <2>1. f \in [S -> 1..n]
    BY <1>2
  <2>2. ASSUME NEW x \in S, NEW y \in S, f[x] = f[y] PROVE x = y
    <3>1. rank(x) = rank(y) /\ rank(x) \in Nat /\ rank(y) \in Nat
      BY <1>a, <2>2
    <3>2. ~(key[x] < key[y]) /\ ~(key[y] < key[x])
      BY <1>3, <3>1
    <3>3. key[x] \in Int /\ key[y] \in Int
      OBVIOUS
    <3> QED BY <3>2, <3>3
  <2> HIDE DEF f
  <2> QED BY <2>1, <2>2 DEF Injection, IsInjective
<1>5. f \in Surjection(S, 1..n)
  <2>1. IsFiniteSet(1..n) /\ Cardinality(1..n) = n
    BY <1>1, FS_Interval
  <2> HIDE DEF f
  <2> QED BY <1>4, <2>1, FS_Injection
<1>6. ASSUME NEW i \in 1..n PROVE \E x \in S : rank(x) = i - 1
  <2>1. \E x \in S : f[x] = i
    <3> HIDE DEF f
    <3> QED BY <1>5 DEF Surjection
  <2>2. PICK x \in S : rank(x) + 1 = i
    BY <2>1
  <2>3. rank(x) = i - 1
    BY <1>a, <2>2
  <2> QED BY <2>3
<1> DEFINE s == Ranked(S, key)
<1>7. s = [i \in 1..n |-> CHOOSE x \in S : rank(x) = i - 1]
  BY DEF Ranked, rank
<1>8. ASSUME NEW i \in 1..n PROVE s[i] \in S /\ rank(s[i]) = i - 1
  <2>1. s[i] = CHOOSE x \in S : rank(x) = i - 1
    BY <1>7
  <2> HIDE DEF s
  <2> QED BY <1>6, <2>1
<1>9. s \in [1..n -> S]
  <2>1. DOMAIN s = 1..n /\ s = [i \in 1..n |-> s[i]]
    BY <1>7
  <2> HIDE DEF s
  <2> QED BY <1>8, <2>1
<1> HIDE DEF s
<1>10. ASSUME NEW i \in 1..n, NEW j \in 1..n, i < j
       PROVE  key[s[i]] < key[s[j]]
  <2>1. s[i] \in S /\ s[j] \in S /\ rank(s[i]) = i - 1 /\ rank(s[j]) = j - 1
    BY <1>8
  <2>2. key[s[i]] \in Int /\ key[s[j]] \in Int
    BY <2>1
  <2>3. ~(key[s[j]] < key[s[i]])
    <3> SUFFICES ASSUME key[s[j]] < key[s[i]] PROVE FALSE
      OBVIOUS
    <3>1. rank(s[j]) < rank(s[i])
      BY <1>3, <2>1
    <3> QED BY <1>1, <1>10, <2>1, <3>1
  <2>4. key[s[i]] # key[s[j]]
    <3> SUFFICES ASSUME key[s[i]] = key[s[j]] PROVE FALSE
      OBVIOUS
    <3>1. s[i] = s[j]
      BY <2>1
    <3> QED BY <1>1, <1>10, <2>1, <3>1
  <2> QED BY <2>2, <2>3, <2>4
<1>11. ASSUME NEW x \in S PROVE \E i \in 1..n : s[i] = x
  <2>1. rank(x) + 1 \in 1..n /\ rank(x) \in Nat
    BY <1>2
  <2> DEFINE i == rank(x) + 1
  <2>2. i \in 1..n /\ i - 1 = rank(x)
    BY <2>1
  <2> HIDE DEF i
  <2>3. s[i] \in S /\ rank(s[i]) = rank(x)
    BY <1>8, <2>2
  <2>4. ~(key[s[i]] < key[x]) /\ ~(key[x] < key[s[i]])
    BY <1>3, <2>1, <2>3
  <2>5. key[s[i]] \in Int /\ key[x] \in Int
    BY <2>3
  <2>6. s[i] = x
    BY <2>3, <2>4, <2>5
  <2> QED BY <2>2, <2>6
<1> QED BY <1>1, <1>9, <1>10, <1>11 DEF RisesThrough, s
-----------------------------------------------------------------------------
(* Lists.                                                                  *)

\* What a row is made of.
LEMMA RowFields ==
  ASSUME NEW row \in Row
  PROVE  /\ row.id \in Page
         /\ row.updated_at \in 0 .. MaxTime /\ row.updated_at \in Int
         /\ row.thumbnail \in Thumbnail
         /\ row.thumbnail.seq \in 0 .. MaxTime /\ row.thumbnail.seq \in Int
BY LibraryAssumption DEF Row, Thumbnail

\* The rows of a snapshot, sorted, are a list of the same rows: no two have
\* one time, since a time is one page's.
LEMMA RecentFirstIsGood ==
  ASSUME NEW owner, NEW now, NEW S, Snapshot(owner, now, S)
  PROVE  GoodList(owner, now, RecentFirst(S)) /\ Range(RecentFirst(S)) = S
<1> DEFINE key == [row \in S |-> -row.updated_at]
           s == RecentFirst(S)
           n == Cardinality(S)
<1>1. \A row \in S : OwnedRow(owner, now, row) /\ row \in Row
  BY DEF Snapshot, OwnedRow
<1>2. \A row \in S : row.updated_at \in Int /\ key[row] = -row.updated_at
  BY <1>1, RowFields
<1>3. KeyOf(S, key)
  <2>1. key \in [S -> Int]
    BY <1>2
  <2>2. ASSUME NEW x \in S, NEW y \in S, key[x] = key[y] PROVE x = y
    <3>1. x.updated_at = y.updated_at
      <4> HIDE DEF key
      <4> QED BY <1>2, <2>2
    <3>2. x.id = y.id
      BY <1>1, <3>1 DEF OwnedRow
    <3> QED BY <3>2 DEF Snapshot
  <2> HIDE DEF key
  <2> QED BY <2>1, <2>2 DEF KeyOf, Snapshot
<1>4. s = Ranked(S, key)
  BY DEF RecentFirst
<1> HIDE DEF key
<1>5. RisesThrough(s, S, key)
  <2> HIDE DEF s
  <2> QED BY <1>3, <1>4, RankedRises
<1> HIDE DEF s
<1>6. n \in Nat /\ s \in [1..n -> S]
  BY <1>5 DEF RisesThrough
<1>7. s \in Seq(S) /\ Len(s) = n /\ DOMAIN s = 1..n /\ s \in Seq(Row)
  <2> HIDE DEF n
  <2>1. s \in [1..n -> Row]
    BY <1>1, <1>6
  <2> QED BY <1>6, <2>1
<1>8. Range(s) = S
  <2>1. \A x \in S : \E i \in DOMAIN s : s[i] = x
    BY <1>5, <1>7 DEF RisesThrough
  <2>2. \A i \in DOMAIN s : s[i] \in S
    BY <1>6, <1>7
  <2> QED BY <2>1, <2>2 DEF Range
<1>9. ASSUME NEW i \in 1..n, NEW j \in 1..n, i < j
      PROVE  s[i].id # s[j].id /\ s[i].updated_at >= s[j].updated_at
  <2>1. s[i] \in S /\ s[j] \in S /\ key[s[i]] < key[s[j]]
    BY <1>5, <1>6, <1>9 DEF RisesThrough
  <2>2. s[i].updated_at > s[j].updated_at
    BY <1>2, <2>1
  <2>3. s[i] # s[j]
    BY <1>2, <2>1, <2>2
  <2> QED BY <1>2, <2>1, <2>2, <2>3 DEF Snapshot
<1>10. \A i \in 1..n : OwnedRow(owner, now, s[i])
  BY <1>1, <1>6
<1> QED BY <1>7, <1>8, <1>9, <1>10 DEF GoodList, s

\* A list, in any order, of rows of different pages.
DistinctList(owner, now, s) ==
  /\ s \in Seq(Row)
  /\ \A i \in 1..Len(s) : OwnedRow(owner, now, s[i])
  /\ \A i, j \in 1..Len(s) : i # j => s[i].id # s[j].id

\* What a list that is good has of that.
LEMMA GoodIsDistinct ==
  ASSUME NEW owner, NEW now, NEW s, GoodList(owner, now, s)
  PROVE  DistinctList(owner, now, s)
<1>1. \A i, j \in 1..Len(s) : i # j => i < j \/ j < i
  BY DEF GoodList
<1> QED BY <1>1 DEF GoodList, DistinctList

\* The rows of a list are a snapshot.
LEMMA ListIsSnapshot ==
  ASSUME NEW owner, NEW now, NEW s, DistinctList(owner, now, s)
  PROVE  Snapshot(owner, now, Range(s))
<1>1. s \in Seq(Row) /\ DOMAIN s = 1..Len(s) /\ Len(s) \in Nat
  BY DEF DistinctList
<1>2. IsFiniteSet(Range(s))
  <2>1. IsFiniteSet(1..Len(s))
    BY <1>1, FS_Interval
  <2>2. s \in Surjection(1..Len(s), Range(s))
    BY <1>1 DEF Surjection, Range
  <2> QED BY <2>1, <2>2, FS_Surjection
<1>3. \A x \in Range(s) : \E i \in 1..Len(s) : x = s[i]
  BY <1>1 DEF Range
<1>4. \A i, j \in 1..Len(s) : s[i].id = s[j].id => s[i] = s[j]
  BY <1>1 DEF DistinctList
<1> QED BY <1>2, <1>3, <1>4 DEF DistinctList, Snapshot

\* A distinct list, sorted, is good and has the same rows.
LEMMA SortedIsGood ==
  ASSUME NEW owner, NEW now, NEW s, DistinctList(owner, now, s)
  PROVE  /\ GoodList(owner, now, sort_pages_recent_first(s))
         /\ Range(sort_pages_recent_first(s)) = Range(s)
BY ListIsSnapshot, RecentFirstIsGood DEF sort_pages_recent_first

\* A row more that is of no page yet in a snapshot leaves it one.
LEMMA SnapshotGrows ==
  ASSUME NEW owner, NEW now, NEW S, Snapshot(owner, now, S), NEW row,
         OwnedRow(owner, now, row), \A other \in S : other.id # row.id
  PROVE  Snapshot(owner, now, S \cup {row})
<1>1. IsFiniteSet(S \cup {row})
  BY FS_AddElement DEF Snapshot
<1> QED BY <1>1 DEF Snapshot

\* Rows fewer leave a snapshot one.
LEMMA SnapshotShrinks ==
  ASSUME NEW owner, NEW now, NEW S, Snapshot(owner, now, S),
         NEW T \in SUBSET S
  PROVE  Snapshot(owner, now, T)
<1>1. IsFiniteSet(T)
  BY FS_Subset DEF Snapshot
<1> QED BY <1>1 DEF Snapshot
-----------------------------------------------------------------------------
(* One event, folded into the list.                                        *)

\* Retain drops the rows of p and keeps the others in their order.
LEMMA RetainIsGood ==
  ASSUME NEW owner, NEW now, GoodList(owner, now, list), NEW p
  PROVE  /\ GoodList(owner, now, Retain(p))
         /\ Range(Retain(p)) = {row \in Range(list) : row.id # p}
<1> DEFINE kept == {i \in DOMAIN list : list[i].id # p}
           key == [i \in kept |-> i]
           order == Ranked(kept, key)
           n == Cardinality(kept)
           s == Retain(p)
<1>1. list \in Seq(Row) /\ Len(list) \in Nat /\ DOMAIN list = 1..Len(list)
  BY DEF GoodList
<1>2. kept \subseteq 1..Len(list) /\ IsFiniteSet(kept)
  <2>1. IsFiniteSet(1..Len(list))
    BY <1>1, FS_Interval
  <2>2. kept \in SUBSET (1..Len(list))
    BY <1>1
  <2> HIDE DEF kept
  <2> QED BY <2>1, <2>2, FS_Subset
<1>3. KeyOf(kept, key) /\ \A i \in kept : key[i] = i
  <2> HIDE DEF kept
  <2> QED BY <1>1, <1>2 DEF KeyOf
<1>4. s = [i \in DOMAIN order |-> list[order[i]]]
  BY DEF Retain
<1>5. \A i \in 1..Len(list) : i \in kept <=> list[i].id # p
  BY <1>1
<1> HIDE DEF kept, key
<1>6. RisesThrough(order, kept, key)
  BY <1>3, RankedRises
<1> HIDE DEF order
<1>7. n \in Nat /\ order \in [1..n -> kept] /\ DOMAIN order = 1..n
  BY <1>6 DEF RisesThrough
<1>8. \A i \in 1..n : order[i] \in 1..Len(list) /\ order[i] \in kept
  BY <1>2, <1>7
<1> HIDE DEF n, s
<1>9. s = [i \in 1..n |-> list[order[i]]]
  BY <1>4, <1>7
<1>10. s \in Seq(Row) /\ Len(s) = n /\ DOMAIN s = 1..n
  <2>1. \A i \in 1..n : list[order[i]] \in Row
    BY <1>1, <1>8
  <2>2. s \in [1..n -> Row]
    BY <1>9, <2>1
  <2> QED BY <1>7, <2>2
<1>11. \A i \in 1..n : s[i] = list[order[i]]
  BY <1>9
<1>12. ASSUME NEW i \in 1..n, NEW j \in 1..n, i < j
       PROVE  order[i] < order[j]
  BY <1>3, <1>6, <1>8, <1>12 DEF RisesThrough, n
<1>13. ASSUME NEW i \in 1..n, NEW j \in 1..n, i < j
       PROVE  s[i].id # s[j].id /\ s[i].updated_at >= s[j].updated_at
  BY <1>8, <1>11, <1>12, <1>13 DEF GoodList
<1>14. \A i \in 1..n : OwnedRow(owner, now, s[i])
  BY <1>8, <1>11 DEF GoodList
<1>15. GoodList(owner, now, s)
  BY <1>10, <1>13, <1>14 DEF GoodList
<1>16. Range(s) = {row \in Range(list) : row.id # p}
  <2>1. ASSUME NEW i \in 1..n
        PROVE  s[i] \in Range(list) /\ s[i].id # p
    BY <1>1, <1>5, <1>8, <1>11 DEF Range
  <2>2. ASSUME NEW i \in 1..Len(list), list[i].id # p
        PROVE  \E j \in 1..n : s[j] = list[i]
    <3>1. i \in kept
      BY <1>5, <2>2
    <3>2. PICK j \in 1..n : order[j] = i
      BY <1>6, <3>1 DEF RisesThrough, n
    <3> QED BY <1>11, <3>2
  <2>3. \A x \in Range(s) : \E i \in 1..n : x = s[i]
    BY <1>10 DEF Range
  <2>4. \A i \in 1..n : s[i] \in Range(s)
    BY <1>10 DEF Range
  <2>5. \A x \in Range(list) : \E i \in 1..Len(list) : x = list[i]
    BY <1>1 DEF Range
  <2>6. ASSUME NEW x \in Range(list), x.id # p PROVE x \in Range(s)
    <3>1. PICK i \in 1..Len(list) : x = list[i]
      BY <2>5
    <3> QED BY <2>2, <2>4, <2>6, <3>1
  <2>7. \A x \in Range(s) : x \in Range(list) /\ x.id # p
    BY <2>1, <2>3
  <2> QED BY <2>6, <2>7
<1> QED BY <1>15, <1>16 DEF s

\* What an event of each kind carries.
LEMMA EventFields ==
  ASSUME NEW event \in Event
  PROVE  /\ event.type \in {"PageCreated", "PageDeleted", "PageUpdated",
                            "PageThumbnailUpdated"}
         /\ event.type = "PageCreated" => event.page \in Row
         /\ event.type = "PageDeleted" => event.page_id \in Page
         /\ event.type = "PageUpdated" =>
              event.page_id \in Page /\ event.updated_at \in 1 .. MaxTime
         /\ event.type = "PageThumbnailUpdated" =>
              event.page_id \in Page /\ event.thumbnail \in Thumbnail
         /\ event # Lagged
BY DEF Event, Lagged

\* A list after an event other than a creation: the rows that are still there
\* are no older.
NoOlder(s, t) ==
  \A row \in Range(s), other \in Range(t) :
     row.id = other.id =>
       /\ other.updated_at >= row.updated_at
       /\ other.thumbnail.seq >= row.thumbnail.seq

\* A list whose rows all were there is no older.
LEMMA FewerNoOlder ==
  ASSUME NEW owner, NEW now, NEW s, DistinctList(owner, now, s), NEW t,
         Range(t) \subseteq Range(s)
  PROVE  NoOlder(s, t)
<1>1. Snapshot(owner, now, Range(s))
  BY ListIsSnapshot
<1>2. \A row \in Range(s) : row \in Row
  BY <1>1 DEF Snapshot, OwnedRow
<1>3. \A row \in Range(s), other \in Range(t) : row.id = other.id => row = other
  BY <1>1 DEF Snapshot
<1>4. \A row \in Range(s) : /\ row.updated_at >= row.updated_at
                            /\ row.thumbnail.seq >= row.thumbnail.seq
  BY <1>2, RowFields
<1> QED BY <1>3, <1>4 DEF NoOlder

\* Where a page of the list is.
LEMMA PositionIsThere ==
  ASSUME NEW owner, NEW now, GoodList(owner, now, list),
         NEW p \in Ids(Range(list))
  PROVE  Position(p) \in 1..Len(list) /\ list[Position(p)].id = p
<1>1. DOMAIN list = 1..Len(list)
  BY DEF GoodList
<1>2. \E i \in DOMAIN list : list[i].id = p
  BY DEF Ids, Range
<1> QED BY <1>1, <1>2 DEF Position

\* One row of a list made newer, at a time or a thumbnail of its page.
LEMMA NewerRow ==
  ASSUME NEW owner, NEW now, NEW s, DistinctList(owner, now, s),
         NEW k \in 1..Len(s), NEW row, OwnedRow(owner, now, row),
         row.id = s[k].id, row.updated_at >= s[k].updated_at,
         row.thumbnail.seq >= s[k].thumbnail.seq
  PROVE  /\ DistinctList(owner, now, [s EXCEPT ![k] = row])
         /\ NoOlder(s, [s EXCEPT ![k] = row])
<1> DEFINE t == [s EXCEPT ![k] = row]
<1>1. s \in Seq(Row) /\ row \in Row /\ DOMAIN s = 1..Len(s)
  BY DEF DistinctList, OwnedRow
<1>2. t \in Seq(Row) /\ Len(t) = Len(s) /\ DOMAIN t = 1..Len(s)
  BY <1>1
<1>3. \A i \in 1..Len(s) : t[i] = IF i = k THEN row ELSE s[i]
  BY <1>1
<1> HIDE DEF t
<1>4. DistinctList(owner, now, t)
  BY <1>2, <1>3 DEF DistinctList
<1>5. \A i \in 1..Len(s) :
        /\ t[i].id = s[i].id
        /\ t[i].updated_at >= s[i].updated_at
        /\ t[i].thumbnail.seq >= s[i].thumbnail.seq
  <2>1. \A i \in 1..Len(s) : s[i] \in Row
    BY <1>1
  <2>2. \A i \in 1..Len(s) :
          /\ s[i].updated_at \in Int
          /\ s[i].thumbnail.seq \in Int
    BY <2>1, RowFields
  <2> QED BY <1>3, <2>2
<1>6. NoOlder(s, t)
  <2>1. \A i, j \in 1..Len(s) : s[i].id = t[j].id => i = j
    BY <1>5 DEF DistinctList
  <2> QED BY <1>1, <1>2, <1>5, <2>1 DEF NoOlder, Range
<1> QED BY <1>4, <1>6 DEF t
\* A creation puts its row in the list, in place of what it had of that page.
LEMMA CreatedIsApplied ==
  ASSUME NEW owner, NEW now, GoodList(owner, now, list),
         NEW row, OwnedRow(owner, now, row)
  PROVE  GoodList(owner, now,
                  sort_pages_recent_first(Append(Retain(row.id), row)))
<1> DEFINE kept == Retain(row.id)
           s == Append(kept, row)
<1>1. GoodList(owner, now, kept)
  BY RetainIsGood
<1>2. \A r \in Range(kept) : r.id # row.id
  BY RetainIsGood
<1>3. DistinctList(owner, now, kept) /\ kept \in Seq(Row)
  BY <1>1, GoodIsDistinct DEF DistinctList
<1> HIDE DEF kept
<1>4. /\ s \in Seq(Row) /\ Len(s) = Len(kept) + 1 /\ Len(kept) \in Nat
      /\ \A i \in 1..Len(s) :
           \/ i \in 1..Len(kept) /\ s[i] = kept[i]
           \/ i = Len(kept) + 1 /\ s[i] = row
  BY <1>3 DEF OwnedRow
<1>5. \A i \in 1..Len(kept) : kept[i].id # row.id
  BY <1>2, <1>3 DEF Range
<1> HIDE DEF s
<1>6. DistinctList(owner, now, s)
  <2>1. \A i \in 1..Len(s) : OwnedRow(owner, now, s[i])
    BY <1>3, <1>4 DEF DistinctList
  <2>2. ASSUME NEW i \in 1..Len(s), NEW j \in 1..Len(s), i # j
        PROVE  s[i].id # s[j].id
    BY <1>3, <1>4, <1>5, <2>2 DEF DistinctList
  <2> QED BY <1>4, <2>1, <2>2 DEF DistinctList
<1>7. GoodList(owner, now, sort_pages_recent_first(s))
  BY <1>6, SortedIsGood
<1> QED BY <1>7 DEF s, kept

\* An update moves its page's row up, and only if it is newer.
LEMMA UpdatedIsApplied ==
  ASSUME NEW owner, NEW now, GoodList(owner, now, list), NEW p, NEW t,
         p \in Ids(Range(list)), t \in 1 .. MaxTime, t <= now, owner[t] = p,
         t > list[Position(p)].updated_at
  PROVE  LET s == [list EXCEPT ![Position(p)].updated_at = t]
         IN  /\ GoodList(owner, now, sort_pages_recent_first(s))
             /\ NoOlder(list, sort_pages_recent_first(s))
<1> DEFINE k == Position(p)
           row == [list[k] EXCEPT !.updated_at = t]
           s == [list EXCEPT ![k].updated_at = t]
<1>1. k \in 1..Len(list) /\ list[k].id = p /\ t > list[k].updated_at
  BY PositionIsThere
<1>2. DistinctList(owner, now, list) /\ list[k] \in Row /\ t \in Int
  BY <1>1, GoodIsDistinct, LibraryAssumption DEF DistinctList
<1>3. list[k].updated_at \in Int /\ list[k].thumbnail.seq \in Int
  BY <1>2, RowFields
<1> HIDE DEF k
<1>4. /\ row \in Row /\ row.id = p /\ row.updated_at = t
      /\ row.thumbnail = list[k].thumbnail
  BY <1>1, <1>2, LibraryAssumption DEF Row
<1>5. s = [list EXCEPT ![k] = row]
  BY <1>1
<1> HIDE DEF row, s
<1>6. OwnedRow(owner, now, row)
  BY <1>4 DEF OwnedRow
<1>7. row.updated_at >= list[k].updated_at
      /\ row.thumbnail.seq >= list[k].thumbnail.seq
  BY <1>1, <1>2, <1>3, <1>4
<1>8. DistinctList(owner, now, s) /\ NoOlder(list, s)
  BY <1>1, <1>2, <1>4, <1>5, <1>6, <1>7, NewerRow
<1>9. /\ GoodList(owner, now, sort_pages_recent_first(s))
      /\ NoOlder(list, sort_pages_recent_first(s))
  BY <1>8, SortedIsGood DEF NoOlder
<1> QED BY <1>9 DEF s, k

\* A thumbnail replaces its page's, and only if its revision is no older.
LEMMA ThumbnailIsApplied ==
  ASSUME NEW owner, NEW now, GoodList(owner, now, list), NEW p,
         p \in Ids(Range(list)), NEW thumbnail \in Thumbnail,
         thumbnail.seq >= list[Position(p)].thumbnail.seq
  PROVE  LET s == [list EXCEPT ![Position(p)].thumbnail = thumbnail]
         IN  GoodList(owner, now, s) /\ NoOlder(list, s)
<1> DEFINE k == Position(p)
           row == [list[k] EXCEPT !.thumbnail = thumbnail]
           s == [list EXCEPT ![k].thumbnail = thumbnail]
<1>1. /\ k \in 1..Len(list) /\ list[k].id = p
      /\ thumbnail.seq >= list[k].thumbnail.seq
  BY PositionIsThere
<1>2. DistinctList(owner, now, list) /\ list[k] \in Row /\ list \in Seq(Row)
  BY <1>1, GoodIsDistinct DEF DistinctList
<1>3. list[k].updated_at \in Int /\ OwnedRow(owner, now, list[k])
  BY <1>1, <1>2, RowFields DEF DistinctList
<1> HIDE DEF k
<1>4. /\ row \in Row /\ row.id = p /\ row.thumbnail = thumbnail
      /\ row.updated_at = list[k].updated_at
  BY <1>1, <1>2 DEF Row
<1>5. s = [list EXCEPT ![k] = row]
  BY <1>1
<1> HIDE DEF row, s
<1>6. OwnedRow(owner, now, row)
  BY <1>1, <1>3, <1>4 DEF OwnedRow
<1>7. row.updated_at >= list[k].updated_at
      /\ row.thumbnail.seq >= list[k].thumbnail.seq
  BY <1>1, <1>3, <1>4
<1>8. DistinctList(owner, now, s) /\ NoOlder(list, s)
  BY <1>1, <1>2, <1>4, <1>5, <1>6, <1>7, NewerRow
<1>9. /\ Len(s) = Len(list)
      /\ \A i \in 1..Len(list) : /\ s[i].updated_at = list[i].updated_at
  BY <1>2, <1>4, <1>5
<1>10. GoodList(owner, now, s)
  <2>1. \A i, j \in 1..Len(s) : i < j => i # j
    BY <1>2, <1>9
  <2> QED BY <1>8, <1>9, <2>1 DEF GoodList, DistinctList
<1> QED BY <1>8, <1>10 DEF s, k

\* Whatever the event, the list stays good, and unless it is a creation no
\* row of it gets older.
LEMMA EventIsApplied ==
  ASSUME NEW owner, NEW now, GoodList(owner, now, list), NEW event,
         OwnedEvent(owner, now, event)
  PROVE  /\ GoodList(owner, now, apply_library_event_to_pages(event))
         /\ event.type # "PageCreated"
              => NoOlder(list, apply_library_event_to_pages(event))
<1> DEFINE new == apply_library_event_to_pages(event)
<1>1. event \in Event /\ DistinctList(owner, now, list)
  BY GoodIsDistinct DEF OwnedEvent
<1>2. NoOlder(list, list)
  BY <1>1, FewerNoOlder
<1>3. CASE event.type = "PageCreated"
  <2>1. new = sort_pages_recent_first(Append(Retain(event.page.id), event.page))
    BY <1>3 DEF apply_library_event_to_pages
  <2> HIDE DEF new
  <2>2. OwnedRow(owner, now, event.page)
    BY <1>3 DEF OwnedEvent
  <2>3. GoodList(owner, now, new)
    BY <2>1, <2>2, CreatedIsApplied
  <2> QED BY <1>3, <2>3 DEF new
<1>4. CASE event.type = "PageDeleted"
  <2>1. new = Retain(event.page_id)
    BY <1>4 DEF apply_library_event_to_pages
  <2> HIDE DEF new
  <2>2. GoodList(owner, now, new) /\ Range(new) \subseteq Range(list)
    BY <2>1, RetainIsGood
  <2>3. NoOlder(list, new)
    BY <1>1, <2>2, FewerNoOlder
  <2> QED BY <2>2, <2>3 DEF new
<1>5. CASE event.type = "PageThumbnailUpdated"
  <2> DEFINE p == event.page_id
             s == [list EXCEPT ![Position(p)].thumbnail = event.thumbnail]
             late == /\ p \in Ids(Range(list))
                     /\ event.thumbnail.seq >= list[Position(p)].thumbnail.seq
  <2>1. new = IF late THEN s ELSE list
    BY <1>5 DEF apply_library_event_to_pages
  <2>2. event.thumbnail \in Thumbnail
    BY <1>1, <1>5, EventFields
  <2>3. late => GoodList(owner, now, s) /\ NoOlder(list, s)
    BY <2>2, ThumbnailIsApplied
  <2> HIDE DEF new, s, late
  <2>4. GoodList(owner, now, new) /\ NoOlder(list, new)
    BY <1>2, <2>1, <2>3
  <2> QED BY <2>4 DEF new
<1>6. CASE event.type = "PageUpdated"
  <2> DEFINE p == event.page_id
             t == event.updated_at
             s == sort_pages_recent_first(
                    [list EXCEPT ![Position(p)].updated_at = t])
             late == /\ p \in Ids(Range(list))
                     /\ t > list[Position(p)].updated_at
  <2>1. new = IF late THEN s ELSE list
    BY <1>6 DEF apply_library_event_to_pages
  <2>2. t \in 1 .. MaxTime /\ t <= now /\ owner[t] = p
    BY <1>1, <1>6, EventFields DEF OwnedEvent
  <2>3. late => GoodList(owner, now, s) /\ NoOlder(list, s)
    BY <2>2, UpdatedIsApplied
  <2> HIDE DEF new, s, late
  <2>4. GoodList(owner, now, new) /\ NoOlder(list, new)
    BY <1>2, <2>1, <2>3
  <2> QED BY <2>4 DEF new
<1> QED BY <1>1, <1>3, <1>4, <1>5, <1>6, EventFields
-----------------------------------------------------------------------------
(* Time passing.                                                           *)

\* later gives the times up to now the pages that owner gave them.
Extends(owner, now, later) == \A t \in 0 .. now : later[t] = owner[t]

\* What was owned stays owned as time passes.
LEMMA OwnedLater ==
  ASSUME NEW owner, NEW later, NEW now \in Nat, Extends(owner, now, later)
  PROVE  /\ \A row : OwnedRow(owner, now, row)
                       => OwnedRow(later, now + 1, row)
         /\ \A event : OwnedEvent(owner, now, event)
                         => OwnedEvent(later, now + 1, event)
         /\ \A S : Snapshot(owner, now, S) => Snapshot(later, now + 1, S)
         /\ \A s : GoodList(owner, now, s) => GoodList(later, now + 1, s)
<1>1. ASSUME NEW row, OwnedRow(owner, now, row)
      PROVE  OwnedRow(later, now + 1, row)
  <2>1. row \in Row /\ row.updated_at \in 0 .. MaxTime /\ MaxTime \in Nat
    BY <1>1, RowFields, LibraryAssumption DEF OwnedRow
  <2>2. row.updated_at \in 0 .. now /\ row.updated_at <= now + 1
    BY <1>1, <2>1 DEF OwnedRow
  <2> QED BY <1>1, <2>1, <2>2 DEF OwnedRow, Extends
<1>2. ASSUME NEW event, OwnedEvent(owner, now, event)
      PROVE  OwnedEvent(later, now + 1, event)
  <2>1. event \in Event /\ MaxTime \in Nat
    BY <1>2, LibraryAssumption DEF OwnedEvent
  <2>2. event.type = "PageCreated" => OwnedRow(later, now + 1, event.page)
    BY <1>1, <1>2 DEF OwnedEvent
  <2>3. ASSUME event.type = "PageUpdated"
        PROVE  /\ event.updated_at <= now + 1
               /\ later[event.updated_at] = event.page_id
    <3>1. event.updated_at \in 1 .. MaxTime
      BY <2>1, <2>3, EventFields
    <3>2. /\ event.updated_at \in 0 .. now
          /\ owner[event.updated_at] = event.page_id
      BY <1>2, <2>1, <2>3, <3>1 DEF OwnedEvent
    <3> QED BY <3>2 DEF Extends
  <2> QED BY <2>1, <2>2, <2>3 DEF OwnedEvent
<1>3. \A S : Snapshot(owner, now, S) => Snapshot(later, now + 1, S)
  BY <1>1 DEF Snapshot
<1>4. \A s : GoodList(owner, now, s) => GoodList(later, now + 1, s)
  BY <1>1 DEF GoodList
<1> QED BY <1>1, <1>2, <1>3, <1>4

\* The time of a commit is given to its page, and nothing that was owned is
\* owned any less.
LEMMA CommitKeeps ==
  ASSUME StateOK, NEW owner \in Owners, TimesAreOwn(owner, clock),
         clock < MaxTime, NEW p \in Page
  PROVE  \E later \in Owners : /\ later[clock + 1] = p
                               /\ TimesAreOwn(later, clock + 1)
<1> DEFINE later == [owner EXCEPT ![clock + 1] = p]
<1>1. clock \in Nat /\ MaxTime \in Nat /\ clock + 1 \in 0 .. MaxTime
  BY LibraryAssumption DEF StateOK
<1>2. later \in Owners /\ later[clock + 1] = p
  BY <1>1 DEF Owners
<1>3. Extends(owner, clock, later)
  BY <1>1 DEF Owners, Extends
<1> HIDE DEF later
<1>4. /\ Snapshot(later, clock + 1, rows)
      /\ FetchOwn(later, clock + 1, fetch)
      /\ GoodList(later, clock + 1, list)
  BY <1>1, <1>3, OwnedLater DEF TimesAreOwn, FetchOwn
<1>5. \A event : OwnedEvent(owner, clock, event)
                   => OwnedEvent(later, clock + 1, event)
  BY <1>1, <1>3, OwnedLater
<1>6. /\ HandlersOwn(later, clock + 1, handlers)
      /\ ChannelOwn(later, clock + 1, channel)
      /\ AcksOwn(later, clock + 1, acks)
  BY <1>5 DEF TimesAreOwn, HandlersOwn, ChannelOwn, AcksOwn
<1> QED BY <1>2, <1>4, <1>6 DEF TimesAreOwn
-----------------------------------------------------------------------------
(* The steps that commit.                                                  *)

\* The events the server makes are events.
LEMMA EventsAreMade ==
  ASSUME NEW p \in Page
  PROVE  /\ Deleted(p) \in Event /\ Deleted(p).type = "PageDeleted"
         /\ \A row \in Row :
              /\ Created(row) \in Event /\ Created(row).type = "PageCreated"
              /\ Created(row).page = row
         /\ \A t \in 1 .. MaxTime :
              /\ Updated(p, t) \in Event /\ Updated(p, t).type = "PageUpdated"
              /\ Updated(p, t).page_id = p /\ Updated(p, t).updated_at = t
         /\ \A seq \in 0 .. MaxTime,
               status \in {"empty", "generating", "available", "failed"} :
              /\ ThumbnailUpdated(p, seq, status) \in Event
              /\ ThumbnailUpdated(p, seq, status).type = "PageThumbnailUpdated"
BY DEF Deleted, Created, Updated, ThumbnailUpdated, Event, Thumbnail

\* A handler more, that has one or two events to publish.
LEMMA HandlerJoins ==
  ASSUME NEW owner, NEW now, NEW H, HandlersOwn(owner, now, H), NEW h,
         \/ \E e : OwnedEvent(owner, now, e) /\ h = <<e>>
         \/ \E e, d : /\ OwnedEvent(owner, now, e) /\ OwnedEvent(owner, now, d)
                      /\ h = <<e, d>>
  PROVE  HandlersOwn(owner, now, H \cup {h})
<1>1. /\ h \in Seq(Event) /\ h # <<>>
      /\ \A i \in 1..Len(h) : OwnedEvent(owner, now, h[i])
  <2>1. CASE \E e : OwnedEvent(owner, now, e) /\ h = <<e>>
    BY <2>1 DEF OwnedEvent
  <2>2. CASE \E e, d : /\ OwnedEvent(owner, now, e)
                       /\ OwnedEvent(owner, now, d) /\ h = <<e, d>>
    <3>1. PICK e, d : /\ OwnedEvent(owner, now, e)
                      /\ OwnedEvent(owner, now, d) /\ h = <<e, d>>
      BY <2>2
    <3>2. Len(h) = 2 /\ h[1] = e /\ h[2] = d
      BY <3>1
    <3>3. h \in Seq(Event) /\ h # <<>>
      BY <3>1 DEF OwnedEvent
    <3>4. ASSUME NEW i \in 1..Len(h) PROVE OwnedEvent(owner, now, h[i])
      <4>1. i = 1 \/ i = 2
        BY <3>2
      <4> QED BY <3>1, <3>2, <4>1
    <3> QED BY <3>3, <3>4
  <2> QED BY <2>1, <2>2
<1> QED BY <1>1 DEF HandlersOwn

\* The row of a page that has one.
LEMMA RowOfIsThere ==
  ASSUME NEW p \in Ids(rows)
  PROVE  RowOf(p) \in rows /\ RowOf(p).id = p
BY DEF Ids, RowOf

\* An insert.
LEMMA CreateStep ==
  ASSUME LibraryInv, NEW p \in Page, NEW mine \in BOOLEAN, create_page(p, mine)
  PROVE  LibraryInv'
<1>1. /\ StateOK /\ ChannelOK /\ clock < MaxTime /\ clock \in Nat
      /\ MaxTime \in Nat /\ clock + 1 \in 1 .. MaxTime
      /\ clock + 1 \in 0 .. MaxTime
  BY LibraryAssumption DEF LibraryInv, StateOK, create_page
<1>2. PICK owner \in Owners : TimesAreOwn(owner, clock)
  BY DEF LibraryInv
<1>3. PICK later \in Owners : /\ later[clock + 1] = p
                              /\ TimesAreOwn(later, clock + 1)
  BY <1>1, <1>2, CommitKeeps
<1> DEFINE row == [id |-> p, updated_at |-> clock + 1,
                   thumbnail |-> [seq |-> 0, status |-> "empty"]]
<1>4. /\ rows' = rows \cup {row} /\ clock' = clock + 1
      /\ handlers' = handlers \cup {<<Created(row)>>}
      /\ acks' = acks \cup (IF mine THEN {Created(row)} ELSE {})
      /\ minted' = minted \cup {p} /\ p \notin minted
      /\ UNCHANGED <<jobs, channel, conn, told, fetch, client, list, selected>>
  BY DEF create_page, feedVars
<1>5. row \in Row /\ row.id = p /\ row.updated_at = clock + 1
  BY <1>1 DEF Row, Thumbnail
<1> HIDE DEF row
<1>6. OwnedRow(later, clock + 1, row)
  BY <1>1, <1>3, <1>5 DEF OwnedRow
<1>7. OwnedEvent(later, clock + 1, Created(row))
      /\ Created(row).type = "PageCreated"
  BY <1>5, <1>6, EventsAreMade DEF OwnedEvent
<1>8. Snapshot(later, clock + 1, rows')
  <2>1. Snapshot(later, clock + 1, rows)
    BY <1>3 DEF TimesAreOwn
  <2>2. \A other \in rows : other.id # row.id
    BY <1>1, <1>4, <1>5 DEF StateOK
  <2> QED BY <1>4, <1>6, <2>1, <2>2, SnapshotGrows
<1>9. HandlersOwn(later, clock + 1, handlers')
  BY <1>3, <1>4, <1>7, HandlerJoins DEF TimesAreOwn
<1>10. AcksOwn(later, clock + 1, acks')
  BY <1>3, <1>4, <1>7 DEF TimesAreOwn, AcksOwn
<1>11. TimesAreOwn(later, clock)'
  BY <1>3, <1>4, <1>8, <1>9, <1>10 DEF TimesAreOwn
<1>12. StateOK'
  BY <1>1, <1>4, <1>5 DEF StateOK
<1>13. ChannelOK'
  BY <1>1, <1>4 DEF ChannelOK
<1> QED BY <1>11, <1>12, <1>13 DEF LibraryInv

\* A commit of a page's ink or paper.
LEMMA EditStep ==
  ASSUME LibraryInv, NEW p \in Page, NEW inked \in BOOLEAN, edit_page(p, inked)
  PROVE  LibraryInv'
<1>1. /\ StateOK /\ ChannelOK /\ clock < MaxTime /\ clock \in Nat
      /\ MaxTime \in Nat /\ clock + 1 \in 1 .. MaxTime
      /\ clock + 1 \in 0 .. MaxTime
  BY LibraryAssumption DEF LibraryInv, StateOK, edit_page
<1>2. PICK owner \in Owners : TimesAreOwn(owner, clock)
  BY DEF LibraryInv
<1>3. PICK later \in Owners : /\ later[clock + 1] = p
                              /\ TimesAreOwn(later, clock + 1)
  BY <1>1, <1>2, CommitKeeps
<1> DEFINE seq == clock + 1
           thumbnail == [seq |-> seq, status |-> "generating"]
           row == [id |-> p, updated_at |-> seq, thumbnail |->
                     IF inked THEN thumbnail ELSE RowOf(p).thumbnail]
           h == IF inked
                THEN <<Updated(p, seq), ThumbnailUpdated(p, seq, "generating")>>
                ELSE <<Updated(p, seq)>>
<1>4. /\ rows' = (rows \ {RowOf(p)}) \cup {row} /\ clock' = clock + 1
      /\ handlers' = handlers \cup {h}
      /\ jobs' = jobs \cup (IF inked THEN {<<p, seq>>} ELSE {})
      /\ UNCHANGED <<minted, channel, conn, told, fetch, client, list,
                     selected, acks>>
      /\ p \in Ids(rows)
  BY DEF edit_page, feedVars, clientVars
<1>5. RowOf(p) \in rows /\ RowOf(p).id = p
  BY <1>4, RowOfIsThere
<1>6. RowOf(p).thumbnail \in Thumbnail
  <2>1. RowOf(p) \in Row
    BY <1>2, <1>5 DEF TimesAreOwn, Snapshot, OwnedRow
  <2> QED BY <2>1, RowFields
<1>7. row \in Row /\ row.id = p /\ row.updated_at = clock + 1
  BY <1>1, <1>6 DEF Row, Thumbnail
<1>8. h = IF inked
          THEN <<Updated(p, seq), ThumbnailUpdated(p, seq, "generating")>>
          ELSE <<Updated(p, seq)>>
  OBVIOUS
<1> HIDE DEF row, h
<1>9. OwnedRow(later, clock + 1, row)
  BY <1>1, <1>3, <1>7 DEF OwnedRow
<1>10. /\ OwnedEvent(later, clock + 1, Updated(p, seq))
       /\ OwnedEvent(later, clock + 1, ThumbnailUpdated(p, seq, "generating"))
  BY <1>1, <1>3, EventsAreMade DEF OwnedEvent
<1>11. Snapshot(later, clock + 1, rows')
  <2>1. Snapshot(later, clock + 1, rows)
    BY <1>3 DEF TimesAreOwn
  <2>2. Snapshot(later, clock + 1, rows \ {RowOf(p)})
    <3>1. rows \ {RowOf(p)} \in SUBSET rows
      OBVIOUS
    <3> QED BY <2>1, <3>1, SnapshotShrinks
  <2>3. \A other \in rows \ {RowOf(p)} : other.id # row.id
    BY <1>5, <1>7, <2>1 DEF Snapshot
  <2> QED BY <1>4, <1>9, <2>2, <2>3, SnapshotGrows
<1>12. HandlersOwn(later, clock + 1, handlers')
  <2>1. HandlersOwn(later, clock + 1, handlers)
    BY <1>3 DEF TimesAreOwn
  <2>2. CASE inked
    <3>1. h = <<Updated(p, seq), ThumbnailUpdated(p, seq, "generating")>>
      BY <1>8, <2>2
    <3> HIDE DEF seq
    <3> QED BY <1>4, <1>10, <2>1, <3>1, HandlerJoins
  <2>3. CASE ~inked
    <3>1. h = <<Updated(p, seq)>>
      BY <1>8, <2>3
    <3> HIDE DEF seq
    <3> QED BY <1>4, <1>10, <2>1, <3>1, HandlerJoins
  <2> QED BY <2>2, <2>3
<1>13. TimesAreOwn(later, clock)'
  BY <1>3, <1>4, <1>11, <1>12 DEF TimesAreOwn
<1>14. StateOK'
  <2>1. jobs' \subseteq Page \X (1 .. MaxTime)
    BY <1>1, <1>4 DEF StateOK
  <2>2. \A r \in rows' : r.id \in minted'
    BY <1>1, <1>4, <1>5, <1>7 DEF StateOK
  <2>3. clock' \in 0 .. MaxTime
    BY <1>1, <1>4
  <2> QED BY <1>1, <1>4, <2>1, <2>2, <2>3 DEF StateOK
<1>15. ChannelOK'
  BY <1>1, <1>4 DEF ChannelOK
<1> QED BY <1>13, <1>14, <1>15 DEF LibraryInv

\* A delete.
LEMMA DeleteStep ==
  ASSUME LibraryInv, NEW p \in Page, NEW mine \in BOOLEAN, delete_page(p, mine)
  PROVE  LibraryInv'
<1>1. /\ StateOK /\ ChannelOK /\ clock < MaxTime /\ clock \in Nat
      /\ MaxTime \in Nat /\ clock + 1 \in 0 .. MaxTime
  BY LibraryAssumption DEF LibraryInv, StateOK, delete_page
<1>2. PICK owner \in Owners : TimesAreOwn(owner, clock)
  BY DEF LibraryInv
<1>3. PICK later \in Owners : /\ later[clock + 1] = p
                              /\ TimesAreOwn(later, clock + 1)
  BY <1>1, <1>2, CommitKeeps
<1>4. /\ rows' = rows \ {RowOf(p)} /\ clock' = clock + 1
      /\ handlers' = handlers \cup {<<Deleted(p)>>}
      /\ acks' = acks \cup (IF mine THEN {Deleted(p)} ELSE {})
      /\ UNCHANGED <<jobs, minted, channel, conn, told, fetch, client, list,
                     selected>>
  BY DEF delete_page, feedVars
<1>5. /\ OwnedEvent(later, clock + 1, Deleted(p))
      /\ Deleted(p).type = "PageDeleted"
  BY EventsAreMade DEF OwnedEvent
<1>6. Snapshot(later, clock + 1, rows')
  <2>1. rows' \in SUBSET rows
    BY <1>4
  <2> QED BY <1>3, <2>1, SnapshotShrinks DEF TimesAreOwn
<1>7. HandlersOwn(later, clock + 1, handlers')
  BY <1>3, <1>4, <1>5, HandlerJoins DEF TimesAreOwn
<1>8. AcksOwn(later, clock + 1, acks')
  BY <1>3, <1>4, <1>5 DEF TimesAreOwn, AcksOwn
<1>9. TimesAreOwn(later, clock)'
  BY <1>3, <1>4, <1>6, <1>7, <1>8 DEF TimesAreOwn
<1>10. StateOK'
  BY <1>1, <1>4 DEF StateOK
<1>11. ChannelOK'
  BY <1>1, <1>4 DEF ChannelOK
<1> QED BY <1>9, <1>10, <1>11 DEF LibraryInv
\* The end of a thumbnail job: the row it finds gets a status, no row a time.
LEMMA RenderStep ==
  ASSUME LibraryInv, NEW j \in jobs, NEW status \in {"available", "failed"},
         finish_thumbnail(j[1], j[2], status)
  PROVE  LibraryInv'
<1>1. StateOK /\ ChannelOK /\ MaxTime \in Nat
  BY LibraryAssumption DEF LibraryInv
<1>2. PICK owner \in Owners : TimesAreOwn(owner, clock)
  BY DEF LibraryInv
<1> DEFINE p == j[1]
           seq == j[2]
           done(row) == IF row.id = p /\ row.thumbnail.seq = seq
                        THEN [row EXCEPT !.thumbnail.status = status] ELSE row
           f == [row \in rows |-> done(row)]
<1>3. p \in Page /\ seq \in 1 .. MaxTime /\ seq \in 0 .. MaxTime
  BY <1>1 DEF StateOK
<1>4. /\ rows' = {done(row) : row \in rows}
      /\ handlers' = handlers \cup {<<ThumbnailUpdated(p, seq, status)>>}
      /\ jobs' = jobs \ {<<p, seq>>}
      /\ UNCHANGED <<minted, clock, channel, conn, told, fetch, client, list,
                     selected, acks>>
  BY DEF finish_thumbnail, feedVars, clientVars
<1>5. Snapshot(owner, clock, rows)
  BY <1>2 DEF TimesAreOwn
<1>6. ASSUME NEW row \in rows
      PROVE  /\ done(row) \in Row /\ done(row).id = row.id
             /\ done(row).updated_at = row.updated_at
  <2>1. row \in Row
    BY <1>5 DEF Snapshot, OwnedRow
  <2> QED BY <2>1 DEF Row, Thumbnail
<1>7. rows' = {f[row] : row \in rows} /\ f \in [rows -> rows']
      /\ \A row \in rows : f[row] = done(row)
  BY <1>4
<1> HIDE DEF done, f
<1>8. \A x \in rows' : \E row \in rows : x = done(row)
  BY <1>4
<1>9. IsFiniteSet(rows')
  <2>1. f \in Surjection(rows, rows')
    BY <1>7 DEF Surjection
  <2>2. IsFiniteSet(rows)
    BY <1>5 DEF Snapshot
  <2> QED BY <2>1, <2>2, FS_Surjection
<1>10. Snapshot(owner, clock, rows')
  <2>1. ASSUME NEW x \in rows' PROVE OwnedRow(owner, clock, x)
    <3>1. PICK row \in rows : x = done(row)
      BY <1>8
    <3> QED BY <1>5, <1>6, <3>1 DEF Snapshot, OwnedRow
  <2>2. ASSUME NEW x \in rows', NEW y \in rows', x.id = y.id PROVE x = y
    <3>1. PICK row \in rows : x = done(row)
      BY <1>8
    <3>2. PICK other \in rows : y = done(other)
      BY <1>8
    <3>3. row = other
      BY <1>5, <1>6, <2>2, <3>1, <3>2 DEF Snapshot
    <3> QED BY <3>1, <3>2, <3>3
  <2> QED BY <1>9, <2>1, <2>2 DEF Snapshot
<1>11. HandlersOwn(owner, clock, handlers')
  <2>1. OwnedEvent(owner, clock, ThumbnailUpdated(p, seq, status))
    BY <1>3, EventsAreMade DEF OwnedEvent
  <2> HIDE DEF p, seq
  <2> QED BY <1>2, <1>4, <2>1, HandlerJoins DEF TimesAreOwn
<1>12. TimesAreOwn(owner, clock)'
  BY <1>2, <1>4, <1>10, <1>11 DEF TimesAreOwn
<1>13. StateOK'
  <2>1. \A x \in rows' : x.id \in minted
    BY <1>1, <1>6, <1>8 DEF StateOK
  <2> QED BY <1>1, <1>4, <2>1 DEF StateOK
<1>14. ChannelOK'
  BY <1>1, <1>4 DEF ChannelOK
<1> QED BY <1>12, <1>13, <1>14 DEF LibraryInv

-----------------------------------------------------------------------------
(* The subscription.                                                       *)

\* A sequence without its head.
Behind(s, t) ==
  /\ Len(t) \in Nat /\ Len(s) = Len(t) + 1
  /\ \A i \in 1..Len(t) : i + 1 \in 1..Len(s) /\ t[i] = s[i + 1]

\* Tail drops the head and keeps the rest in order.
LEMMA TailIsBehind ==
  ASSUME NEW T, NEW s \in Seq(T), s # <<>>
  PROVE  Tail(s) \in Seq(T) /\ Behind(s, Tail(s)) /\ Head(s) = s[1]
<1> DEFINE t == Tail(s)
<1>1. /\ t \in Seq(T) /\ Len(t) = Len(s) - 1
      /\ \A i \in 1..Len(t) : t[i] = s[i + 1]
  BY HeadTailProperties
<1>2. Head(s) = s[1] /\ Len(s) \in Nat
  OBVIOUS
<1> HIDE DEF t
<1>3. Len(t) \in Nat
  BY <1>1
<1>4. \A i \in 1..Len(t) : i + 1 \in 1..Len(s)
  BY <1>1, <1>2, <1>3
<1> QED BY <1>1, <1>2, <1>3, <1>4 DEF Behind, t

\* The channel after a send is one event longer, or told to have lagged and
\* still no longer than its capacity and one.
LEMMA SentIsOK ==
  ASSUME ChannelOK, NEW event \in Event, NEW owner, NEW now,
         ChannelOwn(owner, now, channel), OwnedEvent(owner, now, event)
  PROVE  /\ Sent(event) \in Seq(Event \cup {Lagged})
         /\ Len(Sent(event)) <= Capacity + 1
         /\ Len(Sent(event)) = Capacity + 1 => Sent(event)[1] = Lagged
         /\ \A i \in 1..Len(Sent(event)) : Sent(event)[i] = Lagged => i = 1
         /\ ChannelOwn(owner, now, Sent(event))
<1> DEFINE T == Event \cup {Lagged}
           lagged == channel # <<>> /\ Head(channel) = Lagged
           rest == IF lagged THEN Tail(channel) ELSE channel
           pending == Append(rest, event)
           s == Sent(event)
<1>1. channel \in Seq(T) /\ Len(channel) \in Nat /\ Capacity \in Nat
      /\ Capacity > 0
  BY LibraryAssumption DEF ChannelOK
<1>2. event # Lagged /\ event \in T
  BY EventFields
<1>3. s = IF conn # "open" THEN channel
          ELSE IF Len(pending) > Capacity THEN <<Lagged>> \o Tail(pending)
          ELSE Append(channel, event)
  BY DEF Sent
<1> HIDE DEF s, T
<1>4. /\ rest \in Seq(T) /\ Len(rest) \in Nat /\ Len(rest) <= Capacity
      /\ \A i \in 1..Len(rest) : rest[i] # Lagged
      /\ \A i \in 1..Len(rest) : OwnedEvent(owner, now, rest[i])
      /\ lagged => Len(channel) = Len(rest) + 1 /\ channel[1] = Lagged
      /\ ~lagged => Len(channel) = Len(rest)
  <2>1. CASE lagged
    <3>1. /\ rest = Tail(channel) /\ channel[1] = Lagged /\ channel # <<>>
      BY <1>1, <2>1
    <3> HIDE DEF rest
    <3>2. rest \in Seq(T) /\ Behind(channel, rest)
      BY <1>1, <3>1, TailIsBehind
    <3>3. \A i \in 1..Len(rest) : channel[i + 1] # Lagged
      BY <1>1, <3>2 DEF ChannelOK, Behind
    <3>4. \A i \in 1..Len(rest) :
            rest[i] # Lagged /\ OwnedEvent(owner, now, rest[i])
      BY <3>2, <3>3 DEF ChannelOwn, Behind
    <3>5. /\ Len(rest) \in Nat /\ Len(channel) = Len(rest) + 1
          /\ Len(rest) <= Capacity
      BY <1>1, <3>2 DEF ChannelOK, Behind
    <3> HIDE DEF lagged
    <3> QED BY <2>1, <3>1, <3>2, <3>4, <3>5
  <2>2. CASE ~lagged
    <3>1. rest = channel /\ (channel = <<>> \/ channel[1] # Lagged)
      BY <1>1, <2>2
    <3> HIDE DEF rest, lagged
    <3>2. \A i \in 1..Len(channel) : channel[i] # Lagged
      BY <1>1, <3>1 DEF ChannelOK
    <3>3. Len(channel) <= Capacity
      <4>1. Len(channel) # Capacity + 1
        BY <1>1, <3>2 DEF ChannelOK
      <4> QED BY <1>1, <4>1 DEF ChannelOK
    <3> QED BY <1>1, <2>2, <3>1, <3>2, <3>3 DEF ChannelOwn
  <2> QED BY <2>1, <2>2
<1> HIDE DEF rest, lagged
<1>5. /\ pending \in Seq(T) /\ Len(pending) = Len(rest) + 1 /\ pending # <<>>
      /\ \A i \in 1..Len(pending) :
           /\ pending[i] # Lagged
           /\ OwnedEvent(owner, now, pending[i])
  <2>1. /\ pending \in Seq(T) /\ Len(pending) = Len(rest) + 1
        /\ pending # <<>>
        /\ \A i \in 1..Len(pending) :
             \/ i \in 1..Len(rest) /\ pending[i] = rest[i]
             \/ pending[i] = event
    <3>1. /\ pending \in Seq(T) /\ Len(pending) = Len(rest) + 1
          /\ pending # <<>>
          /\ \A i \in 1..Len(rest) : pending[i] = rest[i]
          /\ pending[Len(rest) + 1] = event
      BY <1>2, <1>4, AppendProperties
    <3> HIDE DEF pending
    <3> QED BY <1>4, <3>1
  <2> HIDE DEF pending
  <2> QED BY <1>2, <1>4, <2>1
<1> HIDE DEF pending
<1>6. CASE conn # "open"
  <2>1. s = channel
    BY <1>3, <1>6
  <2> QED BY <1>1, <2>1 DEF ChannelOK, s, T
<1>7. CASE conn = "open" /\ Len(pending) > Capacity
  <2>1. s = <<Lagged>> \o Tail(pending)
    BY <1>3, <1>7
  <2>2. Tail(pending) \in Seq(T) /\ Behind(pending, Tail(pending))
    BY <1>5, TailIsBehind
  <2>3. Lagged \in T
    BY DEF T
  <2> DEFINE t == Tail(pending)
  <2>4. s = <<Lagged>> \o t /\ t \in Seq(T) /\ Behind(pending, t)
    BY <2>1, <2>2
  <2> HIDE DEF t
  <2>5. /\ s \in Seq(T) /\ Len(s) = Len(t) + 1 /\ s[1] = Lagged
        /\ \A i \in 1..Len(s) :
             i = 1 \/ (i - 1 \in 1..Len(t) /\ s[i] = t[i - 1])
    BY <2>3, <2>4 DEF Behind
  <2>6. Len(s) <= Capacity + 1
    BY <1>1, <1>4, <1>5, <2>4, <2>5 DEF Behind
  <2>7. \A i \in 1..Len(s) : i = 1 \/ (/\ s[i] # Lagged
                                      /\ OwnedEvent(owner, now, s[i]))
    BY <1>5, <2>4, <2>5 DEF Behind
  <2> QED BY <2>5, <2>6, <2>7 DEF ChannelOwn, s, T
<1>8. CASE conn = "open" /\ ~(Len(pending) > Capacity)
  <2>1. s = Append(channel, event)
    BY <1>3, <1>8
  <2>2. /\ s \in Seq(T) /\ Len(s) = Len(channel) + 1
        /\ \A i \in 1..Len(s) :
             \/ i \in 1..Len(channel) /\ s[i] = channel[i]
             \/ i = Len(s) /\ s[i] = event
    BY <1>1, <1>2, <2>1
  <2>3. Len(s) <= Capacity + 1 /\ (Len(s) = Capacity + 1 => lagged)
    BY <1>1, <1>4, <1>5, <1>8, <2>2
  <2>4. lagged => s[1] = Lagged
    BY <1>4, <1>1, <2>2, <2>1
  <2>5. \A i \in 1..Len(s) : s[i] = Lagged => i = 1
    BY <1>2, <2>2 DEF ChannelOK
  <2>6. \A i \in 1..Len(s) : s[i] # Lagged => OwnedEvent(owner, now, s[i])
    BY <2>2 DEF ChannelOwn
  <2> QED BY <2>2, <2>3, <2>4, <2>5, <2>6 DEF ChannelOwn, s, T
<1> QED BY <1>6, <1>7, <1>8

\* A publication.
LEMMA PublishStep ==
  ASSUME LibraryInv, NEW h \in handlers, publish_library_event(h)
  PROVE  LibraryInv'
<1>1. StateOK /\ ChannelOK
  BY DEF LibraryInv
<1>2. PICK owner \in Owners : TimesAreOwn(owner, clock)
  BY DEF LibraryInv
<1>3. /\ channel' = Sent(Head(h))
      /\ handlers' = (handlers \ {h}) \cup
                       (IF Len(h) = 1 THEN {} ELSE {Tail(h)})
      /\ UNCHANGED <<rows, jobs, minted, clock, conn, told, fetch, client,
                     list, selected, acks>>
  BY DEF publish_library_event, clientVars
<1>4. /\ h \in Seq(Event) /\ h # <<>>
      /\ \A i \in 1..Len(h) : OwnedEvent(owner, clock, h[i])
  BY <1>2 DEF TimesAreOwn, HandlersOwn
<1>5. Head(h) \in Event /\ Head(h) = h[1] /\ 1 \in 1..Len(h)
  BY <1>4
<1>6. OwnedEvent(owner, clock, Head(h))
  BY <1>4, <1>5
<1>7. ChannelOK' /\ ChannelOwn(owner, clock, channel')
  <2>1. ChannelOwn(owner, clock, channel)
    BY <1>2 DEF TimesAreOwn
  <2> DEFINE e == Head(h)
  <2>2. e \in Event /\ OwnedEvent(owner, clock, e) /\ channel' = Sent(e)
    BY <1>3, <1>5, <1>6
  <2> HIDE DEF e
  <2> QED BY <1>1, <2>1, <2>2, SentIsOK DEF ChannelOK
<1>8. HandlersOwn(owner, clock, handlers')
  <2>1. HandlersOwn(owner, clock, handlers)
    BY <1>2 DEF TimesAreOwn
  <2>2. ASSUME Len(h) # 1
        PROVE  /\ Tail(h) \in Seq(Event) /\ Tail(h) # <<>>
               /\ \A i \in 1..Len(Tail(h)) :
                    OwnedEvent(owner, clock, Tail(h)[i])
    <3> DEFINE t == Tail(h)
    <3>1. t \in Seq(Event) /\ Behind(h, t)
      BY <1>4, TailIsBehind
    <3> HIDE DEF t
    <3>2. t # <<>>
      BY <2>2, <3>1 DEF Behind
    <3>3. \A i \in 1..Len(t) : OwnedEvent(owner, clock, t[i])
      BY <1>4, <3>1 DEF Behind
    <3> QED BY <3>1, <3>2, <3>3 DEF t
  <2> QED BY <1>3, <2>1, <2>2 DEF HandlersOwn
<1>9. TimesAreOwn(owner, clock)'
  BY <1>2, <1>3, <1>7, <1>8 DEF TimesAreOwn
<1>10. StateOK'
  BY <1>1, <1>3 DEF StateOK
<1> QED BY <1>7, <1>9, <1>10 DEF LibraryInv
-----------------------------------------------------------------------------
(* The client's loop.                                                      *)

\* No row at all is a snapshot.
LEMMA NoRows ==
  ASSUME NEW owner, NEW now
  PROVE  Snapshot(owner, now, {})
BY FS_EmptySet DEF Snapshot

\* A request that is idle, just asked, or as it was has rows that are owned.
LEMMA FetchKept ==
  ASSUME NEW owner, NEW now, FetchOwn(owner, now, fetch),
         \A f \in Fetching : fetch'[f] \in {Idle, Asked, fetch[f]}
  PROVE  FetchOwn(owner, now, fetch')
BY NoRows DEF FetchOwn, Idle, Asked

\* The steps of the loop, and of its socket, that only ask, open or close.
LoopStep ==
  loop_lists \/ connect_without_list \/ subscribe_library \/ close_lagged
  \/ lose_connection

\* They change no row and no list.
LEMMA LoopIsSound ==
  ASSUME LibraryInv, LoopStep
  PROVE  LibraryInv'
<1>1. StateOK /\ ChannelOK /\ Capacity \in Nat /\ Capacity > 0
  BY LibraryAssumption DEF LibraryInv
<1>2. PICK owner \in Owners : TimesAreOwn(owner, clock)
  BY DEF LibraryInv
<1>3. /\ UNCHANGED <<rows, jobs, minted, clock, handlers, client, list,
                     selected, acks>>
      /\ channel' = channel \/ channel' = <<>>
      /\ told' = told \/ told' = {}
      /\ conn' \in {"waiting", "listing", "opening", "open"}
  BY DEF LoopStep, loop_lists, connect_without_list, subscribe_library,
         close_lagged, lose_connection, Disconnected, StartOver, Opening,
         serverVars, clientVars
<1>4. /\ \A f \in Fetching : fetch'[f] \in {Idle, Asked, fetch[f]}
      /\ fetch' \in [Fetching -> [stage : {"none", "sent", "answered"},
                                  rows : SUBSET Row]]
  BY <1>1 DEF StateOK, LoopStep, loop_lists, connect_without_list,
              subscribe_library, close_lagged, lose_connection, Disconnected,
              StartOver, Opening, Idle, Asked, Fetching
<1>5. FetchOwn(owner, clock, fetch')
  BY <1>2, <1>4, FetchKept DEF TimesAreOwn
<1>6. ChannelOwn(owner, clock, channel')
  BY <1>2, <1>3 DEF TimesAreOwn, ChannelOwn
<1>7. TimesAreOwn(owner, clock)'
  BY <1>2, <1>3, <1>5, <1>6 DEF TimesAreOwn
<1>8. StateOK'
  BY <1>1, <1>3, <1>4 DEF StateOK
<1>9. ChannelOK'
  <2>1. CASE channel' = channel
    BY <1>1, <2>1 DEF ChannelOK
  <2>2. CASE channel' = <<>>
    BY <1>1, <2>2 DEF ChannelOK
  <2> QED BY <1>3, <2>1, <2>2
<1> QED BY <1>7, <1>8, <1>9 DEF LibraryInv

\* A list request is answered with the rows there are.
LEMMA AnswerStep ==
  ASSUME LibraryInv, NEW f \in Fetching, list_pages(f)
  PROVE  LibraryInv'
<1>1. StateOK /\ ChannelOK
  BY DEF LibraryInv
<1>2. PICK owner \in Owners : TimesAreOwn(owner, clock)
  BY DEF LibraryInv
<1>3. /\ fetch' = [fetch EXCEPT ![f] = [stage |-> "answered", rows |-> rows]]
      /\ UNCHANGED <<rows, jobs, minted, clock, handlers, channel, conn, told,
                     client, list, selected, acks>>
  BY DEF list_pages, serverVars, feedVars, clientVars
<1>4. rows \subseteq Row
  BY <1>2 DEF TimesAreOwn, Snapshot, OwnedRow
<1>5. \A g \in Fetching : fetch'[g].rows = IF g = f THEN rows ELSE fetch[g].rows
  BY <1>1, <1>3 DEF StateOK
<1>6. FetchOwn(owner, clock, fetch')
  BY <1>2, <1>5 DEF TimesAreOwn, FetchOwn
<1>7. TimesAreOwn(owner, clock)'
  BY <1>2, <1>3, <1>6 DEF TimesAreOwn
<1>8. StateOK'
  BY <1>1, <1>3, <1>4 DEF StateOK
<1>9. ChannelOK'
  BY <1>1, <1>3 DEF ChannelOK
<1> QED BY <1>7, <1>8, <1>9 DEF LibraryInv

\* The answer, however old, replaces the list.
LEMMA LoadStep ==
  ASSUME LibraryInv, NEW f \in Fetching, load_pages(f)
  PROVE  LibraryInv'
<1>1. StateOK /\ ChannelOK
  BY DEF LibraryInv
<1>2. PICK owner \in Owners : TimesAreOwn(owner, clock)
  BY DEF LibraryInv
<1>3. /\ list' = RecentFirst(fetch[f].rows) /\ told' = {}
      /\ UNCHANGED <<rows, jobs, minted, clock, handlers, channel, client,
                     selected, acks>>
      /\ conn' \in {conn, "opening"}
  BY DEF load_pages, Opening, serverVars
<1>4. /\ \A g \in Fetching : fetch'[g] \in {Idle, Asked, fetch[g]}
      /\ fetch' \in [Fetching -> [stage : {"none", "sent", "answered"},
                                  rows : SUBSET Row]]
  BY <1>1 DEF StateOK, load_pages, Opening, Idle
<1>5. FetchOwn(owner, clock, fetch')
  BY <1>2, <1>4, FetchKept DEF TimesAreOwn
<1>6. GoodList(owner, clock, list')
  <2>1. Snapshot(owner, clock, fetch[f].rows)
    BY <1>2 DEF TimesAreOwn, FetchOwn
  <2> QED BY <1>3, <2>1, RecentFirstIsGood
<1>7. TimesAreOwn(owner, clock)'
  BY <1>2, <1>3, <1>5, <1>6 DEF TimesAreOwn
<1>8. StateOK'
  BY <1>1, <1>3, <1>4 DEF StateOK
<1>9. ChannelOK'
  BY <1>1, <1>3 DEF ChannelOK
<1> QED BY <1>7, <1>8, <1>9 DEF LibraryInv

\* The head of the channel is an event that is owned, and what is behind it
\* was not lost.
LEMMA HeadIsOwned ==
  ASSUME ChannelOK, channel # <<>>, Head(channel) # Lagged, NEW owner,
         NEW now, ChannelOwn(owner, now, channel)
  PROVE  /\ OwnedEvent(owner, now, Head(channel))
         /\ Tail(channel) \in Seq(Event \cup {Lagged})
         /\ Len(Tail(channel)) <= Capacity
         /\ \A i \in 1..Len(Tail(channel)) : Tail(channel)[i] # Lagged
         /\ ChannelOwn(owner, now, Tail(channel))
<1> DEFINE t == Tail(channel)
           T == Event \cup {Lagged}
<1>1. channel \in Seq(T) /\ Capacity \in Nat /\ Len(channel) \in Nat
      /\ 1 \in 1..Len(channel)
  BY LibraryAssumption DEF ChannelOK
<1> HIDE DEF T
<1>2. t \in Seq(T) /\ Behind(channel, t) /\ Head(channel) = channel[1]
  BY <1>1, TailIsBehind
<1> HIDE DEF t
<1>3. OwnedEvent(owner, now, Head(channel))
  BY <1>1, <1>2 DEF ChannelOwn
<1>4. Len(t) <= Capacity
  BY <1>1, <1>2 DEF ChannelOK, Behind
<1>5. \A i \in 1..Len(t) : t[i] # Lagged
  BY <1>2 DEF ChannelOK, Behind
<1>6. ChannelOwn(owner, now, t)
  BY <1>2 DEF ChannelOwn, Behind
<1> QED BY <1>2, <1>3, <1>4, <1>5, <1>6 DEF t, T

\* An event is folded into the list.
LEMMA ApplyStep ==
  ASSUME LibraryInv, apply_event
  PROVE  LibraryInv'
<1>1. StateOK /\ ChannelOK /\ Capacity \in Nat
  BY LibraryAssumption DEF LibraryInv
<1>2. PICK owner \in Owners : TimesAreOwn(owner, clock)
  BY DEF LibraryInv
<1> DEFINE e == Head(channel)
<1>3. /\ channel # <<>> /\ e # Lagged /\ channel' = Tail(channel)
      /\ list' = apply_library_event_to_pages(e)
      /\ selected' \in {selected, NoPage}
      /\ told' \subseteq told \cup {e.page_id}
      /\ e.type # "PageDeleted" => told' = told
      /\ UNCHANGED <<rows, jobs, minted, clock, handlers, conn, fetch, client,
                     acks>>
  BY DEF apply_event, serverVars, close_if_open
<1>4. /\ OwnedEvent(owner, clock, e)
      /\ Tail(channel) \in Seq(Event \cup {Lagged})
      /\ Len(Tail(channel)) <= Capacity
      /\ \A i \in 1..Len(Tail(channel)) : Tail(channel)[i] # Lagged
      /\ ChannelOwn(owner, clock, Tail(channel))
  BY <1>1, <1>2, <1>3, HeadIsOwned DEF TimesAreOwn
<1> HIDE DEF e
<1>5. GoodList(owner, clock, list')
  BY <1>2, <1>3, <1>4, EventIsApplied DEF TimesAreOwn
<1>6. told' \subseteq Page
  <2>1. e.type = "PageDeleted" => e.page_id \in Page
    BY <1>4, EventFields DEF OwnedEvent
  <2> QED BY <1>1, <1>3, <2>1 DEF StateOK
<1>7. TimesAreOwn(owner, clock)'
  BY <1>2, <1>3, <1>4, <1>5 DEF TimesAreOwn
<1>8. StateOK'
  BY <1>1, <1>3, <1>6 DEF StateOK
<1>9. ChannelOK'
  <2>1. Len(Tail(channel)) \in Nat
    BY <1>4
  <2> QED BY <1>1, <1>3, <1>4, <2>1 DEF ChannelOK
<1> QED BY <1>7, <1>8, <1>9 DEF LibraryInv

\* The server restarts and announces the jobs it found.
LEMMA RestartStep ==
  ASSUME LibraryInv, restart
  PROVE  LibraryInv'
<1>1. StateOK /\ ChannelOK /\ Capacity \in Nat /\ Capacity > 0
      /\ MaxTime \in Nat
  BY LibraryAssumption DEF LibraryInv
<1>2. PICK owner \in Owners : TimesAreOwn(owner, clock)
  BY DEF LibraryInv
<1>3. /\ jobs' \subseteq jobs
      /\ handlers' = {<<ThumbnailUpdated(j[1], j[2], "generating")>> :
                         j \in jobs'}
      /\ channel' = <<>> /\ told' = {} /\ conn' = "waiting" /\ acks' = {}
      /\ fetch' = [fetch EXCEPT !["loop"] = Idle]
      /\ UNCHANGED <<rows, minted, clock, client, list, selected>>
  BY DEF restart, Disconnected, StartOver
<1>4. /\ \A f \in Fetching : fetch'[f] \in {Idle, Asked, fetch[f]}
      /\ fetch' \in [Fetching -> [stage : {"none", "sent", "answered"},
                                  rows : SUBSET Row]]
  BY <1>1, <1>3 DEF StateOK, Idle
<1>5. FetchOwn(owner, clock, fetch')
  BY <1>2, <1>4, FetchKept DEF TimesAreOwn
<1>6. HandlersOwn(owner, clock, handlers')
  <2>1. HandlersOwn(owner, clock, {})
    BY DEF HandlersOwn
  <2>2. ASSUME NEW j \in jobs'
        PROVE  HandlersOwn(owner, clock,
                 {} \cup {<<ThumbnailUpdated(j[1], j[2], "generating")>>})
    <3>1. j[1] \in Page /\ j[2] \in 0 .. MaxTime
      BY <1>1, <1>3 DEF StateOK
    <3> DEFINE event == ThumbnailUpdated(j[1], j[2], "generating")
    <3>2. OwnedEvent(owner, clock, event)
      BY <3>1, EventsAreMade DEF OwnedEvent
    <3> HIDE DEF event
    <3>3. HandlersOwn(owner, clock, {} \cup {<<event>>})
      BY <2>1, <3>2, HandlerJoins
    <3> QED BY <3>3 DEF event
  <2> QED BY <1>3, <2>2 DEF HandlersOwn
<1>7. ChannelOwn(owner, clock, channel') /\ AcksOwn(owner, clock, acks')
  BY <1>3 DEF ChannelOwn, AcksOwn
<1>8. TimesAreOwn(owner, clock)'
  BY <1>2, <1>3, <1>5, <1>6, <1>7 DEF TimesAreOwn
<1>9. StateOK'
  BY <1>1, <1>3, <1>4 DEF StateOK
<1>10. ChannelOK'
  BY <1>1, <1>3 DEF ChannelOK
<1> QED BY <1>8, <1>9, <1>10 DEF LibraryInv

\* A page is opened, or closed.
LEMMA SelectStep ==
  ASSUME LibraryInv, close_page \/ \E p \in Page : open_page(p)
  PROVE  LibraryInv'
<1>1. StateOK /\ ChannelOK
  BY DEF LibraryInv
<1>2. PICK owner \in Owners : TimesAreOwn(owner, clock)
  BY DEF LibraryInv
<1>3. /\ selected' \in Page \cup {NoPage}
      /\ fetch' \in {fetch, [fetch EXCEPT !["side"] = Asked]}
      /\ UNCHANGED <<rows, jobs, minted, clock, handlers, channel, conn, told,
                     client, list, acks>>
  BY DEF open_page, close_page, serverVars, feedVars
<1>4. /\ \A f \in Fetching : fetch'[f] \in {Idle, Asked, fetch[f]}
      /\ fetch' \in [Fetching -> [stage : {"none", "sent", "answered"},
                                  rows : SUBSET Row]]
  BY <1>1, <1>3 DEF StateOK, Asked
<1>5. FetchOwn(owner, clock, fetch')
  BY <1>2, <1>4, FetchKept DEF TimesAreOwn
<1>6. TimesAreOwn(owner, clock)'
  BY <1>2, <1>3, <1>5 DEF TimesAreOwn
<1>7. StateOK'
  BY <1>1, <1>3, <1>4 DEF StateOK
<1>8. ChannelOK'
  BY <1>1, <1>3 DEF ChannelOK
<1> QED BY <1>6, <1>7, <1>8 DEF LibraryInv

\* The answer to the client's own request is folded in like an event.
LEMMA OwnAnswerStep ==
  ASSUME LibraryInv, NEW answer \in acks, own_answer(answer)
  PROVE  LibraryInv'
<1>1. StateOK /\ ChannelOK
  BY DEF LibraryInv
<1>2. PICK owner \in Owners : TimesAreOwn(owner, clock)
  BY DEF LibraryInv
<1>3. /\ acks' = acks \ {answer}
      /\ list' = apply_library_event_to_pages(answer)
      /\ selected' = IF answer.type = "PageCreated" THEN answer.page.id
                     ELSE close_if_open(answer.page_id)
      /\ UNCHANGED <<rows, jobs, minted, clock, handlers, channel, conn, told,
                     fetch, client>>
  BY DEF own_answer, serverVars, feedVars
<1>4. OwnedEvent(owner, clock, answer)
  BY <1>2 DEF TimesAreOwn, AcksOwn
<1>5. GoodList(owner, clock, list')
  BY <1>2, <1>3, <1>4, EventIsApplied DEF TimesAreOwn
<1>6. selected' \in Page \cup {NoPage}
  <2>1. answer.type = "PageCreated" => answer.page.id \in Page
    BY <1>4, RowFields DEF OwnedEvent, OwnedRow
  <2> QED BY <1>1, <1>3, <2>1 DEF StateOK, close_if_open
<1>7. AcksOwn(owner, clock, acks')
  BY <1>2, <1>3 DEF TimesAreOwn, AcksOwn
<1>8. TimesAreOwn(owner, clock)'
  BY <1>2, <1>3, <1>5, <1>7 DEF TimesAreOwn
<1>9. StateOK'
  BY <1>1, <1>3, <1>6 DEF StateOK
<1>10. ChannelOK'
  BY <1>1, <1>3 DEF ChannelOK
<1> QED BY <1>8, <1>9, <1>10 DEF LibraryInv
-----------------------------------------------------------------------------
(* The library, always.                                                    *)

\* The first time is the page's that the owner has, if any.
LEMMA LibraryInitial ==
  LibraryInit => LibraryInv
<1> SUFFICES ASSUME LibraryInit PROVE LibraryInv
  OBVIOUS
<1> USE DEF LibraryInit
<1>1. MaxTime \in Nat /\ Capacity \in Nat /\ Capacity > 0
      /\ Existing \subseteq Page
  BY LibraryAssumption
<1>2. \A p, q \in Existing : p = q
  BY LibraryAssumption
<1> DEFINE first == CHOOSE p \in Existing : TRUE
           owner == [t \in 0 .. MaxTime |->
                       IF Existing = {} THEN NoPage ELSE first]
           row(p) == [id |-> p, updated_at |-> 0,
                      thumbnail |-> [seq |-> 0, status |-> "empty"]]
<1>3. \A p \in Existing : first = p /\ p \in Page
  BY <1>1, <1>2
<1>4. owner \in Owners
  BY <1>3 DEF Owners
<1>5. ASSUME NEW p \in Existing PROVE OwnedRow(owner, clock, row(p))
  <2>1. row(p) \in Row
    BY <1>1, <1>3 DEF Row, Thumbnail
  <2>2. owner[0] = p
    <3> HIDE DEF first
    <3> QED BY <1>1, <1>3
  <2> QED BY <2>1, <2>2 DEF OwnedRow
<1> HIDE DEF owner
<1>6. Snapshot(owner, clock, rows)
  <2>1. CASE Existing = {}
    <3>1. rows = {}
      BY <2>1
    <3> QED BY <3>1, NoRows
  <2>2. CASE Existing # {}
    <3>1. first \in Existing /\ \A p \in Existing : p = first
      BY <1>2, <2>2
    <3>2. rows = {row(p) : p \in Existing}
      OBVIOUS
    <3>3. OwnedRow(owner, clock, row(first)) /\ rows = {} \cup {row(first)}
      BY <1>5, <3>1, <3>2
    <3> DEFINE r == row(first)
    <3>4. OwnedRow(owner, clock, r) /\ rows = {} \cup {r}
      BY <3>3
    <3> HIDE DEF r
    <3> QED BY <3>4, NoRows, SnapshotGrows
  <2> QED BY <2>1, <2>2
<1>7. \A r \in rows : r.id \in minted
  OBVIOUS
<1>8. FetchOwn(owner, clock, fetch)
  BY NoRows DEF FetchOwn, Idle, Asked
<1>9. HandlersOwn(owner, clock, handlers) /\ AcksOwn(owner, clock, acks)
      /\ ChannelOwn(owner, clock, channel)
  BY DEF HandlersOwn, AcksOwn, ChannelOwn
<1>10. GoodList(owner, clock, list)
  BY DEF GoodList
<1>11. TimesAreOwn(owner, clock)
  BY <1>6, <1>8, <1>9, <1>10 DEF TimesAreOwn
<1>12. StateOK
  BY <1>1, <1>7 DEF StateOK, Idle, Asked
<1>13. ChannelOK
  BY <1>1 DEF ChannelOK
<1> QED BY <1>4, <1>11, <1>12, <1>13 DEF LibraryInv

\* Every step keeps it.
LEMMA LibraryStep ==
  LibraryInv /\ [LibraryNext]_libraryVars => LibraryInv'
<1> SUFFICES ASSUME LibraryInv, [LibraryNext]_libraryVars PROVE LibraryInv'
  OBVIOUS
<1>1. ASSUME NEW p \in Page, NEW mine \in BOOLEAN, create_page(p, mine)
      PROVE  LibraryInv'
  BY <1>1, CreateStep
<1>2. ASSUME NEW p \in Page, NEW inked \in BOOLEAN, edit_page(p, inked)
      PROVE  LibraryInv'
  BY <1>2, EditStep
<1>3. ASSUME NEW j \in jobs, NEW status \in {"available", "failed"},
             finish_thumbnail(j[1], j[2], status)
      PROVE  LibraryInv'
  BY <1>3, RenderStep
<1>4. ASSUME NEW p \in Page, NEW mine \in BOOLEAN, delete_page(p, mine)
      PROVE  LibraryInv'
  BY <1>4, DeleteStep
<1>5. CASE Publish
  BY <1>5, PublishStep DEF Publish
<1>6. CASE LoopStep
  BY <1>6, LoopIsSound
<1>7. CASE Answer
  BY <1>7, AnswerStep DEF Answer
<1>8. CASE Load
  BY <1>8, LoadStep DEF Load
<1>9. CASE apply_event
  BY <1>9, ApplyStep
<1>10. CASE restart
  BY <1>10, RestartStep
<1>11. CASE close_page \/ \E p \in Page : open_page(p)
  BY <1>11, SelectStep
<1>12. CASE OwnAnswer
  BY <1>12, OwnAnswerStep DEF OwnAnswer
<1>13. CASE UNCHANGED libraryVars
  <2>1. UNCHANGED <<rows, jobs, minted, clock, handlers, channel, conn, told,
                    fetch, client, list, selected, acks>>
    BY <1>13 DEF libraryVars, serverVars, feedVars, clientVars
  <2>2. StateOK' <=> StateOK
    BY <2>1 DEF StateOK
  <2>3. ChannelOK' <=> ChannelOK
    BY <2>1 DEF ChannelOK
  <2>4. \A owner : TimesAreOwn(owner, clock)' <=> TimesAreOwn(owner, clock)
    BY <2>1 DEF TimesAreOwn
  <2> QED BY <2>2, <2>3, <2>4 DEF LibraryInv
<1> QED BY <1>1, <1>2, <1>3, <1>4, <1>5, <1>6, <1>7, <1>8, <1>9, <1>10, <1>11,
           <1>12, <1>13 DEF LibraryNext, LoopStep

\* What it says of the list.
LEMMA LibraryInvIsEnough ==
  LibraryInv => ListIsSound
<1> SUFFICES ASSUME LibraryInv PROVE ListIsSound
  OBVIOUS
<1>1. StateOK /\ ChannelOK
  BY DEF LibraryInv
<1>2. PICK owner \in Owners : TimesAreOwn(owner, clock)
  BY DEF LibraryInv
<1>3. rows \subseteq Row /\ \A r, q \in rows : r.id = q.id => r = q
  BY <1>2 DEF TimesAreOwn, Snapshot, OwnedRow
<1>4. ASSUME NEW h \in handlers PROVE h # <<>> /\ Range(h) \subseteq Event
  <2>1. h \in Seq(Event) /\ h # <<>>
    BY <1>2 DEF TimesAreOwn, HandlersOwn
  <2> QED BY <2>1 DEF Range
<1>5. Range(channel) \subseteq Event \cup {Lagged}
  BY <1>1 DEF ChannelOK, Range
<1>6. list \in Seq(Row) /\ DOMAIN list = 1..Len(list)
  BY <1>2 DEF TimesAreOwn, GoodList
<1>7. Range(list) \subseteq Row
  BY <1>6 DEF Range
<1>8. \A f \in Fetching : /\ fetch[f].stage \in {"none", "sent", "answered"}
                          /\ fetch[f].rows \subseteq Row
  BY <1>1 DEF StateOK
<1>9. acks \subseteq Event
  BY <1>2 DEF TimesAreOwn, AcksOwn, OwnedEvent
<1>10. LibraryTypeOK
  BY <1>1, <1>3, <1>4, <1>5, <1>7, <1>8, <1>9
     DEF LibraryTypeOK, StateOK, ChannelOK
<1>11. LibraryIsRecentFirst
  BY <1>2, <1>6 DEF LibraryIsRecentFirst, TimesAreOwn, GoodList
<1> QED BY <1>10, <1>11 DEF ListIsSound

\* The list is typed, shows a page once, and most recently edited first,
\* whatever snapshots, events, answers and reconnects brought it there
\* (apply_library_event_to_pages, load_pages, remove_page).
THEOREM LibraryListIsSound ==
  LibrarySpec => []ListIsSound
BY LibraryInitial, LibraryStep, LibraryInvIsEnough, PTL DEF LibrarySpec

\* Events published out of order and renders of older revisions never take a
\* tile back (apply_library_event_to_pages).
THEOREM LibraryEventsNeverRegress ==
  LibrarySpec => EventsNeverRegress
<1>1. LibraryInv /\ [LibraryNext]_libraryVars => [NoTileGoesBack]_libraryVars
  <2> SUFFICES ASSUME LibraryInv, apply_event,
                      Head(channel).type # "PageCreated",
                      NEW p \in Ids(Range(list)) \cap Ids(Range(list'))
               PROVE  LET before == CHOOSE row \in Range(list) : row.id = p
                          after == CHOOSE row \in Range(list') : row.id = p
                      IN  /\ after.updated_at >= before.updated_at
                          /\ after.thumbnail.seq >= before.thumbnail.seq
    BY DEF NoTileGoesBack
  <2>1. PICK owner \in Owners : TimesAreOwn(owner, clock)
    BY DEF LibraryInv
  <2>2. /\ channel # <<>> /\ Head(channel) # Lagged
        /\ list' = apply_library_event_to_pages(Head(channel))
    BY DEF apply_event
  <2>3. OwnedEvent(owner, clock, Head(channel))
    BY <2>1, <2>2, HeadIsOwned DEF LibraryInv, TimesAreOwn
  <2>4. NoOlder(list, list')
    <3> DEFINE e == Head(channel)
    <3>1. /\ OwnedEvent(owner, clock, e) /\ e.type # "PageCreated"
          /\ list' = apply_library_event_to_pages(e)
      BY <2>2, <2>3
    <3> HIDE DEF e
    <3> QED BY <2>1, <3>1, EventIsApplied DEF TimesAreOwn
  <2> DEFINE before == CHOOSE row \in Range(list) : row.id = p
             after == CHOOSE row \in Range(list') : row.id = p
  <2>5. before \in Range(list) /\ before.id = p
    BY DEF Ids
  <2>6. after \in Range(list') /\ after.id = p
    BY DEF Ids
  <2> HIDE DEF before, after
  <2>7. /\ after.updated_at >= before.updated_at
        /\ after.thumbnail.seq >= before.thumbnail.seq
    BY <2>4, <2>5, <2>6 DEF NoOlder
  <2> QED BY <2>7 DEF before, after
<1> QED
  BY <1>1, LibraryInitial, LibraryStep, PTL DEF LibrarySpec, EventsNeverRegress
=============================================================================
