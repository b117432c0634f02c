---------------------------- MODULE AzureToken ----------------------------
(***************************************************************************)
(* internal/foreigncluster/azure.go: azureWITokenSource, the token cache   *)
(* that every request to an AKS fleet cluster goes through.                *)
(*                                                                         *)
(* Token holds s.mu for the whole call, the HTTP exchange included.  The   *)
(* authority starts the life of a token when it issues it, somewhere       *)
(* between the start of the request and the arrival of the response, while *)
(* the code starts it when the response has been parsed; the 30 s margin   *)
(* of the reuse test has to absorb the difference.  validUntil, kept next  *)
(* to the recorded expiresAt, is the authority's own expiry (history).     *)
(*                                                                         *)
(* Time is counted in abstract units; only the order of Timeout, Skew and  *)
(* the lifetimes matters.                                                  *)
(***************************************************************************)
EXTENDS Integers

CONSTANTS
    Callers,          \* goroutines that call Token
    Skew,             \* 30 s: margin before expiresAt within which to refresh
    Timeout,          \* 15 s: http.Client.Timeout of the exchange
    DefaultLifetime,  \* 3600 s: used when expires_in is missing or <= 0
    Lifetimes,        \* positive values of expires_in that the authority sends
    MaxTime           \* bound on the clock

ASSUME TimingAssumption ==
    /\ Skew \in Nat /\ Timeout \in Nat /\ DefaultLifetime \in Nat /\ MaxTime \in Nat
    /\ Timeout <= Skew
    /\ Lifetimes \subseteq Nat \ {0}

VARIABLES
    now,       \* the clock
    holder,    \* the caller that holds s.mu, as a set
    pc,        \* where each caller is in Token
    started,   \* when the exchange in flight was started
    cached,    \* s.cached; present = FALSE is nil
    got        \* what the last call of each caller returned, until it is used

vars == <<now, holder, pc, started, cached, got>>

Cached == [present : BOOLEAN, expiresAt : Int, validUntil : Int]
Got == [from : {"none", "cache", "exchange"}, at : Nat, validUntil : Int]

\* No token: nothing was called yet, the call is running, or it failed.
NoResult == [from |-> "none", at |-> 0, validUntil |-> 0]

TypeOK ==
    /\ now \in Nat
    /\ holder \in {{}} \cup {{c} : c \in Callers}
    /\ pc \in [Callers -> {"idle", "waiting", "locked", "exchanging"}]
    /\ started \in Nat
    /\ cached \in Cached
    /\ got \in [Callers -> Got]

Init ==
    /\ now = 0
    /\ holder = {}
    /\ pc = [c \in Callers |-> "idle"]
    /\ started = 0
    /\ cached = [present |-> FALSE, expiresAt |-> 0, validUntil |-> 0]
    /\ got = [c \in Callers |-> NoResult]

-----------------------------------------------------------------------------
\* Reuse right up to the recorded expiry.
FaultReusableUntilExpiry == cached.present /\ now < cached.expiresAt

\* s.cached != nil && time.Now().Before(s.cached.expiresAt.Add(-30*time.Second))
Reusable == cached.present /\ now < cached.expiresAt - Skew

\* Leave Token with result r, releasing s.mu.
Return(c, r) ==
    /\ holder' = holder \ {c}
    /\ pc' = [pc EXCEPT ![c] = "idle"]
    /\ got' = [got EXCEPT ![c] = r]

Call(c) ==
    /\ pc[c] = "idle"
    /\ pc' = [pc EXCEPT ![c] = "waiting"]
    /\ got' = [got EXCEPT ![c] = NoResult]
    /\ UNCHANGED <<now, holder, started, cached>>

\* Token without s.mu.
FaultLockIgnored(c) ==
    /\ pc[c] = "waiting"
    /\ holder' = holder \cup {c}
    /\ pc' = [pc EXCEPT ![c] = "locked"]
    /\ UNCHANGED <<now, started, cached, got>>

\* s.mu.Lock()
Lock(c) ==
    /\ pc[c] = "waiting"
    /\ holder = {}
    /\ holder' = {c}
    /\ pc' = [pc EXCEPT ![c] = "locked"]
    /\ UNCHANGED <<now, started, cached, got>>

\* The cached token is still good for longer than the margin.
ReuseCached(c) ==
    /\ pc[c] = "locked"
    /\ Reusable
    /\ Return(c, [from |-> "cache", at |-> now, validUntil |-> cached.validUntil])
    /\ UNCHANGED <<now, started, cached>>

\* exchangeToken: read the federated token file and post the request.
StartExchange(c) ==
    /\ pc[c] = "locked"
    /\ ~Reusable
    /\ started' = now
    /\ pc' = [pc EXCEPT ![c] = "exchanging"]
    /\ UNCHANGED <<now, holder, cached, got>>

\* The response is parsed: the token was issued at some earlier moment of the
\* exchange.  expires_in <= 0 (or absent) is read as DefaultLifetime, which
\* is then taken to be the authority's own default.
ExchangeOK(c) ==
    /\ pc[c] = "exchanging"
    /\ \E issuedAt \in started..now, expiresIn \in Lifetimes \cup {0} :
         LET life == IF expiresIn <= 0 THEN DefaultLifetime ELSE expiresIn IN
         /\ cached' = [present |-> TRUE, expiresAt |-> now + life,
                       validUntil |-> issuedAt + life]
         /\ Return(c, [from |-> "exchange", at |-> now,
                       validUntil |-> issuedAt + life])
    /\ UNCHANGED <<now, started>>

\* Any failure: the token file cannot be read, the request fails or times
\* out, the body is not JSON, the authority reports an error or no token.
\* s.cached is left as it is.
ExchangeError(c) ==
    /\ pc[c] \in {"locked", "exchanging"}
    /\ pc[c] = "locked" => ~Reusable
    /\ Return(c, NoResult)
    /\ UNCHANGED <<now, started, cached>>

\* RoundTrip, which asked for the token, is over.
Forget(c) ==
    /\ pc[c] = "idle"
    /\ got' = [got EXCEPT ![c] = NoResult]
    /\ UNCHANGED <<now, holder, pc, started, cached>>

\* Time passes, but no exchange lasts longer than the client's timeout.
Tick ==
    /\ now < MaxTime
    /\ \A c \in Callers : pc[c] = "exchanging" => now < started + Timeout
    /\ now' = now + 1
    /\ UNCHANGED <<holder, pc, started, cached, got>>

Token(c) == \/ Call(c) \/ Lock(c) \/ ReuseCached(c) \/ StartExchange(c)
            \/ ExchangeOK(c) \/ ExchangeError(c)

Next == Tick \/ \E c \in Callers : Token(c) \/ Forget(c)

Spec == Init /\ [][Next]_vars

\* A call that holds the mutex goes on (the HTTP client times out), and Go's
\* mutex hands itself over to a starving waiter.  Nobody has to call Token.
Fairness ==
    \A c \in Callers :
        /\ SF_vars(Lock(c))
        /\ WF_vars(ReuseCached(c) \/ StartExchange(c) \/ ExchangeOK(c)
                   \/ ExchangeError(c))

FairSpec == Spec /\ Fairness

-----------------------------------------------------------------------------
\* A token served from the cache has, at the moment it is returned, at least
\* the part of the margin that a slow exchange cannot use up still to live by
\* the authority's clock, although expiresAt is recorded late (Token 63-75,
\* exchangeToken 118-123).
CachedTokenValid ==
    \A c \in Callers :
        got[c].from = "cache" => got[c].at + (Skew - Timeout) < got[c].validUntil

\* Callers that find the token stale together cause one refresh: a cached
\* token is replaced only when it was not reusable any more, however long
\* the others waited for the mutex.
NoRedundantRefresh ==
    [][cached' # cached /\ cached.present => ~Reusable]_vars

=============================================================================
