---------------------------- MODULE GoogleTokens ----------------------------
(***************************************************************************)
(* Google calls that share one set of OAuth tokens                         *)
(* (packages/google/src/adapter.ts and oauth.ts): every call reads the     *)
(* tokens, refreshes them when they have expired and stores what the token *)
(* endpoint answers, each across awaits.  The endpoint may rotate the      *)
(* refresh token (the answer then carries a new one, and the one it        *)
(* replaces is refused from then on) or keep it.  Tokens are numbered in   *)
(* the order in which the endpoint issues them.                            *)
(***************************************************************************)
EXTENDS Naturals, FiniteSets

CONSTANTS GoogleCall, \* the calls of openInbox, readThread, composeDraft, createEvent
          MaxTokens   \* bound on the tokens the endpoint issues

ASSUME GoogleAssumption == MaxTokens \in Nat \ {0}

NoTokens == 0    \* the store has nothing under the key

VARIABLES stored,   \* the store: [access, refresh], numbers of issued tokens
          held,     \* the tokens a call has read, or has been given by the endpoint
          gcall,    \* where each call is
          issued,   \* how many tokens the endpoint has issued
          live,     \* the refresh tokens the endpoint accepts
          usable,   \* the access tokens that have not expired
          rotated,  \* some refresh token was replaced by the endpoint
          torn      \* two refreshes overlapped, or one was cut off by a crash

googleVars == <<stored, held, gcall, issued, live, usable, rotated, torn>>

GoogleInit ==
  /\ stored = [access |-> NoTokens, refresh |-> NoTokens]
  /\ held = [q \in GoogleCall |-> [access |-> NoTokens, refresh |-> NoTokens]]
  /\ gcall = [q \in GoogleCall |-> "idle"]
  /\ issued = 0 /\ live = {} /\ usable = {} /\ rotated = FALSE /\ torn = FALSE

At(q, s) == gcall' = [gcall EXCEPT ![q] = s]
Refreshing(q) == gcall[q] \in {"refreshing", "storing"}

\* exchangeCodeForTokens(): the user has consented; toOAuthTokens() has no
\* refresh token to fall back on, so an answer without one is an error.
ExchangeCode ==
  /\ stored.refresh = NoTokens /\ issued < MaxTokens
  /\ issued' = issued + 1
  /\ live' = live \cup {issued'} /\ usable' = usable \cup {issued'}
  /\ stored' = [access |-> issued', refresh |-> issued']
  /\ UNCHANGED <<held, gcall, rotated, torn>>

\* getAccessToken() reads the store; without tokens the call throws.
ReadTokens(q) ==
  /\ gcall[q] = "idle"
  /\ held' = [held EXCEPT ![q] = stored]
  /\ At(q, IF stored.refresh = NoTokens THEN "failed" ELSE "checking")
  /\ UNCHANGED <<stored, issued, live, usable, rotated, torn>>

\* isExpired() is evaluated on the tokens that were read.
CheckTokens(q) ==
  /\ gcall[q] = "checking"
  /\ At(q, IF held[q].access \in usable THEN "sending" ELSE "refreshing")
  /\ torn' = (torn \/ (held[q].access \notin usable /\ \E p \in GoogleCall : Refreshing(p)))
  /\ UNCHANGED <<stored, held, issued, live, usable, rotated>>

\* A mutant: the refresh token that was sent wins over the one in the answer.
ToOAuthTokens_KeepsTheOld(answer, fallback) ==
  [access |-> answer.access, refresh |-> fallback]

\* response.refresh_token ?? fallbackRefreshToken
ToOAuthTokens(answer, fallback) ==
  [access |-> answer.access, refresh |-> IF answer.refresh = NoTokens THEN fallback ELSE answer.refresh]

\* refreshAccessToken(): a refused refresh token throws.
RefreshAnswered(q) ==
  /\ gcall[q] = "refreshing" /\ issued < MaxTokens
  /\ IF held[q].refresh \in live
     THEN \E rotate \in BOOLEAN :
            /\ issued' = issued + 1 /\ usable' = usable \cup {issued'}
            /\ live' = IF rotate THEN (live \ {held[q].refresh}) \cup {issued'} ELSE live
            /\ held' = [held EXCEPT ![q] = ToOAuthTokens(
                 [access |-> issued', refresh |-> IF rotate THEN issued' ELSE NoTokens], @.refresh)]
            /\ rotated' = (rotated \/ rotate)
            /\ At(q, "storing")
     ELSE At(q, "failed") /\ UNCHANGED <<issued, usable, live, held, rotated>>
  /\ UNCHANGED <<stored, torn>>

\* tokenStore.set(): whatever the store holds by now is overwritten.
StoreTokens(q) ==
  /\ gcall[q] = "storing"
  /\ stored' = held[q] /\ At(q, "sending")
  /\ UNCHANGED <<held, issued, live, usable, rotated, torn>>

\* authedFetch(): the call goes out with the token that was read or refreshed.
Authorized(q) == held[q].access \in usable

\* An answer that is not ok makes the call throw, whatever the token.
SendGoogle(q) ==
  /\ gcall[q] = "sending"
  /\ \/ Authorized(q) /\ At(q, "answered")
     \/ At(q, "failed")
  /\ UNCHANGED <<stored, held, issued, live, usable, rotated, torn>>

NextGoogleCall(q) ==
  /\ gcall[q] \in {"answered", "failed"} /\ At(q, "idle")
  /\ held' = [held EXCEPT ![q] = [access |-> NoTokens, refresh |-> NoTokens]]
  /\ UNCHANGED <<stored, issued, live, usable, rotated, torn>>

\* Time passes: an access token expires.
AccessExpires(n) ==
  /\ n \in usable /\ usable' = usable \ {n}
  /\ UNCHANGED <<stored, held, gcall, issued, live, rotated, torn>>

\* The daemon dies: the calls are gone, the store stays.
GoogleCrash ==
  /\ \E q \in GoogleCall : Refreshing(q)
  /\ gcall' = [q \in GoogleCall |-> "idle"]
  /\ held' = [q \in GoogleCall |-> [access |-> NoTokens, refresh |-> NoTokens]]
  /\ torn' = TRUE
  /\ UNCHANGED <<stored, issued, live, usable, rotated>>

GoogleNext ==
  \/ ExchangeCode \/ GoogleCrash
  \/ \E n \in 1 .. MaxTokens : AccessExpires(n)
  \/ \E q \in GoogleCall : \/ ReadTokens(q) \/ CheckTokens(q) \/ RefreshAnswered(q)
                           \/ StoreTokens(q) \/ SendGoogle(q) \/ NextGoogleCall(q)

GoogleSpec == GoogleInit /\ [][GoogleNext]_googleVars

-----------------------------------------------------------------------------
Tokens == [access : 0 .. MaxTokens, refresh : 0 .. MaxTokens]

GoogleTypeOK ==
  /\ stored \in Tokens /\ held \in [GoogleCall -> Tokens] /\ issued \in 0 .. MaxTokens
  /\ gcall \in [GoogleCall -> {"idle", "checking", "refreshing", "storing", "sending",
                               "answered", "failed"}]
  /\ live \subseteq 1 .. MaxTokens /\ usable \subseteq 1 .. MaxTokens
  /\ rotated \in BOOLEAN /\ torn \in BOOLEAN

\* Between refreshes the stored refresh token is one the endpoint accepts, so the
\* user never has to consent again: always as long as the endpoint keeps refresh
\* tokens, however calls overlap or crash; and when it rotates them, as long as no
\* two refreshes overlap and none is cut off.
StoredTokensCanBeRefreshed ==
  /\ ~rotated \/ ~torn
  /\ stored.refresh # NoTokens /\ \A q \in GoogleCall : ~Refreshing(q)
  => stored.refresh \in live
=============================================================================
