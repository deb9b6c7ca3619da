----------------------------- MODULE OAuthGrants ----------------------------
(***************************************************************************)
(* Torii's OAuth credentials of one owner at one provider                  *)
(* (apps/torii/src/credentials): the oauth_tokens row, the pending links,  *)
(* the callbacks that redeem a code, the requests of agents that need a    *)
(* valid token and refresh an expired one, and the operator who unlinks    *)
(* the provider or wipes the owner's grants meanwhile.                     *)
(*                                                                         *)
(* One action is one statement on Postgres, one call to the provider, or   *)
(* the synchronous code between two awaits.  A grant is named by the link  *)
(* whose code it came from.  The client is configured on the connector, so *)
(* dynamic registration is left out.                                       *)
(***************************************************************************)
EXTENDS Naturals, FiniteSets

CONSTANTS
    Replicas,
    Callers,    \* requests that resolve user_oauth credentials
    Links,      \* link attempts an owner may begin
    Callbacks,  \* callback requests in flight at once; one link may get two
    NoLink,
    NoOne,
    MaxTokens,  \* bound: access tokens the provider issues under one grant,
                \* the last of which does not expire
    MaxCrashes  \* bound: replicas that die

ASSUME NullAssumption == NoLink \notin Links /\ NoOne \notin Callers
ASSUME BoundsAssumption == MaxTokens \in Nat \ {0} /\ MaxCrashes \in Nat

VARIABLES
    row,      \* the oauth_tokens row, or NoToken
    links,    \* status of each pending_oauth_links row, "new" before INSERT
    call,     \* the requests that need a token
    inflight, \* OAuthTokenLifecycleService.inFlightRefreshes of each replica
    cb,       \* the callback requests
    wipe,     \* DELETE /api/oauth/grants/:ownerId: "idle" or "half"
    home,     \* where each caller runs
    issued,   \* the provider: access tokens issued per grant, 0 = code unused
    renewal,  \* the provider: issues no refresh tokens, keeps or rotates them
    dead,     \* access tokens past their expiry
    crashes,
    lost,     \* history: grants whose newest token never reached the row
    stored,   \* history: grants that have been in the row
    gone      \* history: grants dropped while no request was carrying them

vars == <<row, links, call, inflight, cb, wipe, home, issued, renewal, dead,
          crashes, lost, stored, gone>>
provider == <<issued, renewal, dead>>
fixed == <<home, renewal>>

Token == [grant: Links, ver: 1..MaxTokens]
NoToken == [grant |-> NoLink, ver |-> 0]
isExpired(token) == <<token.grant, token.ver>> \in dead
hasRefreshToken == renewal # "none"

IdleCall == [at |-> "idle", held |-> NoToken]
IdleCallback == [at |-> "idle", link |-> NoLink, held |-> NoToken]
Status == {"new", "pending", "completed", "failed", "deleted"}

Init ==
    /\ row = NoToken
    /\ links = [l \in Links |-> "new"]
    /\ call = [c \in Callers |-> IdleCall]
    /\ inflight = [r \in Replicas |-> NoOne]
    /\ cb = [k \in Callbacks |-> IdleCallback]
    /\ wipe = "idle"
    /\ home \in [Callers -> Replicas]
    /\ issued = [l \in Links |-> 0]
    /\ renewal \in {"none", "kept", "rotated"}
    /\ dead = {}
    /\ crashes = 0
    /\ lost = {} /\ stored = {} /\ gone = {}

-----------------------------------------------------------------------------
(* Getting a valid token.                                                  *)

\* getValidToken awaits the row.  A request that finds none is refused at
\* once and leaves no trace.
ReadToken(c) ==
    /\ call[c].at = "idle"
    /\ row # NoToken
    /\ call' = [call EXCEPT ![c] = [at |-> "read", held |-> row]]
    /\ UNCHANGED <<row, links, inflight, cb, wipe, home, provider, crashes,
                   lost, stored, gone>>

Waiting(c) ==
    {c} \cup {d \in Callers : call[d].at = "joined" /\ home[d] = home[c]}

SettleWithoutFinally(c) ==  \* mutant: the entry stays in the map
    /\ UNCHANGED inflight
    /\ call' = [d \in Callers |-> IF d \in Waiting(c) THEN IdleCall ELSE call[d]]

\* The refresh of c is settled, for itself and for everyone who joined it:
\* with a token, a transient failure or a request to link again.
Settle(c) ==
    /\ inflight' = [inflight EXCEPT ![home[c]] = NoOne]
    /\ call' = [d \in Callers |-> IF d \in Waiting(c) THEN IdleCall ELSE call[d]]

\* The rest of getValidToken: the row as it was read decides, though it may
\* have been refreshed, replaced or deleted since.  It is the answer while it
\* is valid, and there is none when it cannot be renewed.
UseToken(c) ==
    LET token == call[c].held IN
    /\ call[c].at = "read"
    /\ \/ /\ ~(isExpired(token) /\ hasRefreshToken)
          /\ call' = [call EXCEPT ![c] = IdleCall]
          /\ UNCHANGED inflight
       \/ /\ isExpired(token) /\ hasRefreshToken /\ inflight[home[c]] # NoOne
          /\ call' = [call EXCEPT ![c] = [at |-> "joined", held |-> NoToken]]
          /\ UNCHANGED inflight
       \/ /\ isExpired(token) /\ hasRefreshToken /\ inflight[home[c]] = NoOne
          /\ call' = [call EXCEPT ![c] = [at |-> "leading", held |-> token]]
          /\ inflight' = [inflight EXCEPT ![home[c]] = c]
    /\ UNCHANGED <<row, links, cb, wipe, home, provider, crashes, lost, stored, gone>>

\* The connector or the server's metadata cannot be reached, or no client is
\* registered.
RefreshFails(c) ==
    /\ call[c].at = "leading"
    /\ Settle(c)
    /\ UNCHANGED <<row, links, cb, wipe, home, provider, crashes, lost, stored, gone>>

\* Whether the provider still takes the refresh token that came with token.
Redeemable(token) == renewal = "kept" \/ token.ver = issued[token.grant]

RenewedKeepsOld(token) == token  \* mutant: the answer's refresh token is ignored
Renewed(token) == [token EXCEPT !.ver = issued[token.grant] + 1]

\* refreshSdkAuthorization.  Without a refresh_token in the answer the old
\* one is kept.  An answer that does not arrive is a transient failure.
Refresh(c) ==
    LET token == call[c].held
        g == token.grant
    IN
    /\ call[c].at = "leading"
    /\ \/ /\ ~Redeemable(token)
          /\ Settle(c)
          /\ UNCHANGED <<issued, lost>>
       \/ /\ Redeemable(token) /\ issued[g] < MaxTokens
          /\ issued' = [issued EXCEPT ![g] = @ + 1]
          /\ \/ /\ call' = [call EXCEPT ![c] = [at |-> "renewed", held |-> Renewed(token)]]
                /\ UNCHANGED <<inflight, lost>>
             \/ /\ Settle(c)
                /\ lost' = lost \cup {g}
    /\ UNCHANGED <<row, links, cb, wipe, fixed, dead, crashes, stored, gone>>

\* tokenRepository.set is an upsert: it writes whether or not the row that
\* was read is still there.
StoreRefreshed(c) ==
    LET token == call[c].held IN
    /\ call[c].at = "renewed"
    /\ \/ /\ row' = token
          /\ stored' = stored \cup {token.grant}
          /\ Settle(c)
          /\ UNCHANGED lost
       \/ /\ lost' = lost \cup {token.grant}
          /\ Settle(c)
          /\ UNCHANGED <<row, stored>>
    /\ UNCHANGED <<links, cb, wipe, home, provider, crashes, gone>>

-----------------------------------------------------------------------------
(* Linking.                                                                *)

\* initiate ends by inserting the link; nothing before it is kept.
Initiate(l) ==
    /\ links[l] = "new"
    /\ links' = [links EXCEPT ![l] = "pending"]
    /\ UNCHANGED <<row, call, inflight, cb, wipe, home, provider, crashes,
                   lost, stored, gone>>

Exists(l) == links[l] \in {"pending", "completed", "failed"}

\* resolveCallbackContext reads the link and refuses one that is not pending.
OpenCallback(k, l) ==
    /\ cb[k].at = "idle"
    /\ links[l] = "pending"
    /\ cb' = [cb EXCEPT ![k] = [at |-> "open", link |-> l, held |-> NoToken]]
    /\ UNCHANGED <<row, links, call, inflight, wipe, home, provider, crashes,
                   lost, stored, gone>>

\* markLinkFailed writes the status over whatever it finds; a deleted row
\* stays deleted.
markLinkFailed(l) == links' = [links EXCEPT ![l] = IF Exists(l) THEN "failed" ELSE @]

\* The provider reports an error, or the callback came under another
\* provider's name: the link fails, whatever its status.
RefusedCallback(l) ==
    /\ Exists(l)
    /\ markLinkFailed(l)
    /\ UNCHANGED <<row, call, inflight, cb, wipe, home, provider, crashes,
                   lost, stored, gone>>

\* exchangeSdkAuthorization; a code is redeemed once, also when the answer
\* does not arrive.
Redeem(k) ==
    LET l == cb[k].link IN
    /\ cb[k].at = "open"
    /\ \/ /\ issued[l] = 0
          /\ issued' = [issued EXCEPT ![l] = 1]
          /\ cb' = [cb EXCEPT ![k] = [at |-> "redeemed", link |-> l,
                                      held |-> [grant |-> l, ver |-> 1]]]
          /\ UNCHANGED links
       \/ /\ cb' = [cb EXCEPT ![k] = IdleCallback]
          /\ markLinkFailed(l)
          /\ issued' = issued \/ (issued[l] = 0 /\ issued' = [issued EXCEPT ![l] = 1])
    /\ UNCHANGED <<row, call, inflight, wipe, fixed, dead, crashes, lost, stored, gone>>

StoreErrorSwallowed(k) ==  \* mutant: a failed write goes on as if it had succeeded
    /\ cb[k].at = "redeemed"
    /\ \/ row' = cb[k].held /\ stored' = stored \cup {cb[k].held.grant}
       \/ UNCHANGED <<row, stored>>
    /\ cb' = [cb EXCEPT ![k].at = "stored", ![k].held = NoToken]
    /\ UNCHANGED <<links, call, inflight, wipe, home, provider, crashes, lost, gone>>

StoreRedeemed(k) ==
    LET token == cb[k].held IN
    /\ cb[k].at = "redeemed"
    /\ \/ /\ row' = token
          /\ stored' = stored \cup {token.grant}
          /\ cb' = [cb EXCEPT ![k] = [at |-> "stored", link |-> @.link, held |-> NoToken]]
          /\ UNCHANGED links
       \/ /\ cb' = [cb EXCEPT ![k] = IdleCallback]
          /\ markLinkFailed(token.grant)
          /\ UNCHANGED <<row, stored>>
    /\ UNCHANGED <<call, inflight, wipe, home, provider, crashes, lost, gone>>

\* The link is completed, or marked failed when that write fails.
CompleteLink(k) ==
    LET l == cb[k].link IN
    /\ cb[k].at = "stored"
    /\ cb' = [cb EXCEPT ![k] = IdleCallback]
    /\ \E status \in {"completed", "failed"} :
          links' = [links EXCEPT ![l] = IF Exists(l) THEN status ELSE @]
    /\ UNCHANGED <<row, call, inflight, wipe, home, provider, crashes, lost,
                   stored, gone>>

-----------------------------------------------------------------------------
(* Dropping grants, expiry and crashes.                                    *)

\* Grants and links some request holds a copy of.
Carried == {call[c].held.grant : c \in Callers} \cup {cb[k].link : k \in Callbacks}

\* unlink deletes the row and leaves pending links alone.
Unlink ==
    /\ row # NoToken
    /\ row' = NoToken
    /\ gone' = gone \cup ({row.grant} \ Carried)
    /\ UNCHANGED <<links, call, inflight, cb, wipe, home, provider, crashes,
                   lost, stored>>

\* The wipe of an owner, by request or when the operators file is applied.
WipeTokens ==
    /\ wipe = "idle"
    /\ wipe' = "half"
    /\ row' = NoToken
    /\ UNCHANGED <<links, call, inflight, cb, home, provider, crashes, lost,
                   stored, gone>>

WipeLinksKeepsPending ==  \* mutant: pending links survive the wipe
    /\ wipe = "half"
    /\ wipe' = "idle"
    /\ links' = [l \in Links |-> IF links[l] = "completed" THEN "deleted" ELSE links[l]]
    /\ gone' = gone \cup ({l \in Links : Exists(l)} \ (Carried \cup {row.grant}))
    /\ UNCHANGED <<row, call, inflight, cb, home, provider, crashes, lost, stored>>

WipeLinks ==
    /\ wipe = "half"
    /\ wipe' = "idle"
    /\ links' = [l \in Links |-> IF Exists(l) THEN "deleted" ELSE links[l]]
    /\ gone' = gone \cup ({l \in Links : Exists(l)} \ (Carried \cup {row.grant}))
    /\ UNCHANGED <<row, call, inflight, cb, home, provider, crashes, lost, stored>>

Expire(g, v) ==
    /\ v <= issued[g] /\ v < MaxTokens /\ <<g, v>> \notin dead
    /\ dead' = dead \cup {<<g, v>>}
    /\ UNCHANGED <<row, links, call, inflight, cb, wipe, fixed, issued, crashes,
                   lost, stored, gone>>

\* A replica dies with the requests it serves.
Crash(r) ==
    LET mine == {c \in Callers : home[c] = r} IN
    /\ crashes < MaxCrashes
    /\ crashes' = crashes + 1
    /\ call' = [c \in Callers |-> IF c \in mine THEN IdleCall ELSE call[c]]
    /\ inflight' = [inflight EXCEPT ![r] = NoOne]
    /\ \E died \in SUBSET Callbacks :
          cb' = [k \in Callbacks |-> IF k \in died THEN IdleCallback ELSE cb[k]]
    /\ wipe' \in {wipe, "idle"}
    /\ lost' = lost \cup {call[c].held.grant : c \in {d \in mine : call[d].at = "renewed"}}
    /\ UNCHANGED <<row, links, home, provider, stored, gone>>

-----------------------------------------------------------------------------
CallSteps(c) ==
    UseToken(c) \/ RefreshFails(c) \/ Refresh(c) \/ StoreRefreshed(c)
CallbackSteps(k) == Redeem(k) \/ StoreRedeemed(k) \/ CompleteLink(k)

Next ==
    \/ \E c \in Callers : ReadToken(c) \/ CallSteps(c)
    \/ \E l \in Links : Initiate(l) \/ RefusedCallback(l)
    \/ \E k \in Callbacks, l \in Links : OpenCallback(k, l)
    \/ \E k \in Callbacks : CallbackSteps(k)
    \/ Unlink \/ WipeTokens \/ WipeLinks
    \/ \E g \in Links, v \in 1..MaxTokens : Expire(g, v)
    \/ \E r \in Replicas : Crash(r)

Spec == Init /\ [][Next]_vars

-----------------------------------------------------------------------------
(* Properties.                                                             *)

\* Types of the variables.
TypeOK ==
    /\ row \in Token \cup {NoToken}
    /\ links \in [Links -> Status]
    /\ call \in [Callers -> [at: {"idle", "read", "joined", "leading", "renewed"},
                             held: Token \cup {NoToken}]]
    /\ inflight \in [Replicas -> Callers \cup {NoOne}]
    /\ cb \in [Callbacks -> [at: {"idle", "open", "redeemed", "stored"},
                             link: Links \cup {NoLink}, held: Token \cup {NoToken}]]
    /\ \A c \in Callers : call[c].held = NoToken <=> call[c].at \in {"idle", "joined"}
    /\ \A k \in Callbacks : cb[k].held = NoToken <=> cb[k].at # "redeemed"
    /\ wipe \in {"idle", "half"}
    /\ home \in [Callers -> Replicas]
    /\ issued \in [Links -> 0..MaxTokens]
    /\ renewal \in {"none", "kept", "rotated"}
    /\ dead \subseteq Links \X (1..MaxTokens)
    /\ crashes \in 0..MaxCrashes
    /\ lost \subseteq Links /\ stored \subseteq Links /\ gone \subseteq Links

Refreshing(c) == call[c].at \in {"leading", "renewed"}

\* The map of refreshes in flight is exact: on each replica the entry names
\* the one caller that is refreshing, and whoever joined has one to wait for
\* (refreshWithSingleFlight and its finally).
SingleFlight ==
    /\ \A c \in Callers : Refreshing(c) => inflight[home[c]] = c
    /\ \A r \in Replicas : inflight[r] # NoOne =>
          home[inflight[r]] = r /\ Refreshing(inflight[r])
    /\ \A c \in Callers : call[c].at = "joined" => inflight[home[c]] # NoOne

\* At a provider that rotates refresh tokens the row never keeps a spent one
\* by itself: it holds the newest of its grant, or the caller that spent it
\* is still to store the new one, or that caller died or failed half way.
\* Two replicas may both spend, and callbacks and wipes come in between.
RowIsRedeemable ==
    renewal = "rotated" /\ row # NoToken =>
        \/ row.ver = issued[row.grant]
        \/ row.grant \in lost
        \/ \E c \in Callers : call[c].at = "renewed" /\ call[c].held.grant = row.grant

\* A link that reads completed has had its token stored, whatever crashed
\* between the two writes (exchangeAndStoreToken).
CompletedWasStored == \A l \in Links : links[l] = "completed" => l \in stored

\* A grant that no request was carrying when it was unlinked or wiped does
\* not come back: no stale link or refresh restores it.
DroppedIsGone == row.grant \notin gone

\* What the single flight is for: a refresh token is not presented again once
\* it has been redeemed.  Two replicas, or a read that outlasts the refresh
\* of another request, break it.
NeverSpentTwice ==
    \A c \in Callers : call[c].at = "leading" => Redeemable(call[c].held)

\* "completeCallback rejects already completed links": completed is final.
CompletedIsFinal ==
    [][\A l \in Links : links[l] = "completed" => links'[l] \in {"completed", "deleted"}]_vars
=============================================================================
