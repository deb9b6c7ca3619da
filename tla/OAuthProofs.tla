----------------------------- MODULE OAuthProofs ----------------------------
(***************************************************************************)
(* Proofs about both ends of linking a provider.                           *)
(*                                                                         *)
(* OAuthGrants: for any number of replicas, requests, links, callbacks,    *)
(* tokens and crashes, and whichever way the provider renews tokens, its   *)
(* five properties are invariants.                                         *)
(*                                                                         *)
(* LinkDialog: for any number of providers, requests of the hook in        *)
(* flight, links and tries, its four invariants and its action property.   *)
(*                                                                         *)
(* Neither specification knows the other's variables; each theorem is      *)
(* about one of the two, Spec or DialogSpec.                               *)
(***************************************************************************)
EXTENDS OAuthGrants, LinkDialog, WellFoundedInduction, TLAPS

USE NullAssumption, BoundsAssumption

\* A token that somebody has was issued.
WasIssued ==
    /\ row # NoToken => row.ver <= issued[row.grant]
    /\ \A c \in Callers :
          call[c].held # NoToken => call[c].held.ver <= issued[call[c].held.grant]

\* A token that a callback is about to store is the first of its grant, and
\* nobody else has one.
FirstOfGrant ==
    \A k \in Callbacks : cb[k].at = "redeemed" =>
        /\ cb[k].held.grant = cb[k].link
        /\ issued[cb[k].link] = 1 /\ cb[k].held.ver = 1
        /\ row.grant # cb[k].link
        /\ \A c \in Callers : call[c].held.grant # cb[k].link
        /\ \A j \in Callbacks \ {k} : cb[j].held.grant # cb[k].link

\* A callback at work has a link, and one that has stored the token did so.
StoredFirst ==
    \A k \in Callbacks :
        /\ cb[k].at # "idle" => cb[k].link \in Links
        /\ cb[k].at = "stored" => cb[k].link \in stored

\* A provider that rotates gives its newest token to one caller only, who
\* alone has it until it is stored.
NewestHeldOnce ==
    renewal = "rotated" =>
        \A c \in Callers : call[c].at = "renewed" =>
            /\ call[c].held.ver = issued[call[c].held.grant]
            /\ row # call[c].held
            /\ \A d \in Callers \ {c} : call[d].held # call[c].held

\* Nothing is left of a grant that is gone: nobody carries it, and its code
\* is used, or its link is deleted and no callback knows it.
GoneForGood ==
    \A g \in gone :
        /\ row.grant # g
        /\ \A c \in Callers : call[c].held.grant # g
        /\ \A k \in Callbacks : cb[k].held.grant # g
        /\ \/ issued[g] > 0
           \/ links[g] = "deleted" /\ \A k \in Callbacks : cb[k].link # g

\* Where the tokens are.
Custody ==
    /\ WasIssued /\ FirstOfGrant /\ StoredFirst
    /\ NewestHeldOnce /\ GoneForGood /\ RowIsRedeemable

IInv == TypeOK /\ SingleFlight /\ CompletedWasStored /\ Custody

-----------------------------------------------------------------------------
LEMMA NoTokenLemma == NoToken \notin Token /\ NoToken.grant = NoLink /\ NoLink \notin Links
BY DEF NoToken, Token


\* A request that needs a token, and a callback.
Caller == [at: {"idle", "read", "joined", "leading", "renewed"},
           held: Token \cup {NoToken}]
Callback == [at: {"idle", "open", "redeemed", "stored"},
             link: Links \cup {NoLink}, held: Token \cup {NoToken}]

LEMMA IdleLemma ==
    /\ IdleCall \in Caller /\ IdleCall.at = "idle" /\ IdleCall.held = NoToken
    /\ IdleCallback \in Callback /\ IdleCallback.at = "idle"
    /\ IdleCallback.held = NoToken /\ IdleCallback.link = NoLink
BY DEF IdleCall, IdleCallback, Caller, Callback

\* The request of c, and nobody else's, becomes next.
Becomes(c, next) ==
    /\ call' \in [Callers -> Caller]
    /\ call'[c] = next
    /\ \A d \in Callers \ {c} : call'[d] = call[d]

LEMMA BecomesLemma ==
    ASSUME TypeOK, NEW c \in Callers, NEW next \in Caller, call' = [call EXCEPT ![c] = next]
    PROVE  Becomes(c, next)
BY DEF TypeOK, Becomes, Caller

LEMMA PointLemma ==
    ASSUME TypeOK, NEW c \in Callers,
           NEW at \in {"idle", "read", "joined", "leading", "renewed"},
           NEW held \in Token \cup {NoToken}
    PROVE  [at |-> at, held |-> held] \in Caller
BY DEF Caller

LEMMA SettleLemma ==
    ASSUME TypeOK, NEW c \in Callers, Settle(c)
    PROVE  /\ call' \in [Callers -> Caller]
           /\ call'[c] = IdleCall
           /\ \A d \in Callers : call'[d] = IdleCall
                                 \/ (call'[d] = call[d] /\ d # c
                                     /\ ~(call[d].at = "joined" /\ home[d] = home[c]))
           /\ \A d \in Callers : call[d].at # "joined" /\ d # c => call'[d] = call[d]
           /\ inflight' = [inflight EXCEPT ![home[c]] = NoOne]
<1>1. call' = [d \in Callers |-> IF d \in Waiting(c) THEN IdleCall ELSE call[d]]
  BY DEF Settle
<1>2. call \in [Callers -> Caller]
  BY DEF TypeOK, Caller
<1>3. c \in Waiting(c)
        /\ \A d \in Callers : d \in Waiting(c) <=> d = c \/ (call[d].at = "joined" /\ home[d] = home[c])
  BY DEF Waiting
<1>4. inflight' = [inflight EXCEPT ![home[c]] = NoOne]
  BY DEF Settle
<1> HIDE DEF Waiting
<1> QED
  BY <1>1, <1>2, <1>3, <1>4, IdleLemma

LEMMA SettleFlight ==
    ASSUME TypeOK, SingleFlight, NEW c \in Callers, Refreshing(c), Settle(c), home' = home
    PROVE  SingleFlight' /\ inflight' \in [Replicas -> Callers \cup {NoOne}]
<1>1. inflight[home[c]] = c /\ home[c] \in Replicas
  BY DEF SingleFlight, TypeOK
<1>2. inflight' \in [Replicas -> Callers \cup {NoOne}]
  BY SettleLemma DEF TypeOK
<1>3. ASSUME NEW d \in Callers, Refreshing(d)' PROVE inflight'[home[d]] = d
  <2>1. d # c /\ Refreshing(d)
    BY <1>3, SettleLemma, IdleLemma DEF Refreshing
  <2>2. inflight[home[d]] = d /\ home[d] \in Replicas
    BY <2>1 DEF SingleFlight, TypeOK
  <2> QED
    BY <1>1, <2>1, <2>2, SettleLemma DEF TypeOK
<1>4. ASSUME NEW r \in Replicas, inflight'[r] # NoOne
      PROVE  home[inflight'[r]] = r /\ call'[inflight'[r]].at \in {"leading", "renewed"}
  <2>1. r # home[c] /\ inflight'[r] = inflight[r]
    BY <1>4, <1>1, SettleLemma DEF TypeOK
  <2>2. inflight[r] \in Callers /\ home[inflight[r]] = r /\ Refreshing(inflight[r])
    BY <1>4, <2>1 DEF SingleFlight, TypeOK
  <2>3. call'[inflight[r]] = call[inflight[r]]
    BY <2>1, <2>2, SettleLemma DEF Refreshing
  <2> QED
    BY <2>1, <2>2, <2>3 DEF Refreshing
<1>5. ASSUME NEW d \in Callers, call'[d].at = "joined" PROVE inflight'[home[d]] # NoOne
  <2>1. call'[d] = call[d] /\ home[d] # home[c]
    BY <1>5, SettleLemma, IdleLemma
  <2>2. inflight[home[d]] # NoOne /\ home[d] \in Replicas
    BY <1>5, <2>1 DEF SingleFlight, TypeOK
  <2> QED
    BY <1>1, <2>1, <2>2, SettleLemma DEF TypeOK
<1> QED
  BY <1>2, <1>3, <1>4, <1>5 DEF SingleFlight, Refreshing

LEMMA InitLemma == Init => IInv
BY NoTokenLemma DEF Init, IInv, Custody, TypeOK, SingleFlight, WasIssued, FirstOfGrant, StoredFirst,
   NewestHeldOnce, GoneForGood, RowIsRedeemable, CompletedWasStored, IdleCall, IdleCallback,
   Status, Refreshing

-----------------------------------------------------------------------------
(* Steps that bring nobody a token.                                        *)

\* Requests and callbacks may forget what they carry and the row may be
\* deleted; a token that is renewed and forgotten counts as lost.
LEMMA ForgettingLemma ==
    ASSUME TypeOK, Custody,
           row' = row \/ row' = NoToken,
           \A c \in Callers : call'[c].held = call[c].held \/ call'[c].held = NoToken,
           \A c \in Callers : call'[c].at = "renewed" => call'[c] = call[c],
           \A c \in Callers : call[c].at = "renewed" =>
               call'[c] = call[c] \/ call[c].held.grant \in lost',
           \A k \in Callbacks : cb'[k] = cb[k] \/ cb'[k] = IdleCallback,
           \A l \in Links : links[l] = "deleted" => links'[l] = "deleted",
           issued' = issued, renewal' = renewal, gone' = gone,
           stored' = stored, lost \subseteq lost'
    PROVE  Custody'
<1>1. WasIssued'
  BY DEF Custody, WasIssued
<1>2. FirstOfGrant'
  <2>1. ASSUME NEW k \in Callbacks, cb'[k].at = "redeemed"
        PROVE  cb'[k] = cb[k] /\ cb[k].link \in Links
    BY <2>1, IdleLemma DEF Custody, StoredFirst
  <2> QED
    BY <2>1, NoTokenLemma, IdleLemma DEF Custody, FirstOfGrant
<1>3. StoredFirst'
  BY IdleLemma DEF Custody, StoredFirst
<1>4. NewestHeldOnce'
  BY NoTokenLemma DEF Custody, NewestHeldOnce, TypeOK
<1>5. GoneForGood'
  BY NoTokenLemma, IdleLemma DEF Custody, GoneForGood, TypeOK
<1>6. RowIsRedeemable'
  BY DEF Custody, RowIsRedeemable
<1> QED
  BY <1>1, <1>2, <1>3, <1>4, <1>5, <1>6 DEF Custody

LEMMA UseTokenLemma ==
    ASSUME IInv, NEW c \in Callers, UseToken(c)
    PROVE  IInv'
<1> USE DEF IInv
<1>1. /\ call[c].at = "read" /\ call[c].held \in Token \cup {NoToken}
      /\ home[c] \in Replicas
  BY DEF UseToken, TypeOK
<1>2. /\ \/ Becomes(c, IdleCall) /\ UNCHANGED inflight
         \/ Becomes(c, [at |-> "joined", held |-> NoToken]) /\ UNCHANGED inflight
                /\ inflight[home[c]] # NoOne
         \/ Becomes(c, [at |-> "leading", held |-> call[c].held])
                /\ inflight' = [inflight EXCEPT ![home[c]] = c]
                /\ inflight[home[c]] = NoOne
      /\ UNCHANGED <<row, links, cb, wipe, home, provider, crashes, lost, stored, gone>>
  <2>2. CASE call' = [call EXCEPT ![c] = IdleCall] /\ UNCHANGED inflight
    BY <2>2, IdleLemma, BecomesLemma DEF UseToken
  <2>3. CASE /\ call' = [call EXCEPT ![c] = [at |-> "joined", held |-> NoToken]]
             /\ UNCHANGED inflight /\ inflight[home[c]] # NoOne
    BY <2>3, PointLemma, BecomesLemma DEF UseToken
  <2>4. CASE /\ call' = [call EXCEPT ![c] = [at |-> "leading", held |-> call[c].held]]
             /\ inflight' = [inflight EXCEPT ![home[c]] = c]
             /\ inflight[home[c]] = NoOne
    BY <1>1, <2>4, PointLemma, BecomesLemma DEF UseToken
  <2> QED
    BY <2>2, <2>3, <2>4 DEF UseToken
<1>3. SingleFlight' /\ inflight' \in [Replicas -> Callers \cup {NoOne}]
  <2>1. \A r \in Replicas : inflight[r] # c
    BY <1>1 DEF SingleFlight, TypeOK, Refreshing
  <2>2. CASE UNCHANGED inflight /\ ~Refreshing(c)'
                /\ (call'[c].at = "joined" => inflight[home[c]] # NoOne)
    <3>1. \A d \in Callers : Refreshing(d)' => Refreshing(d)
      BY <1>2, <2>2 DEF Becomes, Refreshing
    <3>2. \A d \in Callers : Refreshing(d) => Refreshing(d)'
      BY <1>1, <1>2 DEF Becomes, Refreshing
    <3> QED
      BY <1>2, <2>2, <3>1, <3>2 DEF SingleFlight, TypeOK, Becomes
  <2>3. CASE /\ Becomes(c, [at |-> "leading", held |-> call[c].held])
             /\ inflight' = [inflight EXCEPT ![home[c]] = c]
             /\ inflight[home[c]] = NoOne
    <3>1. \A d \in Callers : Refreshing(d)' <=> Refreshing(d) \/ d = c
      BY <2>3 DEF Becomes, Refreshing
    <3>2. \A d \in Callers \ {c} : Refreshing(d) \/ call[d].at = "joined" => home[d] # home[c]
      BY <2>3 DEF SingleFlight, TypeOK
    <3>3. \A d \in Callers : call'[d].at = "joined" => call[d].at = "joined" /\ d # c
      BY <2>3 DEF Becomes
    <3> QED
      BY <1>1, <1>2, <2>1, <2>3, <3>1, <3>2, <3>3 DEF SingleFlight, TypeOK
  <2> QED
    BY <1>2, <2>2, <2>3, IdleLemma DEF Becomes, Refreshing, TypeOK
<1>4. TypeOK'
  <2>1. \A d \in Callers : call'[d].held = NoToken <=> call'[d].at \in {"idle", "joined"}
    BY <1>1, <1>2, IdleLemma DEF TypeOK, Becomes
  <2> QED
    BY <1>2, <1>3, <2>1 DEF TypeOK, Becomes, Caller, provider
<1>5. Custody'
  BY <1>1, <1>2, IdleLemma, ForgettingLemma DEF Becomes, provider
<1>6. CompletedWasStored'
  BY <1>2 DEF CompletedWasStored
<1> QED
  BY <1>3, <1>4, <1>5, <1>6

LEMMA RefreshFailsLemma ==
    ASSUME IInv, NEW c \in Callers, RefreshFails(c)
    PROVE  IInv'
<1> USE DEF IInv
<1>1. /\ Refreshing(c) /\ call[c].at = "leading" /\ Settle(c)
      /\ UNCHANGED <<row, links, cb, wipe, home, provider, crashes, lost, stored, gone>>
  BY DEF RefreshFails, Refreshing
<1>2. TypeOK'
  BY <1>1, SettleLemma, SettleFlight, IdleLemma DEF TypeOK, Caller, provider
<1>3. SingleFlight'
  BY <1>1, SettleFlight
<1>4. Custody'
  BY <1>1, SettleLemma, IdleLemma, ForgettingLemma DEF provider
<1>5. CompletedWasStored'
  BY <1>1 DEF CompletedWasStored
<1> QED
  BY <1>2, <1>3, <1>4, <1>5

-----------------------------------------------------------------------------
(* Refreshing and storing.                                                 *)

LEMMA RefreshLemma ==
    ASSUME IInv, NEW c \in Callers, Refresh(c)
    PROVE  IInv'
<1> USE DEF IInv
<1> DEFINE had == call[c].held
           g == had.grant
           new == [at |-> "renewed", held |-> Renewed(had)]
<1>1. /\ call[c].at = "leading" /\ Refreshing(c) /\ home[c] \in Replicas
      /\ had \in Token /\ g \in Links /\ had.ver \in 1..MaxTokens
      /\ had.ver <= issued[g] /\ issued[g] \in 0..MaxTokens
      /\ UNCHANGED <<row, links, cb, wipe, home, renewal, dead, crashes, stored, gone>>
  BY DEF Refresh, Refreshing, TypeOK, Token, Custody, WasIssued, fixed
<1>2. CompletedWasStored'
  BY <1>1 DEF CompletedWasStored
<1>3. CASE ~Redeemable(had) /\ Settle(c) /\ UNCHANGED <<issued, lost>>
  <2>1. TypeOK'
    BY <1>1, <1>3, SettleLemma, SettleFlight, IdleLemma DEF TypeOK, Caller
  <2>2. SingleFlight'
    BY <1>1, <1>3, SettleFlight
  <2>3. Custody'
    BY <1>1, <1>3, SettleLemma, IdleLemma, ForgettingLemma
  <2> QED
    BY <1>2, <2>1, <2>2, <2>3
<1>4. CASE Redeemable(had) /\ issued[g] < MaxTokens /\ issued' = [issued EXCEPT ![g] = @ + 1]
  <2>1. /\ issued' \in [Links -> 0..MaxTokens] /\ issued'[g] = issued[g] + 1
        /\ \A l \in Links : issued[l] <= issued'[l]
        /\ \A l \in Links \ {g} : issued'[l] = issued[l]
    BY <1>1, <1>4 DEF TypeOK
  <2>2. Renewed(had) \in Token /\ Renewed(had).grant = g
          /\ Renewed(had).ver = issued[g] + 1
    BY <1>1, <1>4 DEF Renewed, Token, TypeOK
  <2>3. new \in Caller
    BY <2>2, PointLemma
  <2>4. /\ call' \in [Callers -> Caller]
        /\ \/ call'[c] = new /\ lost' = lost
           \/ call'[c] = IdleCall /\ lost' = lost \cup {g}
        /\ \A d \in Callers \ {c} : call'[d] = call[d] \/ call'[d] = IdleCall
        /\ \A d \in Callers \ {c} : call[d].at = "renewed" => call'[d] = call[d]
        /\ SingleFlight' /\ inflight' \in [Replicas -> Callers \cup {NoOne}]
    <3>1. CASE call' = [call EXCEPT ![c] = new] /\ UNCHANGED <<inflight, lost>>
      <4>1. Becomes(c, new) /\ UNCHANGED <<inflight, lost>>
        BY <2>3, <3>1, BecomesLemma
      <4>2. \A d \in Callers : /\ Refreshing(d)' <=> Refreshing(d)
                               /\ call'[d].at = "joined" <=> call[d].at = "joined"
        BY <1>1, <4>1 DEF Becomes, Refreshing
      <4>3. SingleFlight'
        BY <1>1, <4>1, <4>2 DEF SingleFlight, TypeOK
      <4> QED
        BY <4>1, <4>3 DEF Becomes, TypeOK
    <3>2. CASE Settle(c) /\ lost' = lost \cup {g}
      BY <1>1, <3>2, SettleLemma, SettleFlight
    <3> QED
      BY <1>4, <3>1, <3>2 DEF Refresh
  <2>5. TypeOK'
    <3>1. lost' \subseteq Links
      BY <1>1, <2>4 DEF TypeOK
    <3>2. \A d \in Callers : call'[d].held = NoToken <=> call'[d].at \in {"idle", "joined"}
      BY <2>2, <2>4, NoTokenLemma, IdleLemma DEF TypeOK
    <3> QED
      BY <1>1, <2>1, <2>4, <3>1, <3>2 DEF TypeOK, Caller
  <2>6. \A d \in Callers : call'[d].held.grant \in {call[d].held.grant, NoLink}
    BY <2>2, <2>4, NoTokenLemma, IdleLemma
  <2>7. WasIssued'
    <3>1. row # NoToken => row.grant \in Links /\ row.ver \in Nat
      BY DEF TypeOK, Token
    <3>2. ASSUME NEW d \in Callers, d # c, call'[d].held # NoToken
          PROVE  call'[d].held.ver <= issued'[call'[d].held.grant]
      <4>1. call'[d] = call[d] /\ call[d].held \in Token
        BY <2>4, <3>2, IdleLemma DEF TypeOK
      <4>2. call[d].held.grant \in Links /\ call[d].held.ver \in Nat
             /\ call[d].held.ver <= issued[call[d].held.grant]
        BY <3>2, <4>1 DEF Custody, WasIssued, Token
      <4> QED
        BY <2>1, <4>1, <4>2 DEF TypeOK
    <3>3. call'[c].held # NoToken => call'[c].held.ver <= issued'[call'[c].held.grant]
      BY <1>1, <2>1, <2>2, <2>4, IdleLemma
    <3> QED
      BY <1>1, <2>1, <3>1, <3>2, <3>3 DEF Custody, WasIssued, TypeOK
  <2>8. FirstOfGrant'
    BY <1>1, <2>1, <2>6, NoTokenLemma DEF Custody, FirstOfGrant, StoredFirst
  <2>9. StoredFirst'
    BY <1>1 DEF Custody, StoredFirst
  <2>10. NewestHeldOnce'
    <3> SUFFICES ASSUME renewal = "rotated" PROVE NewestHeldOnce'
      BY <1>1 DEF NewestHeldOnce
    <3>1. had.ver = issued[g]
      BY <1>4 DEF Redeemable
    <3>2. \A t \in Token : t.ver <= issued[t.grant] => t # Renewed(had)
      BY <1>1, <2>2 DEF Token
    <3>3. row # Renewed(had) /\ \A d \in Callers : call[d].held # Renewed(had)
      BY <2>2, <3>2, NoTokenLemma DEF Custody, WasIssued, TypeOK
    <3>4. ASSUME NEW d \in Callers, d # c, call[d].at = "renewed"
          PROVE  call[d].held.grant # g /\ call[d].held.grant \in Links
      <4>1. call[d].held \in Token /\ call[d].held # had
            /\ call[d].held.ver = issued[call[d].held.grant]
        BY <1>1, <3>4 DEF Custody, NewestHeldOnce, TypeOK
      <4> QED
        BY <1>1, <3>1, <4>1 DEF Token
    <3>5. ASSUME NEW d \in Callers, call'[d].at = "renewed"
          PROVE  \/ d = c /\ call'[c] = new
                 \/ d # c /\ call'[d] = call[d]
      BY <2>4, <3>5, IdleLemma
    <3>6. \A d, e \in Callers : d # e /\ call'[d].at = "renewed" => call'[e].held # call'[d].held
      BY <2>2, <2>4, <3>3, <3>4, <3>5, NoTokenLemma, IdleLemma DEF Custody, NewestHeldOnce
    <3> QED
      BY <1>1, <2>1, <2>2, <3>3, <3>4, <3>5, <3>6 DEF Custody, NewestHeldOnce
  <2>11. GoneForGood'
    <3>1. g \notin gone /\ gone \subseteq Links
      BY DEF Custody, GoneForGood, TypeOK
    <3> QED
      BY <1>1, <2>1, <2>6, <3>1, NoTokenLemma DEF Custody, GoneForGood
  <2>12. RowIsRedeemable'
    <3>1. row # NoToken => row.grant \in Links
      BY DEF TypeOK, Token
    <3> QED
      BY <1>1, <2>1, <2>2, <2>4, <3>1 DEF Custody, RowIsRedeemable
  <2> QED
    BY <1>2, <2>4, <2>5, <2>7, <2>8, <2>9, <2>10, <2>11, <2>12 DEF Custody
<1> QED
  BY <1>3, <1>4 DEF Refresh

LEMMA StoreRefreshedLemma ==
    ASSUME IInv, NEW c \in Callers, StoreRefreshed(c)
    PROVE  IInv'
<1> USE DEF IInv
<1> DEFINE had == call[c].held
<1>1. /\ call[c].at = "renewed" /\ Refreshing(c) /\ Settle(c)
      /\ had \in Token /\ had.grant \in Links
      /\ had.ver <= issued[had.grant]
      /\ UNCHANGED <<links, cb, wipe, home, provider, crashes, gone>>
  BY DEF StoreRefreshed, Refreshing, TypeOK, Token, Custody, WasIssued
<1>2. \/ row' = had /\ stored' = stored \cup {had.grant} /\ UNCHANGED lost
      \/ lost' = lost \cup {had.grant} /\ UNCHANGED <<row, stored>>
  BY DEF StoreRefreshed
<1>3. TypeOK'
  BY <1>1, <1>2, SettleLemma, SettleFlight, IdleLemma DEF TypeOK, Caller, provider
<1>4. SingleFlight'
  BY <1>1, SettleFlight
<1>5. CompletedWasStored'
  BY <1>1, <1>2 DEF CompletedWasStored
<1>6. CASE lost' = lost \cup {had.grant} /\ UNCHANGED <<row, stored>>
  <2>1. Custody'
    BY <1>1, <1>6, SettleLemma, IdleLemma, ForgettingLemma DEF provider
  <2> QED
    BY <1>3, <1>4, <1>5, <2>1
<1>7. CASE row' = had /\ stored' = stored \cup {had.grant} /\ UNCHANGED lost
  <2>1. \A d \in Callers : call'[d] = IdleCall \/ (call'[d] = call[d] /\ d # c)
    BY <1>1, SettleLemma
  <2>2. WasIssued'
    BY <1>1, <1>7, <2>1, IdleLemma DEF Custody, WasIssued, provider
  <2>3. FirstOfGrant'
    BY <1>1, <1>7, <2>1, NoTokenLemma, IdleLemma
    DEF Custody, FirstOfGrant, StoredFirst, provider
  <2>4. StoredFirst'
    BY <1>1, <1>7 DEF Custody, StoredFirst
  <2>5. NewestHeldOnce'
    BY <1>1, <1>7, <2>1, IdleLemma DEF Custody, NewestHeldOnce, provider, TypeOK
  <2>6. GoneForGood'
    BY <1>1, <1>7, <2>1, NoTokenLemma, IdleLemma DEF Custody, GoneForGood, provider, TypeOK
  <2>7. RowIsRedeemable'
    BY <1>1, <1>7 DEF Custody, NewestHeldOnce, RowIsRedeemable, provider
  <2> QED
    BY <1>3, <1>4, <1>5, <2>2, <2>3, <2>4, <2>5, <2>6, <2>7 DEF Custody
<1> QED
  BY <1>2, <1>6, <1>7

LEMMA ReadTokenLemma ==
    ASSUME IInv, NEW c \in Callers, ReadToken(c)
    PROVE  IInv'
<1> USE DEF IInv
<1> DEFINE next == [at |-> "read", held |-> row]
<1>1. /\ call[c].at = "idle" /\ row # NoToken /\ row \in Token /\ row.grant \in Links
      /\ UNCHANGED <<row, links, inflight, cb, wipe, home, provider, crashes,
                     lost, stored, gone>>
  BY DEF ReadToken, TypeOK, Token
<1>2. Becomes(c, next)
  BY <1>1, PointLemma, BecomesLemma DEF ReadToken
<1>3. TypeOK'
  BY <1>1, <1>2, NoTokenLemma DEF TypeOK, Becomes, Caller, provider
<1>4. SingleFlight'
  <2>1. \A d \in Callers : /\ Refreshing(d)' <=> Refreshing(d)
                           /\ call'[d].at = "joined" <=> call[d].at = "joined"
    BY <1>1, <1>2 DEF Becomes, Refreshing
  <2> QED
    BY <1>1, <2>1 DEF SingleFlight, TypeOK
<1>5. CompletedWasStored'
  BY <1>1 DEF CompletedWasStored
<1>6. Custody'
  BY <1>1, <1>2 DEF Custody, WasIssued, FirstOfGrant, StoredFirst, NewestHeldOnce,
     GoneForGood, RowIsRedeemable, Becomes, provider
<1> QED
  BY <1>3, <1>4, <1>5, <1>6

-----------------------------------------------------------------------------
(* Links and callbacks.                                                    *)

\* The callback k, and no other, becomes next.
CallbackBecomes(k, next) ==
    /\ cb' \in [Callbacks -> Callback]
    /\ cb'[k] = next
    /\ \A j \in Callbacks \ {k} : cb'[j] = cb[j]

LEMMA CallbackLemma ==
    ASSUME TypeOK, NEW k \in Callbacks, NEW next \in Callback,
           cb' = [cb EXCEPT ![k] = next]
    PROVE  CallbackBecomes(k, next)
BY DEF TypeOK, CallbackBecomes, Callback

LEMMA FailedLemma ==
    ASSUME TypeOK, NEW l \in Links, markLinkFailed(l)
    PROVE  /\ links' \in [Links -> Status]
           /\ \A m \in Links : links[m] = "deleted" => links'[m] = "deleted"
           /\ \A m \in Links : links'[m] = "completed" => links[m] = "completed"
BY DEF TypeOK, markLinkFailed, Exists, Status

LEMMA InitiateLemma ==
    ASSUME IInv, NEW l \in Links, Initiate(l)
    PROVE  IInv'
<1> USE DEF IInv
<1>1. /\ links[l] = "new" /\ links' = [links EXCEPT ![l] = "pending"]
      /\ UNCHANGED <<row, call, inflight, cb, wipe, home, provider, crashes,
                     lost, stored, gone>>
  BY DEF Initiate
<1>2. TypeOK'
  BY <1>1 DEF TypeOK, Status, provider
<1>3. SingleFlight'
  BY <1>1 DEF SingleFlight, Refreshing
<1>4. CompletedWasStored'
  BY <1>1 DEF CompletedWasStored, TypeOK
<1>5. \A m \in Links : links[m] = "deleted" => links'[m] = "deleted"
  BY <1>1 DEF TypeOK
<1>6. Custody'
  BY <1>1, <1>5, ForgettingLemma DEF provider
<1> QED
  BY <1>2, <1>3, <1>4, <1>6

LEMMA RefusedCallbackLemma ==
    ASSUME IInv, NEW l \in Links, RefusedCallback(l)
    PROVE  IInv'
<1> USE DEF IInv
<1>1. /\ markLinkFailed(l)
      /\ UNCHANGED <<row, call, inflight, cb, wipe, home, provider, crashes,
                     lost, stored, gone>>
  BY DEF RefusedCallback
<1>2. TypeOK'
  BY <1>1, FailedLemma DEF TypeOK, provider
<1>3. SingleFlight'
  BY <1>1 DEF SingleFlight, Refreshing
<1>4. CompletedWasStored'
  BY <1>1, FailedLemma DEF CompletedWasStored
<1>5. Custody'
  BY <1>1, FailedLemma, ForgettingLemma DEF provider
<1> QED
  BY <1>2, <1>3, <1>4, <1>5

LEMMA OpenCallbackLemma ==
    ASSUME IInv, NEW k \in Callbacks, NEW l \in Links, OpenCallback(k, l)
    PROVE  IInv'
<1> USE DEF IInv
<1> DEFINE next == [at |-> "open", link |-> l, held |-> NoToken]
<1>1. /\ cb[k].at = "idle" /\ links[l] = "pending"
      /\ UNCHANGED <<row, links, call, inflight, wipe, home, provider, crashes,
                     lost, stored, gone>>
  BY DEF OpenCallback
<1>2. next \in Callback
  BY DEF Callback
<1>3. CallbackBecomes(k, next)
  BY <1>2, CallbackLemma DEF OpenCallback
<1>4. TypeOK'
  BY <1>1, <1>3 DEF TypeOK, CallbackBecomes, Callback, provider
<1>5. SingleFlight' /\ CompletedWasStored'
  BY <1>1 DEF SingleFlight, Refreshing, CompletedWasStored
<1>6. WasIssued' /\ NewestHeldOnce' /\ RowIsRedeemable'
  BY <1>1 DEF Custody, WasIssued, NewestHeldOnce, RowIsRedeemable, provider
<1>7. FirstOfGrant' /\ StoredFirst'
  BY <1>1, <1>3, NoTokenLemma DEF Custody, FirstOfGrant, StoredFirst, CallbackBecomes, provider
<1>8. GoneForGood'
  <2>1. /\ gone \subseteq Links
        /\ \A g \in gone : links[g] = "deleted" => g # l
    BY <1>1 DEF TypeOK
  <2>2. /\ cb'[k].held.grant = NoLink /\ cb'[k].link = l
        /\ \A j \in Callbacks \ {k} : cb'[j] = cb[j]
    BY <1>3, NoTokenLemma DEF CallbackBecomes
  <2> QED
    BY <1>1, <2>1, <2>2, NoTokenLemma DEF Custody, GoneForGood, provider
<1> QED
  BY <1>4, <1>5, <1>6, <1>7, <1>8 DEF Custody

LEMMA RedeemLemma ==
    ASSUME IInv, NEW k \in Callbacks, Redeem(k)
    PROVE  IInv'
<1> USE DEF IInv
<1> DEFINE l == cb[k].link
           first == [grant |-> l, ver |-> 1]
           next == [at |-> "redeemed", link |-> l, held |-> first]
<1>1. /\ cb[k].at = "open" /\ l \in Links /\ cb[k].held = NoToken
      /\ UNCHANGED <<row, call, inflight, wipe, home, renewal, dead, crashes,
                     lost, stored, gone>>
  BY DEF Redeem, fixed, TypeOK, Custody, StoredFirst
<1>2. SingleFlight'
  BY <1>1 DEF SingleFlight, Refreshing
<1>3. CASE issued' = issued /\ cb' = [cb EXCEPT ![k] = IdleCallback] /\ markLinkFailed(l)
  <2>1. CallbackBecomes(k, IdleCallback)
    BY <1>3, IdleLemma, CallbackLemma
  <2>2. TypeOK'
    BY <1>1, <1>3, <2>1, FailedLemma, IdleLemma DEF TypeOK, CallbackBecomes, Callback
  <2>3. CompletedWasStored'
    BY <1>1, <1>3, FailedLemma DEF CompletedWasStored
  <2>4. Custody'
    BY <1>1, <1>3, <2>1, FailedLemma, ForgettingLemma DEF CallbackBecomes
  <2> QED
    BY <1>2, <2>2, <2>3, <2>4
<1>4. CASE issued[l] = 0 /\ issued' = [issued EXCEPT ![l] = 1]
  <2>1. /\ issued' \in [Links -> 0..MaxTokens] /\ issued'[l] = 1
        /\ \A m \in Links \ {l} : issued'[m] = issued[m]
    BY <1>1, <1>4 DEF TypeOK
  <2>2. first \in Token /\ first.grant = l /\ first.ver = 1
    BY <1>1 DEF Token
  <2>3. \A t \in Token : t.ver <= issued[t.grant] => t.grant # l /\ t.grant \in Links
    BY <1>4 DEF Token
  <2>4. /\ row.grant # l
        /\ row # NoToken => row.grant \in Links
        /\ \A c \in Callers : /\ call[c].held.grant # l
                              /\ call[c].held # NoToken => call[c].held.grant \in Links
    BY <1>1, <2>3, NoTokenLemma DEF Custody, WasIssued, TypeOK
  <2>5. \A j \in Callbacks : cb[j].held.grant # l
    BY <1>1, <1>4, NoTokenLemma DEF Custody, FirstOfGrant, TypeOK
  <2>6. /\ cb' \in [Callbacks -> Callback]
        /\ \/ cb'[k] = next /\ links' = links
           \/ cb'[k] = IdleCallback /\ markLinkFailed(l)
        /\ \A j \in Callbacks \ {k} : cb'[j] = cb[j]
    <3>1. next \in Callback
      BY <1>1, <2>2 DEF Callback
    <3> QED
      BY <1>4, <3>1, IdleLemma, CallbackLemma DEF Redeem, CallbackBecomes
  <2>7. TypeOK'
    <3>1. \A j \in Callbacks : cb'[j].held = NoToken <=> cb'[j].at # "redeemed"
      BY <2>2, <2>6, NoTokenLemma, IdleLemma DEF TypeOK
    <3> QED
      BY <1>1, <2>1, <2>6, <3>1, FailedLemma DEF TypeOK, Callback
  <2>8. CompletedWasStored'
    BY <1>1, <2>6, FailedLemma DEF CompletedWasStored
  <2>9. WasIssued'
    BY <1>1, <2>1, <2>4 DEF Custody, WasIssued
  <2>10. FirstOfGrant'
    <3>1. \A j \in Callbacks \ {k} : cb[j].at = "redeemed" => cb[j].link # l /\ cb[j].link \in Links
      BY <1>4, <2>5 DEF Custody, FirstOfGrant, StoredFirst
    <3>2. cb'[k].held.grant \in {l, NoLink}
      BY <2>6, NoTokenLemma, IdleLemma
    <3> QED
      BY <1>1, <2>1, <2>4, <2>5, <2>6, <3>1, <3>2, NoTokenLemma, IdleLemma DEF Custody, FirstOfGrant
  <2>11. StoredFirst'
    BY <1>1, <2>6, IdleLemma DEF Custody, StoredFirst
  <2>12. NewestHeldOnce' /\ RowIsRedeemable'
    BY <1>1, <2>1, <2>4, NoTokenLemma DEF Custody, NewestHeldOnce, RowIsRedeemable, TypeOK
  <2>13. GoneForGood'
    <3>1. l \notin gone /\ gone \subseteq Links
      BY <1>4 DEF Custody, GoneForGood, TypeOK
    <3>2. \A j \in Callbacks : /\ cb'[j].link \in {cb[j].link, NoLink}
                               /\ cb'[j].held.grant \in {cb[j].held.grant, l, NoLink}
      BY <2>6, NoTokenLemma, IdleLemma
    <3>3. \A m \in Links : links[m] = "deleted" => links'[m] = "deleted"
      BY <1>1, <2>6, FailedLemma
    <3> QED
      BY <1>1, <2>1, <3>1, <3>2, <3>3, NoTokenLemma DEF Custody, GoneForGood
  <2> QED
    BY <1>2, <2>7, <2>8, <2>9, <2>10, <2>11, <2>12, <2>13 DEF Custody
<1> QED
  BY <1>3, <1>4 DEF Redeem

LEMMA StoreRedeemedLemma ==
    ASSUME IInv, NEW k \in Callbacks, StoreRedeemed(k)
    PROVE  IInv'
<1> USE DEF IInv
<1> DEFINE l == cb[k].link
           had == cb[k].held
           next == [at |-> "stored", link |-> l, held |-> NoToken]
<1>1. /\ cb[k].at = "redeemed" /\ l \in Links
      /\ had \in Token /\ had.grant = l /\ had.ver = 1 /\ issued[l] = 1
      /\ UNCHANGED <<call, inflight, wipe, home, provider, crashes, lost, gone>>
  BY DEF StoreRedeemed, TypeOK, Custody, FirstOfGrant, StoredFirst
<1>2. SingleFlight'
  BY <1>1 DEF SingleFlight, Refreshing
<1>3. CASE /\ cb' = [cb EXCEPT ![k] = IdleCallback] /\ markLinkFailed(l)
           /\ UNCHANGED <<row, stored>>
  <2>1. CallbackBecomes(k, IdleCallback)
    BY <1>3, IdleLemma, CallbackLemma
  <2>2. TypeOK'
    BY <1>1, <1>3, <2>1, FailedLemma, IdleLemma DEF TypeOK, CallbackBecomes, Callback, provider
  <2>3. CompletedWasStored'
    BY <1>1, <1>3, FailedLemma DEF CompletedWasStored
  <2>4. Custody'
    BY <1>1, <1>3, <2>1, FailedLemma, ForgettingLemma DEF CallbackBecomes, provider
  <2> QED
    BY <1>2, <2>2, <2>3, <2>4
<1>4. CASE /\ row' = had /\ stored' = stored \cup {l}
           /\ cb' = [cb EXCEPT ![k] = next] /\ UNCHANGED links
  <2>1. CallbackBecomes(k, next)
    <3>1. next \in Callback
      BY <1>1 DEF Callback
    <3> QED
      BY <1>4, <3>1, CallbackLemma
  <2>2. TypeOK'
    BY <1>1, <1>4, <2>1 DEF TypeOK, CallbackBecomes, Callback, provider
  <2>3. CompletedWasStored'
    BY <1>4 DEF CompletedWasStored
  <2>4. /\ \A c \in Callers : call[c].held.grant # l
        /\ \A j \in Callbacks \ {k} : cb[j].held.grant # l
        /\ l \notin gone
    BY <1>1 DEF Custody, FirstOfGrant, GoneForGood
  <2>5. WasIssued'
    BY <1>1, <1>4 DEF Custody, WasIssued, provider
  <2>6. FirstOfGrant'
    BY <1>1, <1>4, <2>1, <2>4, NoTokenLemma
    DEF Custody, FirstOfGrant, StoredFirst, CallbackBecomes, provider
  <2>7. StoredFirst'
    BY <1>1, <1>4, <2>1 DEF Custody, StoredFirst, CallbackBecomes
  <2>8. NewestHeldOnce'
    BY <1>1, <1>4, <2>4 DEF Custody, NewestHeldOnce, provider
  <2>9. GoneForGood'
    BY <1>1, <1>4, <2>1, <2>4, NoTokenLemma DEF Custody, GoneForGood, CallbackBecomes, TypeOK, provider
  <2>10. RowIsRedeemable'
    BY <1>1, <1>4 DEF RowIsRedeemable, provider
  <2> QED
    BY <1>2, <2>2, <2>3, <2>5, <2>6, <2>7, <2>8, <2>9, <2>10 DEF Custody
<1> QED
  BY <1>1, <1>3, <1>4 DEF StoreRedeemed

LEMMA CompleteLinkLemma ==
    ASSUME IInv, NEW k \in Callbacks, CompleteLink(k)
    PROVE  IInv'
<1> USE DEF IInv
<1> DEFINE l == cb[k].link
<1>1. /\ cb[k].at = "stored" /\ l \in Links /\ l \in stored
      /\ cb' = [cb EXCEPT ![k] = IdleCallback]
      /\ UNCHANGED <<row, call, inflight, wipe, home, provider, crashes, lost, stored, gone>>
  BY DEF CompleteLink, Custody, StoredFirst
<1>2. /\ links' \in [Links -> Status]
      /\ \A m \in Links : links[m] = "deleted" => links'[m] = "deleted"
      /\ \A m \in Links \ {l} : links'[m] = links[m]
  BY <1>1 DEF CompleteLink, TypeOK, Exists, Status
<1>3. CallbackBecomes(k, IdleCallback)
  BY <1>1, IdleLemma, CallbackLemma
<1>4. TypeOK'
  BY <1>1, <1>2, <1>3, IdleLemma DEF TypeOK, CallbackBecomes, Callback, provider
<1>5. SingleFlight'
  BY <1>1 DEF SingleFlight, Refreshing
<1>6. CompletedWasStored'
  BY <1>1, <1>2 DEF CompletedWasStored
<1>7. Custody'
  BY <1>1, <1>2, <1>3, ForgettingLemma DEF CallbackBecomes, provider
<1> QED
  BY <1>4, <1>5, <1>6, <1>7

-----------------------------------------------------------------------------
(* Dropping grants, expiry and crashes.                                    *)

LEMMA UnlinkLemma ==
    ASSUME IInv, Unlink
    PROVE  IInv'
<1> USE DEF IInv
<1> DEFINE g == row.grant
<1>1. /\ row \in Token /\ g \in Links /\ row' = NoToken
      /\ gone' = gone \cup ({g} \ Carried)
      /\ UNCHANGED <<links, call, inflight, cb, wipe, home, provider, crashes, lost, stored>>
  BY DEF Unlink, TypeOK, Token
<1>2. TypeOK'
  BY <1>1 DEF TypeOK, provider
<1>3. SingleFlight' /\ CompletedWasStored'
  BY <1>1 DEF SingleFlight, Refreshing, CompletedWasStored
<1>4. /\ WasIssued' /\ FirstOfGrant' /\ StoredFirst' /\ NewestHeldOnce' /\ RowIsRedeemable'
  BY <1>1, NoTokenLemma DEF Custody, WasIssued, FirstOfGrant, StoredFirst, NewestHeldOnce,
     RowIsRedeemable, TypeOK, provider
<1>5. GoneForGood'
  <2>1. issued[g] > 0
    BY <1>1, NoTokenLemma DEF Custody, WasIssued, TypeOK, Token
  <2>2. ASSUME g \notin Carried
        PROVE  /\ \A c \in Callers : call[c].held.grant # g
               /\ \A k \in Callbacks : cb[k].held.grant # g
    <3>1. \A k \in Callbacks : cb[k].held = NoToken \/ cb[k].held.grant = cb[k].link
      BY DEF Custody, FirstOfGrant, TypeOK
    <3> QED
      BY <1>1, <2>2, <3>1, NoTokenLemma DEF Carried
  <2> QED
    BY <1>1, <2>1, <2>2, NoTokenLemma DEF Custody, GoneForGood, TypeOK, provider
<1> QED
  BY <1>2, <1>3, <1>4, <1>5 DEF Custody

LEMMA WipeTokensLemma ==
    ASSUME IInv, WipeTokens
    PROVE  IInv'
<1> USE DEF IInv
<1>1. /\ row' = NoToken /\ wipe' = "half"
      /\ UNCHANGED <<links, call, inflight, cb, home, provider, crashes, lost, stored, gone>>
  BY DEF WipeTokens
<1>2. TypeOK'
  BY <1>1 DEF TypeOK, provider
<1>3. SingleFlight' /\ CompletedWasStored'
  BY <1>1 DEF SingleFlight, Refreshing, CompletedWasStored
<1>4. Custody'
  BY <1>1, ForgettingLemma DEF provider
<1> QED
  BY <1>2, <1>3, <1>4

LEMMA WipeLinksLemma ==
    ASSUME IInv, WipeLinks
    PROVE  IInv'
<1> USE DEF IInv
<1> DEFINE wiped == {l \in Links : Exists(l)} \ (Carried \cup {row.grant})
<1>1. /\ links' \in [Links -> Status]
      /\ \A l \in Links : links'[l] = IF Exists(l) THEN "deleted" ELSE links[l]
      /\ wipe' = "idle" /\ gone' = gone \cup wiped
      /\ UNCHANGED <<row, call, inflight, cb, home, provider, crashes, lost, stored>>
  BY DEF WipeLinks, TypeOK, Status
<1>2. TypeOK'
  BY <1>1 DEF TypeOK, provider
<1>3. SingleFlight' /\ CompletedWasStored'
  BY <1>1 DEF SingleFlight, Refreshing, CompletedWasStored, Exists
<1>4. /\ WasIssued' /\ FirstOfGrant' /\ StoredFirst' /\ NewestHeldOnce' /\ RowIsRedeemable'
  BY <1>1 DEF Custody, WasIssued, FirstOfGrant, StoredFirst, NewestHeldOnce,
     RowIsRedeemable, provider
<1>5. GoneForGood'
  <2>1. ASSUME NEW g \in wiped
        PROVE  /\ links'[g] = "deleted" /\ row.grant # g
               /\ \A c \in Callers : call[c].held.grant # g
               /\ \A k \in Callbacks : cb[k].held.grant # g /\ cb[k].link # g
    <3>1. \A k \in Callbacks : cb[k].held = NoToken \/ cb[k].held.grant = cb[k].link
      BY DEF Custody, FirstOfGrant, TypeOK
    <3> QED
      BY <1>1, <2>1, <3>1, NoTokenLemma DEF Carried
  <2>2. \A l \in Links : links[l] = "deleted" => links'[l] = "deleted"
    BY <1>1
  <2> QED
    BY <1>1, <2>1, <2>2 DEF Custody, GoneForGood, TypeOK, provider
<1> QED
  BY <1>2, <1>3, <1>4, <1>5 DEF Custody

LEMMA ExpireLemma ==
    ASSUME IInv, NEW g \in Links, NEW v \in 1..MaxTokens, Expire(g, v)
    PROVE  IInv'
<1> USE DEF IInv
<1>1. /\ dead' = dead \cup {<<g, v>>}
      /\ UNCHANGED <<row, links, call, inflight, cb, wipe, fixed, issued, crashes,
                     lost, stored, gone>>
  BY DEF Expire
<1>2. TypeOK'
  BY <1>1 DEF TypeOK, fixed
<1>3. SingleFlight' /\ CompletedWasStored'
  BY <1>1 DEF SingleFlight, Refreshing, CompletedWasStored, fixed
<1>4. Custody'
  BY <1>1, ForgettingLemma DEF fixed
<1> QED
  BY <1>2, <1>3, <1>4

LEMMA CrashLemma ==
    ASSUME IInv, NEW r \in Replicas, Crash(r)
    PROVE  IInv'
<1> USE DEF IInv
<1> DEFINE mine == {c \in Callers : home[c] = r}
<1>1. /\ crashes' \in 0..MaxCrashes
      /\ call' = [c \in Callers |-> IF c \in mine THEN IdleCall ELSE call[c]]
      /\ inflight' = [inflight EXCEPT ![r] = NoOne]
      /\ lost' = lost \cup {call[c].held.grant : c \in {d \in mine : call[d].at = "renewed"}}
      /\ UNCHANGED <<row, links, home, provider, stored, gone>>
  BY DEF Crash, TypeOK
<1>2. /\ cb' \in [Callbacks -> Callback]
      /\ \A k \in Callbacks : cb'[k] = cb[k] \/ cb'[k] = IdleCallback
      /\ wipe' \in {"idle", "half"}
  BY IdleLemma DEF Crash, TypeOK, Callback
<1>3. /\ call' \in [Callers -> Caller]
      /\ \A c \in mine : call'[c] = IdleCall
      /\ \A c \in Callers \ mine : call'[c] = call[c]
  BY <1>1, IdleLemma DEF TypeOK, Caller
<1>4. lost' \subseteq Links /\ \A c \in mine : call[c].at = "renewed" => call[c].held.grant \in lost'
  <2>1. \A c \in Callers : call[c].at = "renewed" => call[c].held.grant \in Links
    BY DEF TypeOK, Token
  <2> QED
    BY <1>1, <2>1 DEF TypeOK
<1>5. TypeOK'
  <2>1. \A k \in Callbacks : cb'[k].held = NoToken <=> cb'[k].at # "redeemed"
    BY <1>2, IdleLemma DEF TypeOK
  <2>2. \A c \in Callers : call'[c].held = NoToken <=> call'[c].at \in {"idle", "joined"}
    BY <1>3, IdleLemma DEF TypeOK
  <2>3. inflight' \in [Replicas -> Callers \cup {NoOne}]
    BY <1>1 DEF TypeOK
  <2> QED
    BY <1>1, <1>2, <1>3, <1>4, <2>1, <2>2, <2>3 DEF TypeOK, Caller, Callback, provider
<1>6. SingleFlight'
  <2>1. \A c \in Callers : Refreshing(c)' <=> Refreshing(c) /\ home[c] # r
    BY <1>3, IdleLemma DEF Refreshing
  <2>2. \A c \in Callers : call'[c].at = "joined" <=> call[c].at = "joined" /\ home[c] # r
    BY <1>3, IdleLemma
  <2> QED
    BY <1>1, <2>1, <2>2 DEF SingleFlight, TypeOK
<1>7. CompletedWasStored'
  BY <1>1 DEF CompletedWasStored
<1>8. Custody'
  BY <1>1, <1>2, <1>3, <1>4, IdleLemma, ForgettingLemma DEF provider
<1> QED
  BY <1>5, <1>6, <1>7, <1>8

-----------------------------------------------------------------------------
LEMMA Invariant == IInv /\ [Next]_vars => IInv'
<1> SUFFICES ASSUME IInv, [Next]_vars PROVE IInv'
  OBVIOUS
<1>1. ASSUME NEW c \in Callers, ReadToken(c) \/ CallSteps(c) PROVE IInv'
  BY <1>1, ReadTokenLemma, UseTokenLemma, RefreshFailsLemma, RefreshLemma,
     StoreRefreshedLemma DEF CallSteps
<1>2. ASSUME NEW l \in Links, Initiate(l) \/ RefusedCallback(l) PROVE IInv'
  BY <1>2, InitiateLemma, RefusedCallbackLemma
<1>3. ASSUME NEW k \in Callbacks, NEW l \in Links, OpenCallback(k, l) PROVE IInv'
  BY <1>3, OpenCallbackLemma
<1>4. ASSUME NEW k \in Callbacks, CallbackSteps(k) PROVE IInv'
  BY <1>4, RedeemLemma, StoreRedeemedLemma, CompleteLinkLemma DEF CallbackSteps
<1>5. CASE Unlink \/ WipeTokens \/ WipeLinks
  BY <1>5, UnlinkLemma, WipeTokensLemma, WipeLinksLemma
<1>6. ASSUME NEW g \in Links, NEW v \in 1..MaxTokens, Expire(g, v) PROVE IInv'
  BY <1>6, ExpireLemma
<1>7. ASSUME NEW r \in Replicas, Crash(r) PROVE IInv'
  BY <1>7, CrashLemma
<1>8. CASE UNCHANGED vars
  BY <1>8 DEF vars, provider, IInv, TypeOK, SingleFlight, Refreshing, CompletedWasStored, Custody,
     WasIssued, FirstOfGrant, StoredFirst, NewestHeldOnce, GoneForGood, RowIsRedeemable
<1> QED
  BY <1>1, <1>2, <1>3, <1>4, <1>5, <1>6, <1>7, <1>8 DEF Next

\* The inductive invariant holds in every state.
THEOREM Invariance == Spec => []IInv
<1>1. Init => IInv
  BY InitLemma
<1>2. IInv /\ [Next]_vars => IInv'
  BY Invariant
<1> QED
  BY <1>1, <1>2, PTL DEF Spec

\* Every variable keeps its type, however many replicas, requests and links.
THEOREM TypeCorrect == Spec => []TypeOK
<1>1. IInv => TypeOK
  BY DEF IInv
<1> QED
  BY <1>1, Invariance, PTL

\* A process refreshes the grant once at a time and forgets no one who waits
\* (refreshWithSingleFlight).
THEOREM RefreshedOnce == Spec => []SingleFlight
<1>1. IInv => SingleFlight
  BY DEF IInv
<1> QED
  BY <1>1, Invariance, PTL

\* The refresh token in the row is one a rotating provider still takes, or its
\* successor is about to be stored or was lost (refresh, tokenRepository.set).
THEOREM KeepsNewest == Spec => []RowIsRedeemable
<1>1. IInv => RowIsRedeemable
  BY DEF IInv, Custody
<1> QED
  BY <1>1, Invariance, PTL

\* A link that reads completed has had its token stored
\* (exchangeAndStoreToken).
THEOREM StoresFirst == Spec => []CompletedWasStored
<1>1. IInv => CompletedWasStored
  BY DEF IInv
<1> QED
  BY <1>1, Invariance, PTL

\* A grant dropped while no request carried it does not come back (unlink,
\* deleteAllForOwner of tokens and links).
THEOREM StaysGone == Spec => []DroppedIsGone
<1>1. IInv => DroppedIsGone
  BY DEF IInv, Custody, GoneForGood, DroppedIsGone
<1> QED
  BY <1>1, Invariance, PTL

-----------------------------------------------------------------------------
(* LinkDialog.  Its invariant says what the dialog knows of its own try    *)
(* while nothing of an earlier one has come in: the link it waits for is   *)
(* the latest of all, a request that begins the flow is alone, and a poll  *)
(* that comes back is about that link.                                     *)

USE NoneAssumption, DialogBoundsAssumption

\* A link is the last one begun.
Latest(l) == link[l].status # "new" /\ \A m \in LinkIds : l < m => link[m].status = "new"

\* LinksFit are begun in their order; those that were not begun are nobody's.
InOrder ==
    \A l \in LinkIds :
        /\ link[l].status = "new" <=> link[l].provider = None
        /\ link[l].status = "new" => \A m \in LinkIds : l < m => link[m].status = "new"

\* A link whose token was stored has its provider granted.
StoredGrants ==
    \A l \in LinkIds : link[l].status \in {"stored", "completed"} =>
        l \in redeemed /\ link[l].provider \in token

\* A request belongs to a try that has begun and is about a provider; only one
\* that begins the flow brings a link.
InTime ==
    \A r \in Requests :
        /\ req[r].try <= tries
        /\ req[r].at # "idle" => req[r].provider \in Providers
        /\ req[r].at \in {"posting", "posted"} => req[r].kind = "begin"
        /\ req[r].at = "posted" => req[r].link \in LinkIds

\* A dialog that is closed has forgotten everything.
AtRest == ~dlg.open /\ ~mixed => dlg = Closed

\* The link is the latest of all, and of the provider the dialog is about.
IsCurrent(l) == l \in LinkIds /\ Latest(l) /\ link[l].provider = dlg.context

\* The link a dialog waits for is the latest.
OwnLink ==
    dlg.open /\ ~mixed =>
        /\ dlg.step = "initiating" => dlg.activeLink = NoLinkId
        /\ dlg.activeLink # NoLinkId => IsCurrent(dlg.activeLink)

\* A request of this try.
Own(r) == req[r].at # "idle" /\ req[r].try = tries

\* What a request of this try knows.  One that begins the flow is the only
\* one; a poll is about the link the dialog waits for.
Beginning(r) ==
    /\ dlg.step = "initiating" /\ dlg.submitting
    /\ \A s \in Requests : Own(s) => s = r
    /\ req[r].at = "posted" => IsCurrent(req[r].link)
Polling(r) ==
    /\ dlg.activeLink # NoLinkId
    /\ req[r].at = "read" =>
          /\ req[r].link = dlg.activeLink
          /\ req[r].status = "linked" => dlg.activeLink \in redeemed

\* The requests of this try, as long as no other has come in.
OwnRequests ==
    dlg.open /\ ~mixed =>
        \A r \in Requests : Own(r) =>
            /\ req[r].provider = dlg.context
            /\ IF req[r].kind = "begin" THEN Beginning(r) ELSE Polling(r)

\* A popup has been opened for a link.
PopupHasLink == popup = NoPopup \/ popup.link \in LinkIds

\* The invariant of LinkDialog.
DialogInv ==
    /\ DialogTypeOK /\ PopupHasLink /\ InOrder /\ StoredGrants /\ InTime
    /\ AtRest /\ OwnLink /\ OwnRequests /\ ErrorsAreOwn /\ PopupIsHeld

-----------------------------------------------------------------------------
(* The dialog, its requests and the links.                                 *)

Dialog == [open: BOOLEAN, step: {"initiating", "waiting", "error"},
           context: Providers \cup {None}, submitting: BOOLEAN, onLinked: BOOLEAN,
           completing: BOOLEAN, authWindow: BOOLEAN, url: 0..MaxLinks,
           activeLink: 0..MaxLinks, linkedAtStart: BOOLEAN, sawPending: BOOLEAN]
Points == {"idle", "asked", "torn", "read", "posting", "posted", "completing"}
Request == [at: Points, kind: {"begin", "poll"}, provider: Providers \cup {None},
            try: 0..MaxTries, grant: BOOLEAN,
            status: {"not_linked", "pending", "failed", "linked"},
            link: 0..MaxLinks]
Popup == [link: 0..MaxLinks, page: {"provider", "callback", "refused"}]
Row == [status: {"new", "pending", "called", "stored", "completed", "failed"},
        provider: Providers \cup {None}]

\* A dialog that is well-formed: one that waits has a link and its url.
IsDialog(d) ==
    /\ d \in Dialog
    /\ d.open <=> d.context # None
    /\ d.step = "waiting" => d.activeLink # NoLinkId /\ d.url = d.activeLink

\* The types, named.
Typed ==
    /\ IsDialog(dlg)
    /\ req \in [Requests -> Request]
    /\ popup \in Popup
    /\ link \in [LinkIds -> Row]
    /\ token \subseteq Providers
    /\ posted \subseteq [link: LinkIds, ok: BOOLEAN]
    /\ tries \in 0..MaxTries /\ cause \in 0..MaxLinks /\ redeemed \subseteq LinkIds
    /\ mixed \in BOOLEAN /\ strayed \in BOOLEAN

LEMMA DialogTypes == DialogTypeOK <=> Typed
  BY DEF DialogTypeOK, Typed, IsDialog, Dialog, Request, Points, Popup, Row

\* The initial values have the types.
LEMMA ConstantsTyped ==
    /\ IsDialog(Closed) /\ Closed.open = FALSE
    /\ Idle \in Request /\ Idle.at = "idle" /\ Idle.try = 0
    /\ NoPopup \in Popup
    /\ NoLinkId \notin LinkIds /\ NoLinkId \in 0..MaxLinks /\ LinkIds \subseteq 0..MaxLinks
<1>1. 0 \in 0..MaxLinks /\ 0 \in 0..MaxTries
  BY DEF DialogBoundsAssumption
<1>2. IsDialog(Closed) /\ Closed.open = FALSE
  BY <1>1 DEF IsDialog, Closed, Dialog, NoLinkId
<1>3. Idle \in Request /\ Idle.at = "idle" /\ Idle.try = 0
  BY <1>1 DEF Idle, Request, Points, NoLinkId
<1>4. NoPopup \in Popup
  BY <1>1 DEF NoPopup, Popup, NoLinkId
<1>5. NoLinkId \notin LinkIds /\ NoLinkId \in 0..MaxLinks /\ LinkIds \subseteq 0..MaxLinks
  BY <1>1 DEF NoLinkId, LinkIds, DialogBoundsAssumption
<1> QED BY <1>2, <1>3, <1>4, <1>5

\* What openAuthWindow leaves is well-formed.
LEMMA WindowTypes ==
    ASSUME Typed, NEW l \in LinkIds, NEW d, IsDialog(d),
           d.activeLink = l, openAuthWindow(l, d)
    PROVE  /\ IsDialog(dlg') /\ popup' \in Popup /\ strayed' \in BOOLEAN
           /\ cause' \in 0..MaxLinks
<1> USE ConstantsTyped DEF Typed
<1>1. CASE dlg' = [d EXCEPT !.url = l, !.authWindow = TRUE]
           /\ popup' = [link |-> l, page |-> "provider"]
           /\ strayed' = FALSE /\ UNCHANGED cause
  BY <1>1 DEF IsDialog, Dialog, Popup
<1>2. CASE dlg' = [d EXCEPT !.url = l, !.step = "error"] /\ cause' = NoLinkId /\ UNCHANGED strayed
           /\ popup' = IF dlg.authWindow THEN NoPopup ELSE popup
  BY <1>2 DEF IsDialog, Dialog
<1> QED BY <1>1, <1>2 DEF openAuthWindow

\* The operator keeps the types.
LEMMA OperateTypes == Typed /\ Operate => Typed'
<1> SUFFICES ASSUME Typed, Operate PROVE Typed'
  OBVIOUS
<1> USE ConstantsTyped DEF Typed
<1>1. ASSUME NEW p \in Providers, OpenLink(p) PROVE Typed'
  <2>1. IsDialog(dlg')
    <3>1. IsDialog(Closed) /\ dlg.completing \in BOOLEAN
      BY DEF IsDialog, Dialog
    <3>2. Closed.step = "initiating" /\ p # None
      BY DEF Closed
    <3> QED BY <1>1, <3>1, <3>2 DEF OpenLink, IsDialog, Dialog
  <2>2. tries' \in 0..MaxTries
    BY <1>1 DEF OpenLink, DialogBoundsAssumption
  <2> QED BY <1>1, <2>1, <2>2 DEF OpenLink, torii
<1>2. CASE Cancel
  BY <1>2 DEF Cancel, close, torii, history
<1>3. CASE Retry
  <2>1. IsDialog(dlg')
    BY <1>3 DEF Retry, IsDialog, Dialog, NoLinkId
  <2>2. tries' \in 0..MaxTries
    BY <1>3 DEF Retry, DialogBoundsAssumption
  <2> QED BY <1>3, <2>1, <2>2 DEF Retry, torii
<1>4. CASE Reopen
  <2>1. dlg.url \in LinkIds /\ dlg.activeLink = dlg.url
    BY <1>4 DEF Reopen, DialogWaits, IsDialog, Dialog, LinkIds, NoLinkId
  <2> QED BY <1>4, <2>1, WindowTypes DEF Reopen, torii
<1>5. CASE Consent
  <2>1. popup' \in Popup
    BY <1>5 DEF Consent, Popup
  <2>2. link' \in [LinkIds -> Row]
    BY <1>5 DEF Consent, Row
  <2> QED BY <1>5, <2>1, <2>2 DEF Consent, history
<1>6. CASE Deny
  <2>1. popup' \in Popup
    BY <1>6 DEF Deny, Popup
  <2>2. link' \in [LinkIds -> Row]
    BY <1>6 DEF Deny, Row
  <2> QED BY <1>6, <2>1, <2>2 DEF Deny, history
<1>7. CASE ClosePopup
  BY <1>7 DEF ClosePopup, torii
<1> QED BY <1>1, <1>2, <1>3, <1>4, <1>5, <1>6, <1>7 DEF Operate

\* A request asks.
LEMMA AskTypes ==
    ASSUME Typed, NEW r \in Requests, NEW kind \in {"begin", "poll"}, Ask(r, kind)
    PROVE  req' \in [Requests -> Request]
  BY ConstantsTyped DEF Typed, Ask, Idle, Request, Points, IsDialog, Dialog

\* A request goes on.
LEMMA GoesOn ==
    ASSUME NEW q \in Request, NEW at \in Points, NEW l \in 0..MaxLinks
    PROVE  /\ \A g \in BOOLEAN : [q EXCEPT !.at = at, !.grant = g] \in Request
           /\ [q EXCEPT !.at = at, !.link = l] \in Request
           /\ \A s \in {"not_linked", "pending", "failed", "linked"} :
                 [q EXCEPT !.at = at, !.link = l, !.status = s] \in Request
  BY DEF Request, Points

\* One request of the table changes.
LEMMA GoesOnTypes ==
    ASSUME NEW reqs \in [Requests -> Request], NEW r \in Requests, NEW q \in Request
    PROVE  [reqs EXCEPT ![r] = q] \in [Requests -> Request]
  OBVIOUS

\* The first number of a set of links, and the last.
LEMMA FirstAndLast ==
    ASSUME NEW S \in SUBSET LinkIds, S # {}
    PROVE  /\ Min(S) \in S /\ \A l \in S : Min(S) <= l
           /\ Max(S) \in S /\ \A l \in S : l <= Max(S)
<1>1. S \subseteq Nat /\ \A l \in S : l <= MaxLinks /\ l \in Nat
  BY DEF LinkIds, DialogBoundsAssumption
<1>2. ASSUME NEW T \in SUBSET Nat, T # {}
      PROVE  \E least \in T : \A l \in T : least <= l
  <2>1. PICK least \in T : \A l \in T : ~(<<l, least>> \in OpToRel(<, Nat))
    BY <1>2, NatLessThanWellFounded, WFMin
  <2>2. ASSUME NEW l \in T PROVE least <= l
    <3>1. l \in Nat /\ least \in Nat /\ ~(l < least)
      BY <2>1 DEF OpToRel
    <3> QED BY <3>1
  <2> QED BY <2>2
<1>3. Min(S) \in S /\ \A l \in S : Min(S) <= l
  <2>1. \E x \in S : \A l \in S : x <= l
    BY <1>1, <1>2
  <2>2. Min(S) = CHOOSE x \in S : \A l \in S : x <= l
    BY DEF Min
  <2> QED BY <2>1, <2>2
<1>4. Max(S) \in S /\ \A l \in S : l <= Max(S)
  <2> DEFINE T == {MaxLinks - l : l \in S}
  <2>1. T \in SUBSET Nat /\ T # {}
    <3>1. \A l \in S : MaxLinks - l \in Nat
      BY <1>1 DEF DialogBoundsAssumption
    <3> QED BY <3>1
  <2>2. PICK least \in T : \A k \in T : least <= k
    BY <2>1, <1>2
  <2>3. PICK last \in S : least = MaxLinks - last
    BY <2>2
  <2>4. ASSUME NEW l \in S PROVE l <= last
    <3>1. least <= MaxLinks - l
      BY <2>2
    <3> QED BY <1>1, <2>3, <3>1 DEF DialogBoundsAssumption
  <2>5. \E x \in S : \A l \in S : x >= l
    BY <1>1, <2>4
  <2>6. Max(S) = CHOOSE x \in S : \A l \in S : x >= l
    BY DEF Max
  <2> QED BY <1>1, <2>5, <2>6
<1> QED BY <1>3, <1>4

\* The latest link of a provider is one of its links, if it has one.
LEMMA LatestTypes ==
    ASSUME NEW p
    PROVE  GetLatest(p) \in Of(p) \cup {NoLinkId} /\ GetLatest(p) \in 0..MaxLinks
<1>1. Of(p) \in SUBSET LinkIds
  BY DEF Of
<1> QED BY <1>1, FirstAndLast, ConstantsTyped DEF GetLatest

\* The requests of the hook keep the types.
LEMMA RequestTypes ==
    ASSUME Typed, InTime, NEW r \in Requests,
           \/ Begin(r) \/ BeginFails(r) \/ Answered(r)
           \/ Poll(r) \/ PollAnswers(r) \/ PollFails(r)
    PROVE  Typed'
<1> USE ConstantsTyped DEF Typed
<1>1. ASSUME Done(r) PROVE req' \in [Requests -> Request]
  BY <1>1 DEF Done
<1>2. ASSUME Late(r) PROVE mixed' \in BOOLEAN
  BY <1>2 DEF Late
<1>3. IsDialog(dlg) /\ dlg \in Dialog /\ req[r] \in Request
  BY DEF IsDialog
<1>4. CASE Begin(r)
  <2>1. IsDialog(dlg')
    BY <1>4 DEF Begin, IsDialog, Dialog
  <2> QED BY <1>4, <2>1, AskTypes DEF Begin, torii, history
<1>5. CASE BeginFails(r)
  <2>1. IsDialog(dlg')
    BY <1>5 DEF BeginFails, IsDialog, Dialog
  <2> QED BY <1>1, <1>2, <1>5, <2>1 DEF BeginFails, torii
<1>6. CASE ReadGrants(r)
  <2>1. req' \in [Requests -> Request]
    <3> DEFINE g == req[r].provider \in token
    <3>1. g \in BOOLEAN /\ "torn" \in Points
      BY DEF Points
    <3>2. req' = [req EXCEPT ![r] = [req[r] EXCEPT !.at = "torn", !.grant = g]]
      BY <1>6 DEF ReadGrants
    <3> HIDE DEF g
    <3> QED BY <1>3, <3>1, <3>2, GoesOn, GoesOnTypes
  <2> QED BY <1>6, <2>1 DEF ReadGrants, torii, history
<1>7. CASE ReadLatest(r)
  <2> DEFINE l == GetLatest(req[r].provider)
  <2>1. /\ l \in 0..MaxLinks
        /\ DeriveStatus(req[r].grant, l) \in {"not_linked", "pending", "failed", "linked"}
    BY LatestTypes DEF DeriveStatus
  <2>2. req' = [req EXCEPT ![r] = [@ EXCEPT !.at = "read", !.link = l,
                                             !.status = DeriveStatus(req[r].grant, l)]]
    BY <1>7 DEF ReadLatest
  <2> HIDE DEF l
  <2>3. req' \in [Requests -> Request]
    BY <1>3, <2>1, <2>2, GoesOn, GoesOnTypes DEF Points
  <2> QED BY <1>7, <2>3 DEF ReadLatest, torii, history
<1>8. CASE BeginStatus(r)
  <2>1. IsDialog(dlg')
    BY <1>8 DEF BeginStatus, IsDialog, Dialog
  <2>2. req' \in [Requests -> Request]
    BY <1>3, <1>8, GoesOn, GoesOnTypes DEF BeginStatus, Points
  <2> QED BY <1>2, <1>8, <2>1, <2>2 DEF BeginStatus, torii
<1>9. CASE CreateLink(r)
  <2> DEFINE unused == {l \in LinkIds : link[l].status = "new"}
  <2>1. Min(unused) \in LinkIds
    BY <1>9, FirstAndLast DEF CreateLink
  <2>2. link' \in [LinkIds -> Row]
    BY <1>3, <1>9, <2>1 DEF CreateLink, Row, Request
  <2>3. req' \in [Requests -> Request]
    BY <1>3, <1>9, <2>1, GoesOn, GoesOnTypes DEF CreateLink, Points
  <2> QED BY <1>9, <2>2, <2>3 DEF CreateLink
<1>10. CASE BeginOpens(r)
  <2> DEFINE d == [dlg EXCEPT !.activeLink = req[r].link, !.step = "waiting", !.submitting = FALSE]
  <2>1. req[r].link \in LinkIds
    BY <1>10 DEF BeginOpens, InTime
  <2>2. openAuthWindow(req[r].link, d) /\ Done(r) /\ Late(r) /\ UNCHANGED <<torii, posted, tries>>
    BY <1>10 DEF BeginOpens
  <2>3. IsDialog([d EXCEPT !.url = req[r].link]) /\ d.activeLink = req[r].link
    BY <1>3, <2>1 DEF IsDialog, Dialog
  <2>4. openAuthWindow(req[r].link, [d EXCEPT !.url = req[r].link])
    BY <1>3, <2>2 DEF openAuthWindow, Dialog
  <2>5. IsDialog(dlg') /\ popup' \in Popup /\ strayed' \in BOOLEAN /\ cause' \in 0..MaxLinks
    BY <1>3, <2>1, <2>3, <2>4, WindowTypes DEF Dialog
  <2> QED BY <1>1, <1>2, <2>2, <2>5 DEF torii
<1>11. CASE FlowEnds(r)
  BY <1>1, <1>2, <1>11 DEF FlowEnds, close, torii
<1>12. CASE Poll(r)
  BY <1>12, AskTypes DEF Poll, torii, history
<1>13. CASE PollFails(r)
  BY <1>1, <1>13 DEF PollFails, torii, history
<1>14. CASE PollAnswers(r)
  <2>1. UNCHANGED <<torii, posted, tries, strayed>> /\ mixed' \in BOOLEAN
    BY <1>2, <1>14 DEF PollAnswers
  <2>2. CASE /\ dlg' = [dlg EXCEPT !.completing = TRUE, !.onLinked = FALSE, !.authWindow = FALSE]
             /\ popup' = IF dlg.authWindow THEN NoPopup ELSE popup
             /\ req' = [req EXCEPT ![r].at = "completing"]
             /\ UNCHANGED cause
    <3>1. IsDialog(dlg')
      BY <2>2 DEF IsDialog, Dialog
    <3>2. req' \in [Requests -> Request]
      BY <2>2 DEF Request, Points
    <3> QED BY <2>1, <2>2, <3>1, <3>2 DEF torii
  <2>3. CASE close /\ Done(r) /\ UNCHANGED cause
    BY <1>1, <2>1, <2>3 DEF close, torii
  <2> DEFINE saw == dlg.sawPending \/ req[r].status = "pending"
  <2>4. CASE /\ dlg' = [dlg EXCEPT !.sawPending = saw,
                                   !.step = IF req[r].status = "failed" THEN "error" ELSE @]
             /\ cause' = IF req[r].status = "failed" THEN req[r].link ELSE cause
             /\ Done(r) /\ UNCHANGED popup
    <3>1. saw \in BOOLEAN
      OBVIOUS
    <3> HIDE DEF saw
    <3>2. IsDialog(dlg')
      <4>1. CASE req[r].status = "failed"
        BY <1>3, <2>4, <3>1, <4>1 DEF IsDialog, Dialog
      <4>2. CASE req[r].status # "failed"
        <5>1. dlg' = [dlg EXCEPT !.sawPending = saw]
          BY <1>3, <2>4, <4>2 DEF Dialog
        <5> QED BY <1>3, <3>1, <5>1 DEF IsDialog, Dialog
      <4> QED BY <4>1, <4>2
    <3>3. cause' \in 0..MaxLinks
      BY <1>3, <2>4 DEF Request
    <3> QED BY <1>1, <2>1, <2>4, <3>2, <3>3 DEF torii
  <2> QED BY <1>14, <2>2, <2>3, <2>4 DEF PollAnswers
<1> QED BY <1>4, <1>5, <1>6, <1>7, <1>8, <1>9, <1>10, <1>11, <1>12, <1>13, <1>14 DEF Answered

\* Torii and its messages keep the types.
LEMMA ToriiTypes ==
    ASSUME Typed, InOrder, PopupHasLink,
           \/ \E l \in LinkIds : StoreToken(l) \/ LinkCompletes(l)
           \/ PageLoads
           \/ \E m \in posted : DeliverMessage(m)
    PROVE  Typed'
<1> USE ConstantsTyped DEF Typed
<1>1. ASSUME NEW l \in LinkIds, StoreToken(l) PROVE Typed'
  <2>1. link' \in [LinkIds -> Row]
    BY <1>1 DEF StoreToken, Row
  <2>2. token' \subseteq Providers
    <3>1. link[l].status = "called" /\ link[l] \in Row /\ link[l].provider # None
      BY <1>1 DEF StoreToken, InOrder
    <3>2. link[l].provider \in Providers
      BY <3>1 DEF Row
    <3> QED BY <1>1, <3>2 DEF StoreToken
  <2>3. redeemed' \subseteq LinkIds
    BY <1>1 DEF StoreToken
  <2> QED BY <1>1, <2>1, <2>2, <2>3 DEF StoreToken, history
<1>2. ASSUME NEW l \in LinkIds, LinkCompletes(l) PROVE Typed'
  <2>1. link' \in [LinkIds -> Row]
    BY <1>2 DEF LinkCompletes, Row
  <2> QED BY <1>2, <2>1 DEF LinkCompletes, history
<1>3. CASE PageLoads
  <2>1. popup.link \in LinkIds
    BY <1>3 DEF PageLoads, PopupHasLink
  <2>2. posted' \subseteq [link: LinkIds, ok: BOOLEAN]
    <3> DEFINE ok == popup.page = "callback" /\ link[popup.link].status = "completed"
    <3>1. [link |-> popup.link, ok |-> ok] \in [link: LinkIds, ok: BOOLEAN]
      BY <2>1
    <3>2. posted' \in {posted, posted \cup {[link |-> popup.link, ok |-> ok]}}
      BY <1>3 DEF PageLoads
    <3> QED BY <3>1, <3>2
  <2> QED BY <1>3, <2>2 DEF PageLoads, torii
<1>4. ASSUME NEW m \in posted, DeliverMessage(m) PROVE Typed'
  <2>1. m \in [link: LinkIds, ok: BOOLEAN] /\ m.link \in 0..MaxLinks
    OBVIOUS
  <2>2. CASE UNCHANGED <<dlg, req, cause>>
    BY <1>4, <2>2 DEF DeliverMessage, torii
  <2>3. CASE dlg' = [dlg EXCEPT !.step = "error"] /\ cause' = m.link /\ UNCHANGED req
    <3>1. IsDialog(dlg')
      BY <2>3 DEF IsDialog, Dialog
    <3> QED BY <1>4, <2>1, <2>3, <3>1 DEF DeliverMessage, torii
  <2>4. CASE /\ dlg' = [dlg EXCEPT !.sawPending = TRUE]
             /\ \E r \in Requests : Ask(r, "poll")
             /\ UNCHANGED cause
    <3>1. IsDialog(dlg')
      BY <2>4 DEF IsDialog, Dialog
    <3>2. req' \in [Requests -> Request]
      BY <2>4, AskTypes
    <3> QED BY <1>4, <2>4, <3>1, <3>2 DEF DeliverMessage, torii
  <2> QED BY <1>4, <2>2, <2>3, <2>4 DEF DeliverMessage
<1> QED BY <1>1, <1>2, <1>3, <1>4

-----------------------------------------------------------------------------
(* The links.                                                              *)

\* No link is begun or changes its provider, and no token is forgotten.
LinksStand ==
    /\ \A l \in LinkIds : /\ link'[l].provider = link[l].provider
                          /\ link'[l].status = "new" <=> link[l].status = "new"
    /\ redeemed \subseteq redeemed'

\* The status of one link changes.
LEMMA StatusChanges ==
    ASSUME Typed, InOrder, StoredGrants, NEW l \in LinkIds, link[l].status # "new",
           NEW status, status # "new", link' = [link EXCEPT ![l].status = status],
           redeemed \subseteq redeemed', token \subseteq token',
           status \in {"stored", "completed"} =>
               l \in redeemed' /\ link[l].provider \in token'
    PROVE  InOrder' /\ StoredGrants' /\ LinksStand
<1>1. /\ link'[l].status = status
      /\ \A m \in LinkIds : /\ link'[m].provider = link[m].provider
                            /\ m # l => link'[m].status = link[m].status
  BY DEF Typed, Row
<1> QED BY <1>1 DEF InOrder, StoredGrants, LinksStand

\* Of the steps that leave requests alone, none begins a link.
LEMMA LinksOfTorii ==
    ASSUME Typed, InOrder, StoredGrants, PopupHasLink,
           \/ \E l \in LinkIds : StoreToken(l) \/ LinkCompletes(l)
           \/ Consent \/ Deny
    PROVE  InOrder' /\ StoredGrants' /\ LinksStand
<1>1. ASSUME NEW l \in LinkIds, StoreToken(l)
      PROVE  InOrder' /\ StoredGrants' /\ LinksStand
  <2>1. CASE /\ link' = [link EXCEPT ![l].status = "stored"]
             /\ token' = token \cup {link[l].provider}
             /\ redeemed' = redeemed \cup {l}
    BY <1>1, <2>1, StatusChanges DEF StoreToken
  <2>2. CASE link' = [link EXCEPT ![l].status = "failed"] /\ UNCHANGED <<token, redeemed>>
    BY <1>1, <2>2, StatusChanges DEF StoreToken
  <2> QED BY <1>1, <2>1, <2>2 DEF StoreToken
<1>2. ASSUME NEW l \in LinkIds, LinkCompletes(l)
      PROVE  InOrder' /\ StoredGrants' /\ LinksStand
  <2>1. link[l].status = "stored" /\ UNCHANGED <<token, redeemed>>
    BY <1>2 DEF LinkCompletes
  <2>2. l \in redeemed /\ link[l].provider \in token
    BY <2>1 DEF StoredGrants
  <2>3. PICK status \in {"completed", "failed"} : link' = [link EXCEPT ![l].status = status]
    BY <1>2 DEF LinkCompletes
  <2> QED BY <2>1, <2>2, <2>3, StatusChanges
<1>3. CASE Consent \/ Deny
  <2> DEFINE l == popup.link
  <2>1. l \in LinkIds /\ UNCHANGED <<token, redeemed>>
    BY <1>3 DEF Consent, Deny, PopupHasLink
  <2>2. CASE /\ link[l].status # "new"
             /\ \E status \in {"called", "failed"} : link' = [link EXCEPT ![l].status = status]
    <3>1. PICK status \in {"called", "failed"} : link' = [link EXCEPT ![l].status = status]
      BY <2>2
    <3> HIDE DEF l
    <3> QED BY <2>1, <2>2, <3>1, StatusChanges
  <2>3. CASE UNCHANGED link
    BY <2>1, <2>3 DEF InOrder, StoredGrants, LinksStand
  <2> QED BY <1>3, <2>2, <2>3 DEF Consent, Deny, Settled
<1> QED BY <1>1, <1>2, <1>3

\* A link that is begun becomes the latest.
LEMMA LinkBegins ==
    ASSUME Typed, InOrder, StoredGrants, InTime, NEW r \in Requests, CreateLink(r)
    PROVE  /\ InOrder' /\ StoredGrants'
           /\ \E l \in LinkIds : /\ req'[r].link = l /\ Latest(l)'
                                 /\ link'[l].provider = req[r].provider
<1> DEFINE unused == {l \in LinkIds : link[l].status = "new"}
<1>1. /\ unused # {}
      /\ link' = [link EXCEPT ![Min(unused)] =
                      [status |-> "pending", provider |-> req[r].provider]]
      /\ req' = [req EXCEPT ![r] = [@ EXCEPT !.at = "posted", !.link = Min(unused)]]
      /\ UNCHANGED <<token, redeemed>> /\ req[r].at = "posting"
  BY DEF CreateLink
<1>2. Min(unused) \in unused /\ \A l \in unused : Min(unused) <= l
  BY <1>1, FirstAndLast
<1>3. PICK first \in unused : first = Min(unused)
  BY <1>2
<1>4. /\ first \in LinkIds /\ link[first].status = "new"
      /\ \A l \in LinkIds : link[l].status = "new" => first <= l
  BY <1>2, <1>3
<1>5. req'[r].link = first /\ req[r].provider \in Providers
  <2>1. req[r].provider \in Providers
    BY <1>1 DEF InTime
  <2>2. req' = [req EXCEPT ![r] = [@ EXCEPT !.at = "posted", !.link = first]]
    BY <1>1, <1>3
  <2> HIDE DEF unused
  <2> QED BY <2>1, <2>2 DEF Typed, Request
<1>6. link' = [link EXCEPT ![first] = [status |-> "pending", provider |-> req[r].provider]]
  BY <1>1, <1>3
<1> HIDE DEF unused
<1>7. /\ link'[first].status = "pending" /\ link'[first].provider = req[r].provider
      /\ \A m \in LinkIds \ {first} : link'[m] = link[m]
  BY <1>4, <1>6 DEF Typed
<1>8. \A m \in LinkIds : m \in Nat
  BY DEF LinkIds
<1>9. \A m \in LinkIds : first < m => link'[m].status = "new"
  BY <1>4, <1>7, <1>8 DEF InOrder
<1>10. InOrder'
  <2>1. ASSUME NEW l \in LinkIds
        PROVE  link'[l].status = "new" <=> link'[l].provider = None
    BY <1>5, <1>7 DEF InOrder
  <2>2. ASSUME NEW l \in LinkIds, link'[l].status = "new", NEW m \in LinkIds, l < m
        PROVE  link'[m].status = "new"
    <3>1. l # first /\ link[l].status = "new"
      BY <1>7, <2>2
    <3>2. first < m
      BY <1>4, <1>8, <2>2, <3>1
    <3> QED BY <1>9, <3>2
  <2> QED BY <2>1, <2>2 DEF InOrder
<1>11. StoredGrants'
  BY <1>1, <1>7 DEF StoredGrants
<1>12. Latest(first)'
  BY <1>7, <1>9 DEF Latest
<1> QED BY <1>4, <1>5, <1>7, <1>10, <1>11, <1>12

\* The requests stay in time.
LEMMA AskInTime ==
    ASSUME Typed, InTime, NEW r \in Requests, NEW kind, Ask(r, kind),
           dlg.context \in Providers, UNCHANGED tries
    PROVE  InTime'
<1>1. req'[r] = [Idle EXCEPT !.at = "asked", !.kind = kind, !.provider = dlg.context, !.try = tries]
      /\ \A s \in Requests \ {r} : req'[s] = req[s]
  BY DEF Ask, Typed
<1>2. req'[r].at = "asked" /\ req'[r].provider = dlg.context /\ req'[r].try = tries
  BY <1>1 DEF Idle
<1>3. tries' <= tries'
  BY DEF Typed
<1>4. ASSUME NEW s \in Requests
      PROVE  /\ req'[s].try <= tries'
             /\ req'[s].at # "idle" => req'[s].provider \in Providers
             /\ req'[s].at \in {"posting", "posted"} => req'[s].kind = "begin"
             /\ req'[s].at = "posted" => req'[s].link \in LinkIds
  <2>1. CASE s = r
    BY <1>2, <1>3, <2>1
  <2>2. CASE s # r
    BY <1>1, <2>2 DEF InTime
  <2> QED BY <2>1, <2>2
<1> QED BY <1>4 DEF InTime

\* No request changes, and a try may begin.
LEMMA TriesOn ==
    ASSUME Typed, InTime, UNCHANGED req, tries' \in {tries, tries + 1}
    PROVE  InTime'
  BY DEF InTime, Typed, Request

\* One request goes on or ends.
LEMMA RequestInTime ==
    ASSUME Typed, InTime, NEW r \in Requests, UNCHANGED tries,
           \A s \in Requests \ {r} : req'[s] = req[s],
           \/ req'[r] = Idle
           \/ /\ req'[r].try = req[r].try /\ req'[r].provider = req[r].provider
              /\ req[r].at # "idle"
              /\ req'[r].at \in {"posting", "posted"} => req'[r].kind = "begin"
              /\ req'[r].at = "posted" => req'[r].link \in LinkIds
    PROVE  InTime'
  BY ConstantsTyped DEF InTime, Typed

\* Every step keeps the requests in time.
LEMMA NextInTime == Typed /\ InOrder /\ StoredGrants /\ InTime /\ [DialogNext]_dialogVars => InTime'
<1> SUFFICES ASSUME Typed, InOrder, StoredGrants, InTime, [DialogNext]_dialogVars PROVE InTime'
  OBVIOUS
<1> USE RequestInTime DEF Typed
<1>1. CASE Operate \/ UNCHANGED dialogVars \/ PageLoads
  BY <1>1, TriesOn DEF Operate, OpenLink, Cancel, Retry, Reopen, Consent, Deny, ClosePopup,
     PageLoads, history, dialogVars
<1>2. ASSUME NEW l \in LinkIds, StoreToken(l) \/ LinkCompletes(l) PROVE InTime'
  BY <1>2, TriesOn DEF StoreToken, LinkCompletes, history
<1>3. ASSUME dlg.open PROVE dlg.context \in Providers
  BY <1>3 DEF IsDialog, Dialog
<1>4. ASSUME NEW m \in posted, DeliverMessage(m) PROVE InTime'
  <2>1. CASE UNCHANGED req
    BY <1>4, <2>1, TriesOn DEF DeliverMessage
  <2>2. CASE (\E r \in Requests : Ask(r, "poll")) /\ Concerns(m)
    BY <1>3, <1>4, <2>2, AskInTime DEF DeliverMessage, Concerns, DialogWaits
  <2> QED BY <1>4, <2>1, <2>2 DEF DeliverMessage
<1>5. ASSUME NEW r \in Requests, \/ Begin(r) \/ BeginFails(r) \/ Answered(r)
                                 \/ Poll(r) \/ PollAnswers(r) \/ PollFails(r)
      PROVE  InTime'
  <2>1. CASE Begin(r) \/ Poll(r)
    BY <1>3, <2>1, AskInTime DEF Begin, Poll, DialogWaits, history
  <2>2. ASSUME Done(r), UNCHANGED tries PROVE InTime'
    BY <2>2 DEF Done
  <2>3. CASE BeginFails(r) \/ PollFails(r) \/ FlowEnds(r) \/ BeginOpens(r)
    BY <2>2, <2>3 DEF BeginFails, PollFails, FlowEnds, BeginOpens, history
  <2>4. req[r] \in Request
    OBVIOUS
  <2>5. CASE ReadGrants(r)
    BY <2>4, <2>5 DEF ReadGrants, Request, history
  <2>6. CASE ReadLatest(r)
    BY <2>4, <2>6 DEF ReadLatest, Request, history
  <2>7. CASE BeginStatus(r)
    BY <2>4, <2>7 DEF BeginStatus, Request
  <2>8. CASE CreateLink(r)
    <3>1. req'[r].link \in LinkIds
      BY <2>8, LinkBegins
    <3>2. /\ req'[r].at = "posted" /\ req'[r].kind = req[r].kind
          /\ req'[r].try = req[r].try /\ req'[r].provider = req[r].provider
          /\ \A s \in Requests \ {r} : req'[s] = req[s]
          /\ req[r].at = "posting" /\ UNCHANGED tries
      BY <2>4, <2>8 DEF CreateLink, Request
    <3> QED BY <3>1, <3>2 DEF InTime
  <2>9. CASE PollAnswers(r)
    BY <2>2, <2>4, <2>9 DEF PollAnswers, Request
  <2> QED BY <1>5, <2>1, <2>3, <2>5, <2>6, <2>7, <2>8, <2>9 DEF Answered
<1> QED BY <1>1, <1>2, <1>4, <1>5 DEF DialogNext

-----------------------------------------------------------------------------
(* The dialog and the requests of its try.                                 *)

\* What the dialog knows of its own try.
Core == AtRest /\ OwnLink /\ OwnRequests /\ ErrorsAreOwn

\* The link a dialog waits for stays current as long as no link is begun.
LEMMA StaysCurrent ==
    ASSUME LinksStand, UNCHANGED dlg, NEW l, IsCurrent(l)
    PROVE  IsCurrent(l)'
  BY DEF LinksStand, IsCurrent, Latest

\* What the provider's latest link is, when the dialog knows the latest of all.
LEMMA LatestIsCurrent ==
    ASSUME Typed, InOrder, NEW l, IsCurrent(l)
    PROVE  GetLatest(dlg.context) = l
<1>1. l \in Of(dlg.context) /\ dlg.context # None
  BY DEF IsCurrent, Latest, Of, InOrder
<1>2. ASSUME NEW m \in Of(dlg.context) PROVE ~(l < m)
  <2>1. m \in LinkIds /\ link[m].status # "new"
    BY <1>1 DEF Of, InOrder
  <2> QED BY <2>1 DEF IsCurrent, Latest
<1>3. /\ Max(Of(dlg.context)) \in Of(dlg.context)
      /\ \A m \in Of(dlg.context) : m <= Max(Of(dlg.context))
  <2>1. Of(dlg.context) \in SUBSET LinkIds
    BY DEF Of
  <2> QED BY <1>1, <2>1, FirstAndLast
<1>4. PICK last \in Of(dlg.context) : last = Max(Of(dlg.context))
  BY <1>3
<1>5. l \in Nat /\ last \in Nat
  BY <1>1 DEF Of, LinkIds
<1>6. l <= last /\ ~(l < last)
  BY <1>1, <1>2, <1>3, <1>4
<1>7. last = l
  BY <1>5, <1>6
<1> QED BY <1>1, <1>4, <1>7 DEF GetLatest

\* Nothing happens to the dialog, and one request goes on or ends.
LEMMA OneGoesOn ==
    ASSUME Typed, Core, LinksStand, UNCHANGED <<dlg, tries, mixed, cause>>,
           NEW r \in Requests, \A s \in Requests \ {r} : req'[s] = req[s],
           \/ req'[r].at = "idle"
           \/ /\ req[r].at # "idle"
              /\ req'[r].try = req[r].try /\ req'[r].provider = req[r].provider
              /\ req'[r].kind = req[r].kind
              /\ req'[r].at = "posted" => req'[r] = req[r]
              /\ req'[r].at = "read" =>
                    \/ req'[r] = req[r]
                    \/ IsCurrent(dlg.activeLink) /\ req[r].provider = dlg.context =>
                           /\ req'[r].link = dlg.activeLink
                           /\ req'[r].status = "linked" => dlg.activeLink \in redeemed
    PROVE  Core'
<1>1. AtRest' /\ ErrorsAreOwn'
  BY DEF Core, AtRest, ErrorsAreOwn
<1>2. OwnLink'
  BY StaysCurrent DEF Core, OwnLink
<1>3. OwnRequests'
  <2> SUFFICES ASSUME dlg.open, ~mixed, NEW s \in Requests, Own(s)'
               PROVE  /\ req'[s].provider = dlg.context
                      /\ IF req'[s].kind = "begin" THEN Beginning(s)' ELSE Polling(s)'
    BY DEF OwnRequests
  <2>1. Own(s) /\ req'[s].provider = req[s].provider /\ req'[s].kind = req[s].kind
    BY DEF Own
  <2>2. req[s].provider = dlg.context /\ IF req[s].kind = "begin" THEN Beginning(s) ELSE Polling(s)
    BY <2>1 DEF Core, OwnRequests
  <2>3. CASE req[s].kind = "begin"
    <3>1. \A t \in Requests : Own(t)' => Own(t)
      BY DEF Own
    <3>2. req'[s].at = "posted" => req'[s].link = req[s].link /\ req[s].at = "posted"
      OBVIOUS
    <3> QED BY <2>1, <2>2, <2>3, <3>1, <3>2, StaysCurrent DEF Beginning
  <2>4. CASE req[s].kind # "begin"
    <3>1. Polling(s)
      BY <2>2, <2>4
    <3>2. dlg.activeLink # NoLinkId /\ IsCurrent(dlg.activeLink)
      BY <3>1 DEF Core, OwnLink, Polling
    <3>3. redeemed \subseteq redeemed'
      BY DEF LinksStand
    <3> QED BY <2>1, <2>2, <2>4, <3>1, <3>2, <3>3 DEF Polling
  <2> QED BY <2>3, <2>4
<1> QED BY <1>1, <1>2, <1>3 DEF Core

\* Nothing happens to the dialog or to the requests.
LEMMA NoneGoesOn ==
    ASSUME Typed, Core, LinksStand, UNCHANGED <<dlg, req, tries, mixed, cause>>
    PROVE  Core'
<1>1. AtRest' /\ ErrorsAreOwn'
  BY DEF Core, AtRest, ErrorsAreOwn
<1>2. OwnLink'
  BY StaysCurrent DEF Core, OwnLink
<1>3. \A r : IsCurrent(req[r].link) => IsCurrent(req[r].link)'
  BY StaysCurrent
<1>4. OwnRequests'
  BY <1>3 DEF Core, OwnRequests, Own, Beginning, Polling, LinksStand
<1> QED BY <1>1, <1>2, <1>4 DEF Core

\* A request that changes the dialog unmixed is of its try, and the dialog open.
LEMMA Unmixed ==
    ASSUME Typed, NEW r \in Requests, Late(r), ~mixed'
    PROVE  /\ ~mixed /\ UNCHANGED mixed
           /\ UNCHANGED <<dlg, cause>> \/ (dlg.open /\ req[r].try = tries)
  BY DEF Late, Typed

\* A dialog that is closed has no error and no request of its own.
LEMMA ClosedCore == ASSUME dlg' = Closed PROVE Core'
  BY ConstantsTyped DEF Core, AtRest, OwnLink, OwnRequests, ErrorsAreOwn

\* Once a request of an earlier try has come in, nothing is said.
LEMMA MixedCore == ASSUME mixed' PROVE Core'
  BY DEF Core, AtRest, OwnLink, OwnRequests, ErrorsAreOwn

\* A try begins.
LEMMA TryBegins ==
    ASSUME Typed, InTime, UNCHANGED req, tries' = tries + 1, dlg'.open, dlg'.step = "initiating",
           dlg'.activeLink = NoLinkId
    PROVE  Core'
<1>1. \A r \in Requests : ~Own(r)'
  BY DEF Own, InTime, Typed, Request
<1> QED BY <1>1 DEF Core, AtRest, OwnLink, OwnRequests, ErrorsAreOwn

\* The dialog goes on waiting, or shows an error of its own.
LEMMA WaitGoesOn ==
    ASSUME Typed, Core, LinksStand, ~mixed, ~mixed', dlg.open, dlg'.open,
           dlg'.context = dlg.context, dlg'.activeLink = dlg.activeLink, UNCHANGED tries,
           dlg.step # "initiating", dlg'.step # "initiating",
           dlg'.step = "error" => cause' \in {NoLinkId, dlg.activeLink},
           \A r \in Requests : \/ req'[r] = req[r]
                               \/ req'[r].at = "idle"
                               \/ /\ req'[r].kind = "poll" /\ req'[r].provider = dlg.context
                                  /\ req'[r].at # "read" /\ dlg.activeLink # NoLinkId
    PROVE  Core'
<1>1. AtRest' /\ ErrorsAreOwn'
  BY DEF AtRest, ErrorsAreOwn
<1>2. dlg.activeLink # NoLinkId => IsCurrent(dlg.activeLink)
  BY DEF Core, OwnLink
<1>3. dlg.activeLink # NoLinkId => IsCurrent(dlg.activeLink)'
  BY <1>2 DEF LinksStand, IsCurrent, Latest
<1>4. OwnLink'
  BY <1>3 DEF OwnLink
<1>5. OwnRequests'
  <2> SUFFICES ASSUME NEW r \in Requests, Own(r)'
               PROVE  /\ req'[r].provider = dlg.context
                      /\ req'[r].kind # "begin" /\ Polling(r)'
    BY DEF OwnRequests
  <2>1. CASE req'[r] = req[r]
    <3>1. Own(r)
      BY <2>1 DEF Own
    <3>2. req[r].provider = dlg.context /\ req[r].kind # "begin" /\ Polling(r)
      BY <3>1 DEF Core, OwnRequests, Beginning
    <3> QED BY <2>1, <3>2 DEF Polling, LinksStand
  <2>2. CASE req'[r].kind = "poll" /\ req'[r].provider = dlg.context
             /\ req'[r].at # "read" /\ dlg.activeLink # NoLinkId
    BY <2>2 DEF Polling
  <2> QED BY <2>1, <2>2 DEF Own
<1> QED BY <1>1, <1>4, <1>5 DEF Core

-----------------------------------------------------------------------------
(* The steps.                                                              *)

\* The links are in order, and their grants are there.
LinksFit == InOrder /\ StoredGrants

LEMMA OperateCore ==
    ASSUME Typed, LinksFit, PopupHasLink, InTime, Core, Operate
    PROVE  Core' /\ LinksFit'
<1> USE DEF LinksFit
<1>1. ASSUME NEW p \in Providers, OpenLink(p) PROVE Core' /\ LinksFit'
  <2>1. dlg'.open /\ dlg'.step = "initiating" /\ dlg'.activeLink = NoLinkId
    BY <1>1 DEF OpenLink, Closed
  <2> QED BY <1>1, <2>1, TryBegins DEF OpenLink, torii, InOrder, StoredGrants
<1>2. CASE Cancel
  BY <1>2, ClosedCore DEF Cancel, close, torii, InOrder, StoredGrants
<1>3. CASE Retry
  <2>1. dlg'.open /\ dlg'.step = "initiating" /\ dlg'.activeLink = NoLinkId
    BY <1>3 DEF Retry, Typed, IsDialog, Dialog
  <2> QED BY <1>3, <2>1, TryBegins DEF Retry, torii, InOrder, StoredGrants
<1>4. CASE Reopen
  <2>1. LinksFit' /\ LinksStand
    BY <1>4 DEF Reopen, torii, InOrder, StoredGrants, LinksStand
  <2>2. dlg'.open /\ dlg'.context = dlg.context /\ dlg'.activeLink = dlg.activeLink
    BY <1>4 DEF Reopen, DialogWaits, openAuthWindow, Typed, IsDialog, Dialog
  <2>3. dlg'.step = "waiting" \/ (dlg'.step = "error" /\ cause' = NoLinkId)
    BY <1>4 DEF Reopen, DialogWaits, openAuthWindow, Typed, IsDialog, Dialog
  <2>4. dlg.open /\ dlg.step = "waiting" /\ UNCHANGED <<req, tries, mixed>>
    BY <1>4 DEF Reopen, DialogWaits
  <2>5. CASE ~mixed
    BY <2>1, <2>2, <2>3, <2>4, <2>5, WaitGoesOn
  <2>6. CASE mixed
    BY <2>1, <2>4, <2>6, MixedCore
  <2> QED BY <2>1, <2>5, <2>6
<1>5. CASE Consent \/ Deny
  BY <1>5, LinksOfTorii, NoneGoesOn DEF Consent, Deny, history
<1>6. CASE ClosePopup
  <2>1. LinksFit' /\ LinksStand
    BY <1>6 DEF ClosePopup, torii, InOrder, StoredGrants, LinksStand
  <2> QED BY <1>6, <2>1, NoneGoesOn DEF ClosePopup
<1> QED BY <1>1, <1>2, <1>3, <1>4, <1>5, <1>6 DEF Operate

\* A request of this try begins, or polls.
LEMMA AskCore ==
    ASSUME Typed, LinksFit, InTime, Core, NEW r \in Requests, Begin(r) \/ Poll(r)
    PROVE  Core'
<1>1. CASE mixed
  BY <1>1, MixedCore DEF Begin, Poll, history
<1>2. CASE ~mixed /\ Begin(r)
  <2>1. /\ dlg.open /\ dlg.step = "initiating" /\ ~dlg.submitting
        /\ dlg' = [dlg EXCEPT !.submitting = TRUE]
        /\ Ask(r, "begin") /\ UNCHANGED <<tries, mixed, cause, link, redeemed>>
    BY <1>2 DEF Begin, torii, history
  <2>2. dlg.activeLink = NoLinkId
    BY <1>2, <2>1 DEF Core, OwnLink
  <2>3. \A s \in Requests : ~Own(s)
    BY <1>2, <2>1, <2>2 DEF Core, OwnRequests, Beginning, Polling
  <2>4. /\ req'[r].at = "asked" /\ req'[r].kind = "begin" /\ req'[r].provider = dlg.context
        /\ \A s \in Requests \ {r} : req'[s] = req[s]
    BY <2>1 DEF Ask, Idle, Typed
  <2>5. /\ dlg'.open /\ dlg'.context = dlg.context /\ dlg'.step = "initiating"
        /\ dlg'.submitting /\ dlg'.activeLink = NoLinkId
    BY <2>1, <2>2 DEF Typed, IsDialog, Dialog
  <2>6. \A s \in Requests : Own(s)' => s = r
    BY <2>1, <2>3, <2>4 DEF Own
  <2>7. Beginning(r)'
    BY <2>4, <2>5, <2>6 DEF Beginning
  <2> QED BY <2>4, <2>5, <2>6, <2>7 DEF Core, AtRest, OwnLink, OwnRequests, ErrorsAreOwn
<1>3. CASE ~mixed /\ Poll(r)
  <2>1. /\ dlg.open /\ dlg.step = "waiting" /\ Ask(r, "poll")
        /\ UNCHANGED <<dlg, tries, mixed, cause, link, redeemed>>
    BY <1>3 DEF Poll, DialogWaits, torii, history
  <2>2. /\ req'[r].at = "asked" /\ req'[r].kind = "poll" /\ req'[r].provider = dlg.context
        /\ \A s \in Requests \ {r} : req'[s] = req[s]
    BY <2>1 DEF Ask, Idle, Typed
  <2>3. dlg.activeLink # NoLinkId /\ LinksStand
    BY <2>1 DEF Typed, IsDialog, LinksStand
  <2> QED BY <1>3, <2>1, <2>2, <2>3, WaitGoesOn
<1> QED BY <1>1, <1>2, <1>3

\* A request reads the two tables.
LEMMA ReadCore ==
    ASSUME Typed, LinksFit, InTime, Core, NEW r \in Requests, ReadGrants(r) \/ ReadLatest(r)
    PROVE  Core'
<1>1. /\ UNCHANGED <<dlg, tries, mixed, cause, link, redeemed>> /\ LinksStand
      /\ req[r] \in Request
  BY DEF ReadGrants, ReadLatest, torii, history, LinksStand, Typed
<1>2. CASE ReadGrants(r)
  <2>1. /\ req[r].at # "idle" /\ req'[r].at = "torn"
        /\ req'[r].try = req[r].try /\ req'[r].provider = req[r].provider
        /\ req'[r].kind = req[r].kind
        /\ \A s \in Requests \ {r} : req'[s] = req[s]
    BY <1>1, <1>2 DEF ReadGrants, Typed, Request
  <2> QED BY <1>1, <2>1, OneGoesOn
<1>3. CASE ReadLatest(r)
  <2> DEFINE l == GetLatest(req[r].provider)
  <2>1. /\ req[r].at # "idle" /\ req'[r].at = "read"
        /\ req'[r].try = req[r].try /\ req'[r].provider = req[r].provider
        /\ req'[r].kind = req[r].kind
        /\ req'[r].link = l /\ req'[r].status = DeriveStatus(req[r].grant, l)
        /\ \A s \in Requests \ {r} : req'[s] = req[s]
    BY <1>1, <1>3 DEF ReadLatest, Typed, Request
  <2>2. ASSUME IsCurrent(dlg.activeLink), req[r].provider = dlg.context
        PROVE  /\ req'[r].link = dlg.activeLink
               /\ req'[r].status = "linked" => dlg.activeLink \in redeemed
    <3>1. l = dlg.activeLink
      BY <2>2, LatestIsCurrent DEF LinksFit
    <3>2. /\ l \in LinkIds /\ l # NoLinkId /\ link[l].status # "new"
          /\ link[l].status \in {"new", "pending", "called", "stored", "completed", "failed"}
      BY <2>2, <3>1, ConstantsTyped DEF IsCurrent, Latest, Typed, Row
    <3>3. link[l].status = "completed" => l \in redeemed
      BY <3>2 DEF LinksFit, StoredGrants
    <3> HIDE DEF l
    <3>4. req'[r].status = "linked" => link[l].status = "completed"
      BY <2>1, <3>2 DEF DeriveStatus
    <3> QED BY <2>1, <3>1, <3>3, <3>4
  <2> QED BY <1>1, <2>1, <2>2, OneGoesOn
<1> QED BY <1>2, <1>3

\* A request begins a link.
LEMMA CreateCore ==
    ASSUME Typed, LinksFit, InTime, Core, NEW r \in Requests, CreateLink(r)
    PROVE  Core' /\ LinksFit'
<1>1. LinksFit'
  BY LinkBegins DEF LinksFit
<1>2. CASE mixed'
  BY <1>1, <1>2, MixedCore
<1>3. CASE ~mixed' /\ ~dlg.open
  BY <1>1, <1>3 DEF CreateLink, Core, AtRest, OwnLink, OwnRequests, ErrorsAreOwn
<1>4. CASE ~mixed' /\ dlg.open
  <2>1. /\ ~mixed /\ Own(r) /\ req[r].kind = "begin" /\ UNCHANGED <<dlg, tries, cause>>
        /\ req[r] \in Request
    BY <1>4 DEF CreateLink, Own, InTime, Typed
  <2>2. Beginning(r) /\ req[r].provider = dlg.context
    BY <1>4, <2>1 DEF Core, OwnRequests
  <2>3. dlg.activeLink = NoLinkId
    BY <1>4, <2>1, <2>2 DEF Core, OwnLink, Beginning
  <2>4. /\ req'[r].at = "posted" /\ req'[r].kind = "begin"
        /\ req'[r].provider = req[r].provider /\ req'[r].try = req[r].try
        /\ \A s \in Requests \ {r} : req'[s] = req[s]
    BY <2>1 DEF CreateLink, Typed, Request
  <2>5. IsCurrent(req[r].link)'
    BY <2>1, <2>2, LinkBegins DEF LinksFit, IsCurrent
  <2>6. \A s \in Requests : Own(s)' => s = r
    BY <2>1, <2>2, <2>4 DEF Own, Beginning
  <2>7. Beginning(r)'
    BY <2>1, <2>2, <2>5, <2>6 DEF Beginning
  <2> QED BY <1>1, <1>4, <2>1, <2>2, <2>3, <2>4, <2>6, <2>7
          DEF Core, AtRest, OwnLink, OwnRequests, ErrorsAreOwn
<1> QED BY <1>2, <1>3, <1>4

\* An answer comes to the dialog that is there.
LEMMA AnswerCore ==
    ASSUME Typed, LinksFit, InTime, Core, NEW r \in Requests,
           \/ BeginStatus(r) \/ BeginOpens(r) \/ BeginFails(r)
           \/ PollAnswers(r) \/ FlowEnds(r)
    PROVE  Core'
<1>1. /\ UNCHANGED <<tries, link, redeemed>> /\ LinksStand /\ Late(r)
      /\ req[r].at # "idle" /\ req[r] \in Request
      /\ \A s \in Requests \ {r} : req'[s] = req[s]
  BY DEF BeginStatus, BeginOpens, BeginFails, PollAnswers, FlowEnds, Done, torii, LinksStand, Typed
<1>2. \/ req'[r].at = "idle"
      \/ /\ req'[r].at \in {"posting", "completing"} /\ req'[r].kind = req[r].kind
         /\ req'[r].try = req[r].try /\ req'[r].provider = req[r].provider
  <2>1. ASSUME Done(r) PROVE req'[r].at = "idle"
    BY <2>1, ConstantsTyped DEF Done, Typed
  <2>2. CASE BeginStatus(r)
    BY <1>1, <2>2 DEF BeginStatus, Typed, Request
  <2>3. CASE req' = [req EXCEPT ![r].at = "completing"]
    BY <1>1, <2>3 DEF Typed, Request
  <2> QED BY <2>1, <2>2, <2>3 DEF BeginOpens, BeginFails, PollAnswers, FlowEnds
<1> SUFFICES ASSUME ~mixed' PROVE Core'
  BY MixedCore
<1>3. ~mixed /\ UNCHANGED mixed /\ (UNCHANGED <<dlg, cause>> \/ (dlg.open /\ Own(r)))
  BY <1>1, Unmixed DEF Own
<1>4. CASE UNCHANGED <<dlg, cause>>
  BY <1>1, <1>2, <1>3, <1>4, OneGoesOn
<1>5. CASE dlg' = Closed
  BY <1>5, ClosedCore
<1>6. CASE dlg.open /\ Own(r) /\ dlg' # Closed
  <2>1. req[r].provider = dlg.context /\ IF req[r].kind = "begin" THEN Beginning(r) ELSE Polling(r)
    BY <1>3, <1>6 DEF Core, OwnRequests
  <2>2. CASE BeginStatus(r)
    <3>1. Beginning(r) /\ req'[r].at = "posting" /\ req'[r].kind = "begin"
          /\ req'[r].try = req[r].try /\ req'[r].provider = req[r].provider
      BY <1>1, <2>1, <2>2 DEF BeginStatus, Typed, Request
    <3>2. /\ dlg'.open /\ dlg'.context = dlg.context /\ dlg'.step = dlg.step
          /\ dlg'.submitting = dlg.submitting /\ dlg'.activeLink = dlg.activeLink
      <4>1. dlg \in Dialog
        BY DEF Typed, IsDialog
      <4>2. \E was : dlg' = [dlg EXCEPT !.linkedAtStart = was, !.sawPending = FALSE]
        BY <2>2 DEF BeginStatus
      <4>3. dlg'.open = dlg.open /\ dlg'.context = dlg.context /\ dlg'.step = dlg.step
        BY <4>1, <4>2 DEF Dialog
      <4>4. dlg'.submitting = dlg.submitting /\ dlg'.activeLink = dlg.activeLink
        BY <4>1, <4>2 DEF Dialog
      <4> QED BY <1>6, <4>3, <4>4
    <3>3. \A s \in Requests : Own(s)' => s = r
      BY <1>1, <3>1 DEF Own, Beginning
    <3>4. dlg.activeLink = NoLinkId
      BY <1>3, <1>6, <3>1 DEF Core, OwnLink, Beginning
    <3>5. Beginning(r)'
      BY <3>1, <3>2, <3>3 DEF Beginning
    <3> QED BY <2>1, <3>1, <3>2, <3>3, <3>4, <3>5
            DEF Core, AtRest, OwnLink, OwnRequests, ErrorsAreOwn, Beginning
  <2>3. CASE BeginOpens(r)
    <3>1. Beginning(r) /\ req[r].at = "posted" /\ req'[r].at = "idle"
      BY <2>1, <2>3, ConstantsTyped DEF BeginOpens, Done, InTime, Typed
    <3>2. IsCurrent(req[r].link)
      BY <3>1 DEF Beginning
    <3>3. /\ dlg'.open /\ dlg'.context = dlg.context /\ dlg'.activeLink = req[r].link
          /\ dlg'.step = "waiting" \/ (dlg'.step = "error" /\ cause' = NoLinkId)
      <4> DEFINE d == [dlg EXCEPT !.activeLink = req[r].link, !.step = "waiting",
                                  !.submitting = FALSE]
      <4>1. openAuthWindow(req[r].link, d)
        BY <2>3 DEF BeginOpens
      <4>2. /\ d \in Dialog /\ d.open /\ d.context = dlg.context
            /\ d.activeLink = req[r].link /\ d.step = "waiting"
        BY <1>1, <1>6 DEF Typed, IsDialog, Dialog, Request
      <4> HIDE DEF d
      <4> QED BY <4>1, <4>2 DEF openAuthWindow, Dialog
    <3>4. \A s \in Requests : ~Own(s)'
      BY <1>1, <3>1 DEF Own, Beginning
    <3>5. OwnLink'
      BY <1>1, <3>2, <3>3 DEF OwnLink, IsCurrent, Latest
    <3> QED BY <3>3, <3>4, <3>5 DEF Core, AtRest, OwnRequests, ErrorsAreOwn
  <2>4. CASE BeginFails(r)
    <3>1. Beginning(r) /\ req'[r].at = "idle"
      BY <2>1, <2>4, ConstantsTyped DEF BeginFails, Done, Typed
    <3>2. dlg.activeLink = NoLinkId
      BY <1>3, <1>6, <3>1 DEF Core, OwnLink, Beginning
    <3>3. /\ dlg'.open /\ dlg'.activeLink = NoLinkId /\ dlg'.step = "error" /\ cause' = NoLinkId
      BY <1>6, <2>4, <3>2 DEF BeginFails, Typed, IsDialog, Dialog
    <3>4. \A s \in Requests : ~Own(s)'
      BY <1>1, <3>1 DEF Own, Beginning
    <3> QED BY <3>3, <3>4 DEF Core, AtRest, OwnLink, OwnRequests, ErrorsAreOwn
  <2>5. CASE PollAnswers(r)
    <3>1. /\ Polling(r) /\ req[r].at = "read" /\ dlg.step # "initiating"
          /\ req[r].link = dlg.activeLink
      BY <1>3, <1>6, <2>1, <2>5 DEF PollAnswers, Polling, Core, OwnLink
    <3>2. /\ dlg'.open /\ dlg'.context = dlg.context /\ dlg'.activeLink = dlg.activeLink
          /\ \/ dlg'.step = dlg.step /\ UNCHANGED cause
             \/ dlg'.step = "error" /\ cause' = req[r].link
      BY <1>6, <2>5 DEF PollAnswers, close, Typed, IsDialog, Dialog
    <3>3. dlg'.step # "initiating"
      BY <3>1, <3>2
    <3>4. dlg'.step = "error" => cause' \in {NoLinkId, dlg.activeLink}
      BY <1>3, <1>6, <3>1, <3>2 DEF Core, ErrorsAreOwn
    <3>5. /\ req[r].kind = "poll" /\ dlg.activeLink # NoLinkId
      BY <2>5, <3>1 DEF PollAnswers, Polling
    <3> QED BY <1>1, <1>2, <1>3, <1>6, <2>1, <3>1, <3>2, <3>3, <3>4, <3>5, WaitGoesOn
  <2>6. CASE FlowEnds(r)
    BY <1>6, <2>6 DEF FlowEnds, close
  <2> QED BY <2>2, <2>3, <2>4, <2>5, <2>6
<1> QED BY <1>3, <1>4, <1>5, <1>6

\* What happens at Torii leaves the dialog alone, but for the messages.
LEMMA ToriiCore ==
    ASSUME Typed, LinksFit, PopupHasLink, InTime, Core,
           \/ \E l \in LinkIds : StoreToken(l) \/ LinkCompletes(l)
           \/ PageLoads
           \/ \E m \in posted : DeliverMessage(m)
    PROVE  Core' /\ LinksFit'
<1> USE DEF LinksFit
<1>1. CASE \E l \in LinkIds : StoreToken(l) \/ LinkCompletes(l)
  BY <1>1, LinksOfTorii, NoneGoesOn DEF StoreToken, LinkCompletes, history
<1>2. ASSUME UNCHANGED torii PROVE LinksFit' /\ LinksStand
  BY <1>2 DEF torii, InOrder, StoredGrants, LinksStand
<1>3. CASE PageLoads
  BY <1>2, <1>3, NoneGoesOn DEF PageLoads
<1>4. ASSUME NEW m \in posted, DeliverMessage(m) PROVE Core' /\ LinksFit'
  <2>1. UNCHANGED <<tries, mixed>> /\ LinksFit' /\ LinksStand
    BY <1>2, <1>4 DEF DeliverMessage
  <2>2. CASE mixed
    BY <2>1, <2>2, MixedCore
  <2>3. CASE UNCHANGED <<dlg, req, cause>>
    BY <2>1, <2>3, NoneGoesOn
  <2>4. CASE ~mixed /\ Concerns(m) /\ dlg' = [dlg EXCEPT !.step = "error"] /\ cause' = m.link
             /\ UNCHANGED req
    <3>1. /\ dlg'.open = dlg.open /\ dlg'.context = dlg.context /\ dlg'.step = "error"
          /\ dlg'.activeLink = dlg.activeLink
      BY <2>4 DEF Typed, IsDialog, Dialog
    <3> QED BY <2>1, <2>4, <3>1, WaitGoesOn DEF Concerns, DialogWaits
  <2>5. CASE /\ ~mixed /\ Concerns(m) /\ dlg' = [dlg EXCEPT !.sawPending = TRUE]
             /\ \E r \in Requests : Ask(r, "poll")
             /\ UNCHANGED cause
    <3>1. /\ dlg'.open = dlg.open /\ dlg'.context = dlg.context /\ dlg'.step = dlg.step
          /\ dlg'.activeLink = dlg.activeLink
      BY <2>5 DEF Typed, IsDialog, Dialog
    <3>2. PICK r \in Requests : Ask(r, "poll")
      BY <2>5
    <3>3. /\ req'[r].at = "asked" /\ req'[r].kind = "poll" /\ req'[r].provider = dlg.context
          /\ \A s \in Requests \ {r} : req'[s] = req[s]
      BY <3>2 DEF Ask, Idle, Typed
    <3>4. dlg.open /\ dlg.step = "waiting" /\ dlg.activeLink # NoLinkId
      BY <2>5 DEF Concerns, DialogWaits, Typed, IsDialog
    <3> QED BY <2>1, <2>5, <3>1, <3>3, <3>4, WaitGoesOn
  <2> QED BY <1>4, <2>1, <2>2, <2>3, <2>4, <2>5 DEF DeliverMessage
<1> QED BY <1>1, <1>3, <1>4

-----------------------------------------------------------------------------
(* The popup.                                                              *)

\* The popup has a link, and the dialog has the popup.
Held == PopupHasLink /\ PopupIsHeld

\* The dialog closes its popup, whatever becomes of it.
LEMMA PopupCloses ==
    ASSUME Typed, Held, popup' = IF dlg.authWindow THEN NoPopup ELSE popup,
           UNCHANGED strayed, mixed => mixed'
    PROVE  Held'
  BY DEF Held, PopupHasLink, PopupIsHeld, Typed, IsDialog, Dialog

\* Neither the popup nor the dialog's hold on it changes.
LEMMA PopupStays ==
    ASSUME Typed, Held, UNCHANGED <<popup, strayed>>, mixed => mixed',
           mixed' \/ (dlg'.open = dlg.open /\ dlg'.authWindow = dlg.authWindow)
    PROVE  Held'
  BY DEF Held, PopupHasLink, PopupIsHeld

\* The dialog opens a popup.
LEMMA PopupOpens ==
    ASSUME Typed, Held, NEW l \in LinkIds, NEW d \in Dialog, openAuthWindow(l, d),
           mixed => mixed', mixed' \/ d.open
    PROVE  Held'
<1>1. CASE dlg' = [d EXCEPT !.url = l, !.authWindow = TRUE]
           /\ popup' = [link |-> l, page |-> "provider"]
  <2>1. dlg'.open = d.open /\ dlg'.authWindow /\ popup'.link = l
    BY <1>1 DEF Dialog
  <2> QED BY <2>1 DEF Held, PopupHasLink, PopupIsHeld
<1>2. CASE popup' = (IF dlg.authWindow THEN NoPopup ELSE popup) /\ UNCHANGED strayed
  BY <1>2, PopupCloses
<1> QED BY <1>1, <1>2 DEF openAuthWindow

\* Every step leaves the popup held.
LEMMA NextHeld == Typed /\ InTime /\ AtRest /\ Held /\ [DialogNext]_dialogVars => Held'
<1> SUFFICES ASSUME Typed, InTime, AtRest, Held, [DialogNext]_dialogVars PROVE Held'
  OBVIOUS
<1>1. dlg \in Dialog
  BY DEF Typed, IsDialog
<1>2. ASSUME UNCHANGED <<dlg, popup, strayed, mixed>> PROVE Held'
  BY <1>2, PopupStays
<1>3. ASSUME NEW r \in Requests, Late(r) PROVE mixed => mixed'
  BY <1>3 DEF Late, Typed
<1>4. CASE Operate
  <2>1. ASSUME NEW p \in Providers, OpenLink(p) PROVE Held'
    BY <2>1 DEF OpenLink, Held, PopupHasLink, PopupIsHeld
  <2>2. CASE Cancel
    BY <2>2, PopupCloses DEF Cancel, close, history
  <2>3. CASE Retry
    BY <2>3 DEF Retry, Held, PopupHasLink, PopupIsHeld
  <2>4. CASE Reopen
    <3>1. dlg.url \in LinkIds /\ dlg.open
      BY <2>4 DEF Reopen, DialogWaits, Typed, IsDialog, Dialog, LinkIds, NoLinkId
    <3> QED BY <1>1, <2>4, <3>1, PopupOpens DEF Reopen
  <2>5. CASE Consent \/ Deny
    <3>1. popup # NoPopup /\ UNCHANGED <<dlg, strayed, mixed>> /\ popup'.link = popup.link
      BY <2>5 DEF Consent, Deny, history, Typed, Popup
    <3> QED BY <3>1 DEF Held, PopupHasLink, PopupIsHeld
  <2>6. CASE ClosePopup
    BY <2>6 DEF ClosePopup, Held, PopupHasLink, PopupIsHeld
  <2> QED BY <1>4, <2>1, <2>2, <2>3, <2>4, <2>5, <2>6 DEF Operate
<1>5. ASSUME NEW r \in Requests, \/ Begin(r) \/ BeginFails(r) \/ Answered(r)
                                 \/ Poll(r) \/ PollAnswers(r) \/ PollFails(r)
      PROVE  Held'
  <2>1. CASE Begin(r)
    <3>1. dlg'.open = dlg.open /\ dlg'.authWindow = dlg.authWindow
      BY <1>1, <2>1 DEF Begin, Dialog
    <3> QED BY <2>1, <3>1, PopupStays DEF Begin, history
  <2>2. CASE Poll(r) \/ PollFails(r) \/ ReadGrants(r) \/ ReadLatest(r)
    BY <1>2, <2>2 DEF Poll, PollFails, ReadGrants, ReadLatest, history
  <2>3. CASE CreateLink(r)
    <3>1. UNCHANGED <<dlg, popup, strayed>> /\ (mixed => mixed')
      BY <2>3 DEF CreateLink, Typed
    <3> QED BY <3>1, PopupStays
  <2>4. CASE BeginStatus(r)
    <3>1. \E was : dlg' = [dlg EXCEPT !.linkedAtStart = was, !.sawPending = FALSE]
      BY <2>4 DEF BeginStatus
    <3>2. dlg'.open = dlg.open /\ dlg'.authWindow = dlg.authWindow
      BY <1>1, <3>1 DEF Dialog
    <3> QED BY <1>3, <2>4, <3>2, PopupStays DEF BeginStatus
  <2>5. CASE BeginFails(r)
    <3>1. dlg'.open = dlg.open /\ dlg'.authWindow = dlg.authWindow
      BY <1>1, <2>5 DEF BeginFails, Dialog
    <3> QED BY <1>3, <2>5, <3>1, PopupStays DEF BeginFails
  <2>6. CASE BeginOpens(r)
    <3> DEFINE d == [dlg EXCEPT !.activeLink = req[r].link, !.step = "waiting",
                                !.submitting = FALSE]
    <3>1. req[r].link \in LinkIds /\ openAuthWindow(req[r].link, d) /\ Late(r)
      BY <2>6 DEF BeginOpens, InTime
    <3>2. d \in Dialog /\ d.open = dlg.open /\ d.step = "waiting"
      BY <1>1, <3>1, ConstantsTyped DEF Dialog
    <3>3. dlg'.step # "initiating"
      BY <3>1, <3>2 DEF openAuthWindow, Dialog
    <3>4. mixed' \/ d.open
      <4>1. CASE ~mixed /\ ~dlg.open
        <5>1. dlg' # dlg
          BY <3>3, <4>1 DEF AtRest, Closed
        <5> QED BY <3>1, <4>1, <5>1 DEF Late
      <4> QED BY <1>3, <3>1, <3>2, <4>1
    <3> HIDE DEF d
    <3> QED BY <1>3, <3>1, <3>2, <3>4, PopupOpens
  <2>7. CASE FlowEnds(r)
    BY <1>3, <2>7, PopupCloses DEF FlowEnds, close
  <2>8. CASE PollAnswers(r)
    <3>1. Late(r) /\ UNCHANGED strayed
      BY <2>8 DEF PollAnswers
    <3>2. CASE popup' = IF dlg.authWindow THEN NoPopup ELSE popup
      BY <1>3, <3>1, <3>2, PopupCloses
    <3>3. CASE /\ \E saw, step : dlg' = [dlg EXCEPT !.sawPending = saw, !.step = step]
               /\ UNCHANGED popup
      <4>1. dlg'.open = dlg.open /\ dlg'.authWindow = dlg.authWindow
        BY <1>1, <3>3 DEF Dialog
      <4> QED BY <1>3, <3>1, <3>3, <4>1, PopupStays
    <3> QED BY <2>8, <3>2, <3>3 DEF PollAnswers, close
  <2> QED BY <1>5, <2>1, <2>2, <2>3, <2>4, <2>5, <2>6, <2>7, <2>8 DEF Answered
<1>6. ASSUME NEW l \in LinkIds, StoreToken(l) \/ LinkCompletes(l) PROVE Held'
  BY <1>2, <1>6 DEF StoreToken, LinkCompletes, history
<1>7. CASE PageLoads
  BY <1>7 DEF PageLoads, Held, PopupHasLink, PopupIsHeld
<1>8. ASSUME NEW m \in posted, DeliverMessage(m) PROVE Held'
  <2>1. dlg'.open = dlg.open /\ dlg'.authWindow = dlg.authWindow
    BY <1>1, <1>8 DEF DeliverMessage, Dialog
  <2> QED BY <1>8, <2>1, PopupStays DEF DeliverMessage
<1>9. CASE UNCHANGED dialogVars
  BY <1>2, <1>9 DEF dialogVars
<1> QED BY <1>4, <1>5, <1>6, <1>7, <1>8, <1>9 DEF DialogNext

-----------------------------------------------------------------------------
(* The invariant of LinkDialog, and its properties.                        *)

\* The invariant by its parts.
LEMMA DialogInvTyped ==
    DialogInv <=> Typed /\ LinksFit /\ InTime /\ Core /\ Held
  BY DialogTypes DEF DialogInv, LinksFit, Core, Held

\* The invariant holds at first.
LEMMA DialogInitial == DialogInit => DialogInv
<1> SUFFICES ASSUME DialogInit PROVE Typed /\ LinksFit /\ InTime /\ Core /\ Held
  BY DialogInvTyped
<1>1. Typed
  <2>1. [status |-> "new", provider |-> None] \in Row /\ 0 \in 0..MaxTries
    BY ConstantsTyped DEF Row, DialogBoundsAssumption
  <2>2. link \in [LinkIds -> Row]
    BY <2>1 DEF DialogInit
  <2>3. req \in [Requests -> Request]
    BY ConstantsTyped DEF DialogInit
  <2> QED BY <2>1, <2>2, <2>3, ConstantsTyped DEF DialogInit, Typed
<1>2. LinksFit
  BY DEF DialogInit, LinksFit, InOrder, StoredGrants
<1>3. InTime
  BY ConstantsTyped DEF DialogInit, InTime
<1>4. Core
  BY ConstantsTyped DEF DialogInit, Core, AtRest, OwnLink, OwnRequests, ErrorsAreOwn
<1>5. Held
  BY DEF DialogInit, Held, PopupHasLink, PopupIsHeld
<1> QED BY <1>1, <1>2, <1>3, <1>4, <1>5

\* Every step preserves the invariant.
LEMMA DialogNextInv == DialogInv /\ [DialogNext]_dialogVars => DialogInv'
<1> SUFFICES ASSUME Typed, LinksFit, InTime, Core, Held, [DialogNext]_dialogVars
             PROVE  Typed' /\ LinksFit' /\ InTime' /\ Core' /\ Held'
  <2>1. DialogInv' <=> Typed' /\ LinksFit' /\ InTime' /\ Core' /\ Held'
    BY DialogInvTyped, PTL
  <2> QED BY <2>1, DialogInvTyped
<1>1. InTime' /\ Held'
  BY NextInTime, NextHeld DEF LinksFit, Core
<1>2. CASE Operate
  BY <1>1, <1>2, OperateTypes, OperateCore, DialogTypes DEF Held
<1>3. ASSUME NEW r \in Requests, \/ Begin(r) \/ BeginFails(r) \/ Answered(r)
                                 \/ Poll(r) \/ PollAnswers(r) \/ PollFails(r)
      PROVE  Typed' /\ Core' /\ LinksFit'
  <2>1. Typed'
    BY <1>3, RequestTypes
  <2>2. CASE CreateLink(r)
    BY <2>1, <2>2, CreateCore
  <2>3. CASE ~CreateLink(r)
    <3>1. UNCHANGED torii
      BY <1>3, <2>3 DEF Begin, BeginFails, Answered, Poll, PollAnswers, PollFails,
         ReadGrants, ReadLatest, BeginStatus, BeginOpens, FlowEnds
    <3>2. LinksFit' /\ LinksStand
      BY <3>1 DEF torii, LinksFit, InOrder, StoredGrants, LinksStand
    <3>3. CASE PollFails(r)
      <4>1. /\ req'[r].at = "idle" /\ \A s \in Requests \ {r} : req'[s] = req[s]
            /\ UNCHANGED <<dlg, tries, mixed, cause>>
        BY <3>3, ConstantsTyped DEF PollFails, Done, Typed, history
      <4> QED BY <2>1, <3>2, <4>1, OneGoesOn
    <3> QED BY <1>3, <2>1, <2>3, <3>2, <3>3, AskCore, ReadCore, AnswerCore DEF Answered
  <2> QED BY <2>2, <2>3
<1>4. CASE \/ \E l \in LinkIds : StoreToken(l) \/ LinkCompletes(l)
           \/ PageLoads
           \/ \E m \in posted : DeliverMessage(m)
  BY <1>1, <1>4, ToriiTypes, ToriiCore DEF LinksFit, Held
<1>5. CASE UNCHANGED dialogVars
  <2>1. LinksStand /\ LinksFit'
    BY <1>5 DEF dialogVars, LinksFit, InOrder, StoredGrants, LinksStand
  <2>2. Typed'
    BY <1>5 DEF dialogVars, Typed
  <2> QED BY <1>1, <1>5, <2>1, <2>2, NoneGoesOn DEF dialogVars
<1> QED BY <1>1, <1>2, <1>3, <1>4, <1>5 DEF DialogNext

\* Every reachable state satisfies the invariant.
THEOREM DialogInvariance == DialogSpec => []DialogInv
  BY DialogInitial, DialogNextInv, PTL DEF DialogSpec

\* The dialog's variables keep their types, and a dialog that waits has a link
\* and its url (beginAuthorization, reopenAuthorization).
THEOREM DialogTypeCorrect == DialogSpec => []DialogTypeOK
<1>1. DialogInv => DialogTypeOK
  BY DEF DialogInv
<1> QED BY <1>1, DialogInvariance, PTL

\* An error that is shown is about this try, unless a request of an earlier
\* try came in (handleMessage, pollConnectionStatus).
THEOREM OwnErrors == DialogSpec => []ErrorsAreOwn
<1>1. DialogInv => ErrorsAreOwn
  BY DEF DialogInv
<1> QED BY <1>1, DialogInvariance, PTL

\* A popup that is open is one the dialog can close (close, openAuthWindow).
THEOREM PopupStaysHeld == DialogSpec => []PopupIsHeld
<1>1. DialogInv => PopupIsHeld
  BY DEF DialogInv
<1> QED BY <1>1, DialogInvariance, PTL

\* A dialog whose link is settled is closed, or shows the error, at the next
\* poll that gets through (pollConnectionStatus).
THEOREM WaitsCanEnd == DialogSpec => []WaitCanEnd
<1>1. DialogInv => WaitCanEnd
  <2> SUFFICES ASSUME Typed, LinksFit, Core, DialogWaits, ~mixed, Settled(dlg.activeLink)
               PROVE  DeriveStatus(dlg.context \in token, GetLatest(dlg.context))
                          \in {"linked", "failed"}
    BY DialogInvTyped DEF WaitCanEnd
  <2> DEFINE l == dlg.activeLink
  <2>1. IsCurrent(l) /\ l # NoLinkId
    BY DEF DialogWaits, Typed, IsDialog, Core, OwnLink
  <2>2. GetLatest(dlg.context) = l
    BY <2>1, LatestIsCurrent DEF LinksFit
  <2>3. link[l].status = "completed" => dlg.context \in token
    BY <2>1 DEF IsCurrent, LinksFit, StoredGrants
  <2> QED BY <2>1, <2>2, <2>3 DEF Settled, DeriveStatus
<1> QED BY <1>1, DialogInvariance, PTL

\* A link that is reported is this try's own, and its token has been stored,
\* unless a request of an earlier try came in (shouldAcceptLinkedOutcome,
\* completeLinkedFlow).
THEOREM ReportsOwnLink == DialogSpec => LinkedIsStored
<1>1. DialogInv /\ [DialogNext]_dialogVars =>
          (dlg'.completing /\ ~dlg.completing /\ ~mixed' => dlg.activeLink \in redeemed)
  <2> SUFFICES ASSUME Typed, Core, InTime, [DialogNext]_dialogVars,
                      dlg'.completing, ~dlg.completing, ~mixed'
               PROVE  dlg.activeLink \in redeemed
    BY DialogInvTyped
  <2>1. dlg \in Dialog
    BY DEF Typed, IsDialog
  <2>2. ~Closed.completing
    BY DEF Closed
  <2>3. ASSUME NEW l, NEW d \in Dialog, openAuthWindow(l, d), ~d.completing PROVE FALSE
    BY <2>3 DEF openAuthWindow, Dialog
  <2>4. ~Operate
    <3>1. ASSUME NEW p \in Providers, OpenLink(p) PROVE FALSE
      BY <3>1 DEF OpenLink, Closed
    <3>2. ~Cancel /\ ~Retry
      BY <2>1, <2>2 DEF Cancel, close, Retry, Dialog
    <3>3. ~Reopen
      BY <2>1, <2>3 DEF Reopen
    <3>4. ~Consent /\ ~Deny /\ ~ClosePopup
      BY DEF Consent, Deny, ClosePopup
    <3> QED BY <3>1, <3>2, <3>3, <3>4 DEF Operate
  <2>5. PICK r \in Requests : \/ Begin(r) \/ BeginFails(r) \/ Answered(r)
                              \/ Poll(r) \/ PollAnswers(r) \/ PollFails(r)
    <3>1. \A l \in LinkIds : ~StoreToken(l) /\ ~LinkCompletes(l)
      BY DEF StoreToken, LinkCompletes
    <3>2. ~PageLoads /\ ~UNCHANGED dialogVars
      BY DEF PageLoads, dialogVars
    <3>3. \A m \in posted : ~DeliverMessage(m)
      BY <2>1 DEF DeliverMessage, Dialog
    <3> QED BY <2>4, <3>1, <3>2, <3>3 DEF DialogNext
  <2>6. ~Begin(r) /\ ~BeginFails(r) /\ ~Poll(r) /\ ~PollFails(r)
    BY <2>1 DEF Begin, BeginFails, Poll, PollFails, Dialog
  <2>7. ~Answered(r)
    <3>1. ~ReadGrants(r) /\ ~ReadLatest(r) /\ ~CreateLink(r)
      BY DEF ReadGrants, ReadLatest, CreateLink
    <3>2. ~FlowEnds(r)
      BY <2>2 DEF FlowEnds, close
    <3>3. ~BeginStatus(r)
      <4>1. ASSUME NEW was, dlg' = [dlg EXCEPT !.linkedAtStart = was, !.sawPending = FALSE]
            PROVE  FALSE
        BY <2>1, <4>1 DEF Dialog
      <4> QED BY <4>1 DEF BeginStatus
    <3>4. ~BeginOpens(r)
      <4>1. CASE BeginOpens(r)
        <5> DEFINE d == [dlg EXCEPT !.activeLink = req[r].link, !.step = "waiting",
                                    !.submitting = FALSE]
        <5>1. req[r].link \in LinkIds /\ openAuthWindow(req[r].link, d)
          BY <4>1 DEF BeginOpens, InTime
        <5>2. d \in Dialog /\ ~d.completing
          BY <2>1, <5>1, ConstantsTyped DEF Dialog
        <5> HIDE DEF d
        <5> QED BY <2>3, <5>1, <5>2
      <4> QED BY <4>1
    <3> QED BY <3>1, <3>2, <3>3, <3>4 DEF Answered
  <2>8. PollAnswers(r)
    BY <2>5, <2>6, <2>7
  <2>9. req[r].status = "linked" /\ req[r].at = "read" /\ req[r].kind = "poll"
    <3>1. CASE /\ \E saw, step : dlg' = [dlg EXCEPT !.sawPending = saw, !.step = step]
      BY <2>1, <3>1 DEF Dialog
    <3>2. CASE close
      BY <2>2, <3>2 DEF close
    <3> QED BY <2>8, <3>1, <3>2 DEF PollAnswers, ShouldAccept
  <2>10. ~mixed /\ dlg.open /\ Own(r)
    <3>1. dlg' # dlg /\ Late(r)
      BY <2>8 DEF PollAnswers
    <3> QED BY <2>9, <3>1, Unmixed DEF Own
  <2>11. Polling(r)
    BY <2>9, <2>10 DEF Core, OwnRequests
  <2> QED BY <2>9, <2>11 DEF Polling
<1>2. DialogInv /\ [DialogNext]_dialogVars =>
          [dlg'.completing /\ ~dlg.completing /\ ~mixed' => dlg.activeLink \in redeemed]_dialogVars
  BY <1>1
<1> QED BY <1>2, DialogInvariance, PTL DEF DialogSpec, LinkedIsStored
=============================================================================
