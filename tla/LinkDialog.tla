----------------------------- MODULE LinkDialog -----------------------------
(***************************************************************************)
(* The dialog in which an operator links an OAuth provider                 *)
(* (apps/keidai-ui/src/oauth), with the popup it opens, Torii's links and  *)
(* the callback.  The hook keeps its state in refs that every closure      *)
(* shares, so a request that outlives the dialog it was made for acts on   *)
(* the next one.                                                           *)
(*                                                                         *)
(* One action is one event handler of the page up to its next await, one   *)
(* statement of Torii, or one step of the popup.  There is one operator    *)
(* and one tab.  The names shared by all specifications carry Dialog here, *)
(* as OAuthProofs extends this module and OAuthGrants.                     *)
(***************************************************************************)
EXTENDS Naturals, FiniteSetsExt

CONSTANTS
    Providers,
    None,      \* no provider
    Requests,  \* bound: requests of the hook in flight at once
    MaxLinks,  \* bound: links Torii creates
    MaxTries   \* bound: times the dialog is opened or tried again

ASSUME NoneAssumption == None \notin Providers
ASSUME DialogBoundsAssumption == MaxLinks \in Nat \ {0} /\ MaxTries \in Nat \ {0}

VARIABLES
    dlg,     \* the state and the refs of useOAuthLinkDialog
    req,     \* the calls of beginAuthorization and pollConnectionStatus
    popup,   \* the window named torii-oauth-link, closed when its link is NoLinkId
    link,    \* pending_oauth_links, in the order of their creation
    token,   \* providers with a grant in oauth_tokens
    posted,  \* messages of callback pages on their way to the page
    tries,   \* history: how often the dialog was opened or tried again
    mixed,   \* history: a request of an earlier try, or of a dialog that is
             \* closed, has changed this one
    strayed, \* history: the open popup is one the dialog has let go of
    cause,   \* history: the link whose failure was shown last
    redeemed \* history: links whose token has been stored

dialogVars == <<dlg, req, popup, link, token, posted, tries, mixed, strayed, cause, redeemed>>
torii == <<link, token, redeemed>>
history == <<tries, mixed, strayed, cause>>

LinkIds == 1..MaxLinks
NoLinkId == 0

Closed ==
    [open |-> FALSE, step |-> "initiating", context |-> None,
     submitting |-> FALSE, onLinked |-> FALSE, completing |-> FALSE,
     authWindow |-> FALSE, url |-> NoLinkId, activeLink |-> NoLinkId,
     linkedAtStart |-> FALSE, sawPending |-> FALSE]

Idle == [at |-> "idle", kind |-> "poll", provider |-> None, try |-> 0,
         grant |-> FALSE, status |-> "not_linked", link |-> NoLinkId]

NoPopup == [link |-> NoLinkId, page |-> "provider"]

DialogInit ==
    /\ dlg = Closed
    /\ req = [r \in Requests |-> Idle]
    /\ popup = NoPopup
    /\ link = [l \in LinkIds |-> [status |-> "new", provider |-> None]]
    /\ token \in SUBSET Providers
    /\ posted = {}
    /\ tries = 0
    /\ mixed = FALSE /\ strayed = FALSE
    /\ cause = NoLinkId
    /\ redeemed = {}

DialogWaits == dlg.open /\ dlg.step = "waiting"

-----------------------------------------------------------------------------
(* What the operator does to the dialog.                                   *)

\* openLink forgets the refs of the last dialog and closes no window.  The
\* dialog is modal: one that is open is closed first.
OpenLink(p) ==
    /\ ~dlg.open /\ tries < MaxTries
    /\ dlg' = [Closed EXCEPT !.open = TRUE, !.context = p, !.onLinked = TRUE,
                             !.completing = dlg.completing]
    /\ tries' = tries + 1
    /\ mixed' = FALSE
    /\ strayed' = (popup # NoPopup)
    /\ UNCHANGED <<req, popup, torii, posted, cause>>

CloseKeepsWindow ==  \* mutant: the popup is not closed with the dialog
    dlg' = Closed /\ UNCHANGED popup

\* close(): the popup is closed through the ref, and every ref is reset.
close ==
    /\ dlg' = Closed
    /\ popup' = IF dlg.authWindow THEN NoPopup ELSE popup

Cancel ==
    /\ dlg.open
    /\ close
    /\ UNCHANGED <<req, torii, posted, history>>

\* retry, offered by the error step, lets go of the window without closing it.
Retry ==
    /\ dlg.open /\ dlg.step = "error" /\ tries < MaxTries
    /\ dlg' = [dlg EXCEPT !.step = "initiating", !.authWindow = FALSE, !.url = NoLinkId,
                          !.activeLink = NoLinkId, !.linkedAtStart = FALSE, !.sawPending = FALSE]
    /\ tries' = tries + 1
    /\ mixed' = FALSE
    /\ strayed' = (popup # NoPopup)
    /\ UNCHANGED <<req, popup, torii, posted, cause>>

\* openAuthWindow: the window is closed and opened under the same name, or a
\* blocker refuses.
openAuthWindow(l, d) ==
    \/ /\ dlg' = [d EXCEPT !.url = l, !.authWindow = TRUE]
       /\ popup' = [link |-> l, page |-> "provider"]
       /\ strayed' = FALSE
       /\ UNCHANGED cause
    \/ /\ dlg' = [d EXCEPT !.url = l, !.step = "error"]
       /\ popup' = IF dlg.authWindow THEN NoPopup ELSE popup
       /\ cause' = NoLinkId
       /\ UNCHANGED strayed

\* reopenAuthorization: the waiting step always has a url, so the fallback to
\* beginAuthorization is dead code (DialogTypeOK).
Reopen ==
    /\ DialogWaits
    /\ openAuthWindow(dlg.url, dlg)
    /\ UNCHANGED <<req, torii, posted, tries, mixed>>

-----------------------------------------------------------------------------
(* Requests of the hook.  Both kinds begin with GET /api/oauth/connections. *)

Ask(r, kind) ==
    /\ req[r].at = "idle"
    /\ req' = [req EXCEPT ![r] = [Idle EXCEPT !.at = "asked", !.kind = kind,
                                      !.provider = dlg.context, !.try = tries]]

Begin(r) ==
    /\ dlg.open /\ dlg.step = "initiating" /\ ~dlg.submitting
    /\ Ask(r, "begin")
    /\ dlg' = [dlg EXCEPT !.submitting = TRUE]
    /\ UNCHANGED <<popup, torii, posted, history>>

\* The effect's microtask, its two timers and the button; the timers stop
\* while completeLinkedFlow is under way.
Poll(r) ==
    /\ DialogWaits
    /\ Ask(r, "poll")
    /\ UNCHANGED <<dlg, popup, torii, posted, history>>

\* listConnections reads the grants, then the latest link of each provider.
ReadGrants(r) ==
    /\ req[r].at = "asked"
    /\ req' = [req EXCEPT ![r] = [@ EXCEPT !.at = "torn", !.grant = req[r].provider \in token]]
    /\ UNCHANGED <<dlg, popup, torii, posted, history>>

Of(p) == {l \in LinkIds : link[l].provider = p}
GetOldest(p) == IF Of(p) = {} THEN NoLinkId ELSE Min(Of(p))  \* mutant: order reversed
GetLatest(p) == IF Of(p) = {} THEN NoLinkId ELSE Max(Of(p))

DeriveTokenFirst(grant, l) ==  \* mutant: a grant outweighs a link under way
    IF grant THEN "linked"
    ELSE IF l # NoLinkId /\ link[l].status \in {"pending", "called", "stored"} THEN "pending"
    ELSE IF l # NoLinkId /\ link[l].status = "failed" THEN "failed" ELSE "not_linked"

\* deriveOAuthLinkStatus, for tokens that are valid or can be renewed.  The
\* callback changes the row when it has finished.
DeriveStatus(grant, l) ==
    IF l # NoLinkId /\ link[l].status \in {"pending", "called", "stored"} THEN "pending"
    ELSE IF l # NoLinkId /\ link[l].status = "failed" THEN "failed"
    ELSE IF grant THEN "linked" ELSE "not_linked"

ReadLatest(r) ==
    LET l == GetLatest(req[r].provider) IN
    /\ req[r].at = "torn"
    /\ req' = [req EXCEPT ![r] = [@ EXCEPT !.at = "read", !.link = l,
                                         !.status = DeriveStatus(req[r].grant, l)]]
    /\ UNCHANGED <<dlg, popup, torii, posted, history>>

\* What request r makes of the dialog that is there when its answer comes.
Late(r) ==
    LET changed == dlg' # dlg \/ cause' # cause
    IN  mixed' = (mixed \/ (changed /\ (req[r].try # tries \/ ~dlg.open)))

Done(r) == req' = [req EXCEPT ![r] = Idle]

\* A poll that fails, on its way or in Torii, is ignored.
PollFails(r) ==
    /\ req[r].kind = "poll" /\ req[r].at = "read"
    /\ Done(r)
    /\ UNCHANGED <<dlg, popup, torii, posted, history>>

\* shouldAcceptLinkedOutcome.
ShouldAccept(r, saw) ==
    /\ req[r].status = "linked"
    /\ ~dlg.linkedAtStart \/ saw

\* pollConnectionStatus after its await.  A poll that finds the provider
\* linked runs completeLinkedFlow: it closes the window and, unless no one
\* wants to know, awaits onLinked, which reconnects servers.
PollAnswers(r) ==
    LET saw == dlg.sawPending \/ req[r].status = "pending"
        accepted == ShouldAccept(r, saw)
    IN
    /\ req[r].kind = "poll" /\ req[r].at = "read"
    /\ \/ /\ accepted /\ ~dlg.completing /\ dlg.onLinked
          /\ dlg' = [dlg EXCEPT !.completing = TRUE, !.onLinked = FALSE, !.authWindow = FALSE]
          /\ popup' = IF dlg.authWindow THEN NoPopup ELSE popup
          /\ req' = [req EXCEPT ![r].at = "completing"]
          /\ UNCHANGED cause
       \/ /\ accepted /\ ~dlg.completing /\ ~dlg.onLinked
          /\ close
          /\ Done(r)
          /\ UNCHANGED cause
       \/ /\ ~accepted \/ dlg.completing
          /\ dlg' = [dlg EXCEPT !.sawPending = saw,
                                !.step = IF req[r].status = "failed" THEN "error" ELSE @]
          /\ cause' = IF req[r].status = "failed" THEN req[r].link ELSE cause
          /\ Done(r)
          /\ UNCHANGED popup
    /\ UNCHANGED <<torii, posted, tries, strayed>>
    /\ Late(r)

\* The finally of completeLinkedFlow.
FlowEnds(r) ==
    /\ req[r].at = "completing"
    /\ close
    /\ Done(r)
    /\ UNCHANGED <<torii, posted, tries, strayed, cause>>
    /\ Late(r)

\* beginAuthorization, second part: POST /api/oauth/initiate.
BeginStatus(r) ==
    /\ req[r].kind = "begin" /\ req[r].at = "read"
    /\ dlg' = [dlg EXCEPT !.linkedAtStart = (req[r].status = "linked"), !.sawPending = FALSE]
    /\ req' = [req EXCEPT ![r] = [@ EXCEPT !.at = "posting", !.link = NoLinkId]]
    /\ UNCHANGED <<popup, torii, posted, tries, strayed, cause>>
    /\ Late(r)

CreateLink(r) ==
    LET unused == {l \in LinkIds : link[l].status = "new"} IN
    /\ req[r].at = "posting" /\ unused # {}
    /\ link' = [link EXCEPT ![Min(unused)] = [status |-> "pending", provider |-> req[r].provider]]
    /\ req' = [req EXCEPT ![r] = [@ EXCEPT !.at = "posted", !.link = Min(unused)]]
    /\ mixed' = (mixed \/ req[r].try # tries)
    /\ UNCHANGED <<dlg, popup, token, redeemed, posted, tries, strayed, cause>>

BeginOpensUnnamed(r) ==  \* mutant: activeLinkIdRef is not set
    LET d == [dlg EXCEPT !.step = "waiting", !.submitting = FALSE] IN
    /\ req[r].at = "posted"
    /\ openAuthWindow(req[r].link, d)
    /\ Done(r)
    /\ UNCHANGED <<torii, posted, tries>>
    /\ Late(r)

BeginOpens(r) ==
    LET d == [dlg EXCEPT !.activeLink = req[r].link, !.step = "waiting", !.submitting = FALSE] IN
    /\ req[r].at = "posted"
    /\ openAuthWindow(req[r].link, d)
    /\ Done(r)
    /\ UNCHANGED <<torii, posted, tries>>
    /\ Late(r)

\* Either call fails, or its answer is lost.
BeginFails(r) ==
    /\ req[r].kind = "begin" /\ req[r].at # "idle"
    /\ dlg' = [dlg EXCEPT !.step = "error", !.submitting = FALSE]
    /\ cause' = NoLinkId
    /\ Done(r)
    /\ UNCHANGED <<popup, torii, posted, tries, strayed>>
    /\ Late(r)

-----------------------------------------------------------------------------
(* The popup and the callback.                                             *)

Settled(l) == link[l].status \in {"completed", "failed"}

\* The operator grants access and the provider redirects to the callback,
\* which refuses a link that is not pending any more.  Two callbacks of one
\* link at once are the subject of OAuthGrants.
Consent ==
    LET l == popup.link IN
    /\ popup # NoPopup /\ popup.page = "provider"
    /\ \/ /\ link[l].status = "pending"
          /\ link' = [link EXCEPT ![l].status = "called"]
          /\ popup' = [popup EXCEPT !.page = "callback"]
       \/ /\ Settled(l)
          /\ popup' = [popup EXCEPT !.page = "refused"]
          /\ UNCHANGED link
    /\ UNCHANGED <<dlg, req, token, redeemed, posted, history>>

\* The provider redirects with an error: the link fails, whatever its status.
Deny ==
    LET l == popup.link IN
    /\ popup # NoPopup /\ popup.page = "provider"
    /\ link[l].status = "pending" \/ Settled(l)
    /\ link' = [link EXCEPT ![l].status = "failed"]
    /\ popup' = [popup EXCEPT !.page = "refused"]
    /\ UNCHANGED <<dlg, req, token, redeemed, posted, history>>

\* exchangeAndStoreToken, which goes on without the popup.
StoreToken(l) ==
    /\ link[l].status = "called"
    /\ \/ /\ link' = [link EXCEPT ![l].status = "stored"]
          /\ token' = token \cup {link[l].provider}
          /\ redeemed' = redeemed \cup {l}
       \/ /\ link' = [link EXCEPT ![l].status = "failed"]
          /\ UNCHANGED <<token, redeemed>>
    /\ UNCHANGED <<dlg, req, popup, posted, history>>

LinkCompletes(l) ==
    /\ link[l].status = "stored"
    /\ \E status \in {"completed", "failed"} : link' = [link EXCEPT ![l].status = status]
    /\ UNCHANGED <<dlg, req, popup, token, redeemed, posted, history>>

\* The answer's page tells its opener, if the provider's pages have left it
\* one, and closes itself.
PageLoads ==
    LET l == popup.link
        ok == popup.page = "callback" /\ link[l].status = "completed"
    IN
    /\ popup # NoPopup /\ popup.page # "provider" /\ Settled(l)
    /\ posted' \in {posted, posted \cup {[link |-> l, ok |-> ok]}}
    /\ popup' = NoPopup
    /\ strayed' = FALSE
    /\ UNCHANGED <<dlg, req, torii, tries, mixed, cause>>

ClosePopup ==
    /\ popup # NoPopup
    /\ popup' = NoPopup
    /\ strayed' = FALSE
    /\ UNCHANGED <<dlg, req, torii, posted, tries, mixed, cause>>

AnyMessage(m) ==  \* mutant: linkId is not compared
    DialogWaits /\ link[m.link].provider = dlg.context

\* The listener is there while the dialog waits, and takes what is about the
\* active link and its provider.
Concerns(m) ==
    /\ DialogWaits
    /\ m.link = dlg.activeLink /\ link[m.link].provider = dlg.context

DeliverMessage(m) ==
    /\ m \in posted
    /\ posted' = posted \ {m}
    /\ \/ /\ ~Concerns(m)
          /\ UNCHANGED <<dlg, req, cause>>
       \/ /\ Concerns(m) /\ ~m.ok
          /\ dlg' = [dlg EXCEPT !.step = "error"]
          /\ cause' = m.link
          /\ UNCHANGED req
       \/ /\ Concerns(m) /\ m.ok
          /\ dlg' = [dlg EXCEPT !.sawPending = TRUE]
          /\ \E r \in Requests : Ask(r, "poll")
          /\ UNCHANGED cause
    /\ UNCHANGED <<popup, torii, tries, mixed, strayed>>

-----------------------------------------------------------------------------
Operate ==
    \/ \E p \in Providers : OpenLink(p)
    \/ Cancel \/ Retry \/ Reopen
    \/ Consent \/ Deny \/ ClosePopup

Answered(r) ==
    \/ ReadGrants(r) \/ ReadLatest(r) \/ BeginStatus(r)
    \/ CreateLink(r) \/ BeginOpens(r) \/ FlowEnds(r)

DialogNext ==
    \/ Operate
    \/ \E r \in Requests : \/ Begin(r) \/ BeginFails(r) \/ Answered(r)
                           \/ Poll(r) \/ PollAnswers(r) \/ PollFails(r)
    \/ \E l \in LinkIds : StoreToken(l) \/ LinkCompletes(l)
    \/ PageLoads
    \/ \E m \in posted : DeliverMessage(m)

DialogSpec == DialogInit /\ [][DialogNext]_dialogVars

-----------------------------------------------------------------------------
(* Properties.                                                             *)

\* Types of the variables.  A dialog that waits has a link and its url.
DialogTypeOK ==
    /\ dlg \in [open: BOOLEAN, step: {"initiating", "waiting", "error"},
                context: Providers \cup {None}, submitting: BOOLEAN, onLinked: BOOLEAN,
                completing: BOOLEAN, authWindow: BOOLEAN, url: 0..MaxLinks,
                activeLink: 0..MaxLinks, linkedAtStart: BOOLEAN, sawPending: BOOLEAN]
    /\ dlg.open <=> dlg.context # None
    /\ dlg.step = "waiting" => dlg.activeLink # NoLinkId /\ dlg.url = dlg.activeLink
    /\ req \in [Requests -> [at: {"idle", "asked", "torn", "read", "posting", "posted", "completing"},
                             kind: {"begin", "poll"}, provider: Providers \cup {None},
                             try: 0..MaxTries, grant: BOOLEAN,
                             status: {"not_linked", "pending", "failed", "linked"},
                             link: 0..MaxLinks]]
    /\ popup \in [link: 0..MaxLinks, page: {"provider", "callback", "refused"}]
    /\ link \in [LinkIds -> [status: {"new", "pending", "called", "stored", "completed", "failed"},
                           provider: Providers \cup {None}]]
    /\ token \subseteq Providers
    /\ posted \subseteq [link: LinkIds, ok: BOOLEAN]
    /\ tries \in 0..MaxTries /\ cause \in 0..MaxLinks /\ redeemed \subseteq LinkIds
    /\ mixed \in BOOLEAN /\ strayed \in BOOLEAN

\* The dialog reports a link to the page that opened it only when the token of
\* this try's own link has been stored: neither a grant from before nor one
\* row read before the other was written counts (shouldAcceptLinkedOutcome),
\* unless a request of an earlier try came in.
LinkedIsStored ==
    [][dlg'.completing /\ ~dlg.completing /\ ~mixed' => dlg.activeLink \in redeemed]_dialogVars

\* The error step is about this try: it could not begin, or its own link has
\* failed or was refused, as long as no request of an earlier try came in
\* (the comparison of linkId in handleMessage, pollConnectionStatus).
ErrorsAreOwn ==
    dlg.open /\ dlg.step = "error" /\ ~mixed => cause \in {NoLinkId, dlg.activeLink}

\* A popup that is open belongs to the dialog, which can close it: none is
\* left when the dialog is gone.  Retry, and a request of an earlier try, may
\* lose one (close, completeLinkedFlow, openAuthWindow).
PopupIsHeld == popup # NoPopup /\ ~strayed /\ ~mixed => dlg.open /\ dlg.authWindow

\* A wait can end: once this try's link is settled, the next poll that gets
\* through closes the dialog or shows the error, although the callback page's
\* message may be lost.  An earlier try may interfere, and a provider that was
\* linked before must have been seen pending (pollConnectionStatus).
WaitCanEnd ==
    /\ DialogWaits /\ ~mixed /\ ~dlg.completing
    /\ Settled(dlg.activeLink)
    /\ dlg.linkedAtStart => dlg.sawPending
    => DeriveStatus(dlg.context \in token, GetLatest(dlg.context)) \in {"linked", "failed"}

\* The waiting step says "This dialog will close automatically when Torii
\* receives the callback": a completed link does not leave it with nothing
\* under way that could end the wait.
ClosesAutomatically ==
    /\ DialogWaits /\ link[dlg.activeLink].status = "completed"
    /\ popup = NoPopup /\ posted = {} /\ \A r \in Requests : req[r] = Idle
    => ~dlg.linkedAtStart \/ dlg.sawPending

\* The error step says "No grant was stored".
ErrorMeansNoGrant == dlg.open /\ dlg.step = "error" => dlg.activeLink \notin redeemed

\* A popup is opened for a dialog that is there.
PopupForOpenDialog == [][popup'.link # NoLinkId /\ popup.link = NoLinkId => dlg.open]_dialogVars

\* A dialog is closed by the operator or by a request of its own try.
ClosedByOwnTry ==
    [][dlg.open /\ ~dlg'.open =>
          ~\E r \in Requests : req[r].at # "idle" /\ req'[r] = Idle /\ req[r].try # tries]_dialogVars
=============================================================================
