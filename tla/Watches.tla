------------------------------- MODULE Watches -------------------------------
(***************************************************************************)
(* Directory watchers, through the three layers that hold them: the        *)
(* subscription (subscribe, unsubscribe, src/wire.ts), the gateway that    *)
(* ties its lease to a resource owner and to an authority of its own       *)
(* (watchDirectory, src/capability-broker.ts) and the lease of the native  *)
(* watcher (watchDirectory, src/path-policy.ts).  Each of the three can be *)
(* closed first, and closes the others.                                    *)
(*                                                                         *)
(* Abstracted: the looks at the directory are one step that may fail; the  *)
(* owner is that of one run, whose retirement calls its closers in one go; *)
(* the path authorities are the runtime's and one per watcher.             *)
(***************************************************************************)
EXTENDS Naturals

CONSTANTS
  Watchers,      \* subscriptions
  MaxQueued      \* bound on the events that wait for the one being looked at

ASSUME WatchAssumption == MaxQueued \in Nat \ {0}

VARIABLES
  watchOwner,    \* the resource owner of the run
  runtimePaths,  \* the runtime's path authority is active
  watch          \* the watchers

watchVars == <<watchOwner, runtimePaths, watch>>

\* How far subscribe is.
Opening == {"none", "checking", "created", "prepared", "rejected", "leased", "denied", "done"}

WatchTypeOK ==
  /\ watchOwner \in {"active", "draining", "drained"}
  /\ runtimePaths \in BOOLEAN
  /\ watch \in [Watchers ->
       [opening   : Opening,
        closed    : BOOLEAN,   \* Subscription.closed
        lease     : BOOLEAN,   \* Subscription.lease is set
        authority : BOOLEAN,   \* the watcher's path authority is active
        owned     : {"no", "registered", "retired"},   \* the gateway's closer
        requested : BOOLEAN,   \* closeRequested, with it the gateway's closePromise
        released  : BOOLEAN,   \* the gateway's closed
        active    : BOOLEAN,   \* the lease is
        native    : {"none", "open", "closing", "closed"},
        queued    : 0..MaxQueued,
        event     : {"none", "checking", "checked", "ending"}]]

WatchInit ==
  /\ watchOwner = "active"
  /\ runtimePaths = TRUE
  /\ watch = [w \in Watchers |->
       [opening |-> "none", closed |-> FALSE, lease |-> FALSE, authority |-> FALSE,
        owned |-> "no", requested |-> FALSE, released |-> FALSE, active |-> TRUE,
        native |-> "none", queued |-> 0, event |-> "none"]]

Update(w, new) == watch' = [watch EXCEPT ![w] = new]

-----------------------------------------------------------------------------
(* Closing, layer by layer; each on the record of one watcher.             *)

\* close of the native watcher's lease.
LeaseClosed(r) ==
  [r EXCEPT !.active = FALSE, !.native = IF @ = "open" THEN "closing" ELSE @]

\* The gateway is initialized, and has the lease of a watcher that was created.
Initialized(r) == r.opening \in {"leased", "denied", "done"}

Leased(r) == Initialized(r) /\ r.native # "none"

\* Fault: the gateway closes what it has and does not wait for the rest.
GatewayClosedEarly(r) ==
  LET closing == [r EXCEPT !.requested = TRUE, !.authority = FALSE]
  IN  IF Leased(r) THEN LeaseClosed(closing)
      ELSE [closing EXCEPT !.released = TRUE, !.owned = "no"]

\* The gateway's close: at once where its lease exists, or when it is initialized.
GatewayClosed(r) ==
  LET closing == [r EXCEPT !.requested = TRUE, !.authority = FALSE]
  IN  IF Leased(r) THEN LeaseClosed(closing) ELSE closing

\* closeSubscription, which has nothing to close before the lease is stored.
SubscriptionClosed(r) ==
  IF r.closed THEN r
  ELSE IF r.lease THEN GatewayClosed([r EXCEPT !.closed = TRUE])
  ELSE [r EXCEPT !.closed = TRUE]

\* The gateway's close goes on: its lease is closed, and so it is no longer owned.
GatewayReleases(w) ==
  LET r == watch[w]
  IN  /\ r.requested /\ ~r.released /\ Initialized(r)
      /\ Leased(r) => r.native = "closed"
      /\ Update(w, [r EXCEPT !.released = TRUE, !.owned = "no"])
      /\ UNCHANGED <<watchOwner, runtimePaths>>

\* The subscription follows the gateway's closed.
SubscriptionFollows(w) ==
  LET r == watch[w]
  IN  /\ r.opening = "done" /\ r.lease /\ r.released /\ ~r.closed
      /\ Update(w, SubscriptionClosed(r))
      /\ UNCHANGED <<watchOwner, runtimePaths>>

-----------------------------------------------------------------------------
(* subscribe.                                                              *)

\* Up to the first look at the directory: both closers are registered.
Subscribe(w) ==
  /\ watch[w].opening = "none" /\ watchOwner = "active" /\ runtimePaths
  /\ Update(w, [watch[w] EXCEPT !.opening = "checking", !.owned = "registered",
                                !.authority = TRUE])
  /\ UNCHANGED <<watchOwner, runtimePaths>>

\* The looks fail; a root that is not the same any more takes the runtime's authority
\* with it.
WatchDenied(w) ==
  /\ watch[w].opening = "checking"
  /\ runtimePaths' \in {runtimePaths, FALSE}
  /\ watch' = [v \in Watchers |->
       [watch[v] EXCEPT !.opening = IF v = w THEN "rejected" ELSE @,
                        !.authority = @ /\ runtimePaths']]
  /\ UNCHANGED watchOwner

\* The last look at the authority and the creation of the watcher are one step.
CreateWatcher(w) ==
  /\ watch[w].opening = "checking" /\ watch[w].authority
  /\ Update(w, [watch[w] EXCEPT !.opening = "created", !.native = "open"])
  /\ UNCHANGED <<watchOwner, runtimePaths>>

\* The watcher may have failed in the meantime: then the lease is closed again and the
\* call rejected.
WatcherCreated(w) ==
  LET r == watch[w]
  IN  /\ r.opening = "created"
      /\ IF r.active
           THEN Update(w, [r EXCEPT !.opening = "prepared"])
           ELSE r.native = "closed" /\ Update(w, [r EXCEPT !.opening = "rejected"])
      /\ UNCHANGED <<watchOwner, runtimePaths>>

\* The gateway has its lease and returns it; a lease that somebody has closed
\* meanwhile is closed and the call denied, like one that was rejected.
GatewayInitialized(w) ==
  LET r == watch[w]
  IN  /\ r.opening \in {"prepared", "rejected"}
      /\ Update(w, IF r.opening = "rejected" \/ r.requested \/ ~r.active
                     THEN GatewayClosed([r EXCEPT !.opening = "denied"])
                     ELSE [r EXCEPT !.opening = "leased"])
      /\ UNCHANGED <<watchOwner, runtimePaths>>

\* subscribe stores the lease; one that is closed already closes the subscription, one
\* of a subscription that was closed meanwhile is left to its owner.
Subscribed(w) ==
  LET stored == [watch[w] EXCEPT !.opening = "done", !.lease = TRUE]
  IN  /\ watch[w].opening = "leased"
      /\ Update(w, IF stored.requested \/ ~stored.active THEN SubscriptionClosed(stored) ELSE stored)
      /\ UNCHANGED <<watchOwner, runtimePaths>>

SubscribeFails(w) ==
  /\ watch[w].opening = "denied" /\ watch[w].released
  /\ Update(w, SubscriptionClosed([watch[w] EXCEPT !.opening = "done"]))
  /\ UNCHANGED <<watchOwner, runtimePaths>>

\* unsubscribe finds a subscription from the moment it is being opened.
Unsubscribe(w) ==
  /\ watchOwner = "active" /\ watch[w].opening # "none" /\ ~watch[w].closed
  /\ Update(w, SubscriptionClosed(watch[w]))
  /\ UNCHANGED <<watchOwner, runtimePaths>>

-----------------------------------------------------------------------------
(* The native watcher.                                                     *)

\* It fails and is closed, or its closing is done.
NativeFails(w) ==
  /\ watch[w].native = "open"
  /\ Update(w, LeaseClosed(watch[w]))
  /\ UNCHANGED <<watchOwner, runtimePaths>>

\* Its close event; a gateway that has the lease closes with it.
NativeClosed(w) ==
  LET closed == [watch[w] EXCEPT !.native = "closed", !.active = FALSE]
  IN  /\ watch[w].native = "closing"
      /\ Update(w, IF Leased(closed) THEN GatewayClosed(closed) ELSE closed)
      /\ UNCHANGED <<watchOwner, runtimePaths>>

EventArrives(w) ==
  /\ watch[w].native = "open" /\ watch[w].queued < MaxQueued
  /\ Update(w, [watch[w] EXCEPT !.queued = @ + 1])
  /\ UNCHANGED <<watchOwner, runtimePaths>>

\* Fault: the looks begin whether or not an event waits for them.
EventBeginsUnasked(w) ==
  /\ watch[w].event = "none" /\ watch[w].active
  /\ Update(w, [watch[w] EXCEPT !.event = "checking", !.queued = @ - 1])
  /\ UNCHANGED <<watchOwner, runtimePaths>>

\* authorizeEvent begins with the next event, when the one before is done.
EventBegins(w) ==
  LET r == [watch[w] EXCEPT !.queued = @ - 1]
  IN  /\ watch[w].queued > 0 /\ watch[w].event = "none"
      /\ Update(w, IF ~r.active THEN r
                   ELSE IF ~r.authority THEN LeaseClosed([r EXCEPT !.event = "ending"])
                   ELSE [r EXCEPT !.event = "checking"])
      /\ UNCHANGED <<watchOwner, runtimePaths>>

\* The looks at the root, the directory and the entry.
EventChecked(w) ==
  LET r == watch[w]
  IN  /\ r.event = "checking"
      /\ \/ r.authority /\ Update(w, [r EXCEPT !.event = "checked"]) /\ UNCHANGED runtimePaths
         \/ /\ runtimePaths' \in {runtimePaths, FALSE}
            /\ watch' = [v \in Watchers |->
                 LET seen == [watch[v] EXCEPT !.authority = @ /\ runtimePaths']
                 IN  IF v = w THEN LeaseClosed([seen EXCEPT !.event = "ending"]) ELSE seen]
      /\ UNCHANGED watchOwner

\* Published to a subscription that is open, or the end of the lease.
EventPublished(w) ==
  LET r == watch[w]
  IN  /\ r.event = "checked"
      /\ Update(w, IF r.active /\ r.authority THEN [r EXCEPT !.event = "none"]
                   ELSE LeaseClosed([r EXCEPT !.event = "ending"]))
      /\ UNCHANGED <<watchOwner, runtimePaths>>

\* The event that ended the lease waits for the watcher to be closed.
EventEnds(w) ==
  /\ watch[w].event = "ending" /\ watch[w].native = "closed"
  /\ Update(w, [watch[w] EXCEPT !.event = "none"])
  /\ UNCHANGED <<watchOwner, runtimePaths>>

-----------------------------------------------------------------------------
(* The run and the runtime.                                                *)

\* revoke of the runtime's path authority, when the runtime is retired.
RevokePaths ==
  /\ runtimePaths /\ runtimePaths' = FALSE
  /\ watch' = [w \in Watchers |-> [watch[w] EXCEPT !.authority = FALSE]]
  /\ UNCHANGED watchOwner

\* retireResourceOwner calls the subscription's closer and the gateway's.
RetireWatchOwner ==
  /\ watchOwner = "active"
  /\ watchOwner' = "draining"
  /\ watch' = [w \in Watchers |->
       IF watch[w].owned # "registered" THEN watch[w]
       ELSE GatewayClosed(SubscriptionClosed([watch[w] EXCEPT !.owned = "retired"]))]
  /\ UNCHANGED runtimePaths

WatchOwnerDrained ==
  /\ watchOwner = "draining" /\ \A w \in Watchers : watch[w].owned = "no"
  /\ watchOwner' = "drained"
  /\ UNCHANGED <<runtimePaths, watch>>

WatchNext ==
  \/ \E w \in Watchers :
       \/ GatewayReleases(w)
       \/ SubscriptionFollows(w)
       \/ Subscribe(w)
       \/ WatchDenied(w)
       \/ CreateWatcher(w)
       \/ WatcherCreated(w)
       \/ GatewayInitialized(w)
       \/ Subscribed(w)
       \/ SubscribeFails(w)
       \/ Unsubscribe(w)
       \/ NativeFails(w)
       \/ NativeClosed(w)
       \/ EventArrives(w)
       \/ EventBegins(w)
       \/ EventChecked(w)
       \/ EventPublished(w)
       \/ EventEnds(w)
  \/ RevokePaths
  \/ RetireWatchOwner
  \/ WatchOwnerDrained

WatchSpec == WatchInit /\ [][WatchNext]_watchVars

-----------------------------------------------------------------------------

\* Once the owner of a run is drained no native watcher of it is open, and a watcher
\* that nobody owns any more is closed: whichever of subscription, gateway and lease was
\* closed first, before, while or after the watcher was created
\* (src/capability-broker.ts:583-650, src/wire.ts:33-90, src/path-policy.ts:1325-1465).
WatchersEnd ==
  /\ watchOwner = "drained" => \A w \in Watchers : watch[w].native \in {"none", "closed"}
  /\ \A w \in Watchers : watch[w].native = "open" => watch[w].owned # "no"
=============================================================================
