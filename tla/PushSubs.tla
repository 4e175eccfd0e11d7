------------------------------- MODULE PushSubs -------------------------------
(***************************************************************************)
(* Web push subscriptions: the table of push.rs, the endpoints of web.rs   *)
(* that write it, and the tasks that send, which read a user's rows once   *)
(* and then await one push service after the other.                        *)
(*                                                                         *)
(* An endpoint is a device's subscription at its push service; the service *)
(* may give it up for good (404, 410).  Whoever is logged in on a device   *)
(* sends the same endpoint.  The debounce of the senders is not here.      *)
(***************************************************************************)
EXTENDS Naturals, FiniteSets

CONSTANTS
    Owners,
    Endpoints,
    PushLevels,  \* "important", "routine"
    MaxSubs,     \* PUSH_MAX_SUBS_PER_USER
    MaxMs,       \* bound: milliseconds that pass
    MaxCalls,    \* bound: requests to the endpoints
    MaxSends,    \* bound: notifications
    NoSub

ASSUME PushAssumption ==
    /\ MaxSubs \in Nat \ {0} /\ {MaxMs, MaxCalls, MaxSends} \subseteq Nat /\ Endpoints \subseteq Nat
    /\ NoSub \notin [owner: Owners, at: Nat, levels: SUBSET PushLevels]

VARIABLES
    subs,      \* push_subscriptions: endpoint -> row, or NoSub
    ms,        \* the clock
    dead,      \* endpoints the push service has given up
    sends,     \* send_to_user tasks: whose, and the rows still to be tried
    calls,     \* the bounds used
    asked      \* history: the request this step has served, <<>> if none

pushVars == <<subs, ms, dead, sends, calls, asked>>

Levels == SUBSET PushLevels
Sub == [owner: Owners, at: 0..MaxMs, levels: Levels]

PushTypeOK ==
    /\ subs \in [Endpoints -> Sub \cup {NoSub}] /\ ms \in 0..MaxMs /\ dead \subseteq Endpoints
    /\ sends \subseteq [id: 1..MaxSends, left: SUBSET Endpoints]
    /\ calls \in [ask: 0..MaxCalls, send: 0..MaxSends]
    /\ asked \in {<<>>} \cup ({"subscribe", "unsubscribe"} \X Owners \X Endpoints)

PushInit ==
    /\ subs = [e \in Endpoints |-> NoSub] /\ ms = 0 /\ dead = {} /\ sends = {}
    /\ calls = [ask |-> 0, send |-> 0]
    /\ asked = <<>>

OwnedBy(t, u) == {e \in Endpoints : t[e] # NoSub /\ t[e].owner = u}

(* ORDER BY created_ms DESC, endpoint DESC: e is listed before f.          *)
Before(t, e, f) == t[e].at > t[f].at \/ (t[e].at = t[f].at /\ e > f)

(* INSERT ... ON CONFLICT DO UPDATE ... WHERE the owner is the same        *)
Upserted(u, e, levels) ==
    IF subs[e] # NoSub /\ subs[e].owner # u THEN subs
    ELSE [subs EXCEPT ![e] = [owner |-> u, at |-> ms, levels |-> levels]]

(* mutant: without `endpoint <> ?3`                                        *)
PrunedTies(t, u, new) ==
    [e \in Endpoints |->
       IF e \in OwnedBy(t, u) /\ Cardinality({f \in OwnedBy(t, u) : Before(t, f, e)}) >= MaxSubs
       THEN NoSub ELSE t[e]]

(* The user's rows beyond the newest MaxSubs, the one just written exempt  *)
Pruned(t, u, new) ==
    [e \in Endpoints |->
       IF e \in OwnedBy(t, u) \ {new} /\ Cardinality({f \in OwnedBy(t, u) : Before(t, f, e)}) >= MaxSubs
       THEN NoSub ELSE t[e]]

(* push_subscribe and upsert: enablePush, resyncPush, setLevels            *)
Subscribe(u, e, levels) ==
    /\ e \notin dead /\ calls.ask < MaxCalls /\ calls' = [calls EXCEPT !.ask = @ + 1]
    /\ subs' = Pruned(Upserted(u, e, levels), u, e)
    /\ asked' = <<"subscribe", u, e>>
    /\ UNCHANGED <<ms, dead, sends>>

(* push_unsubscribe and delete_for_user, then the device's own             *)
Unsubscribe(u, e) ==
    /\ e \notin dead /\ calls.ask < MaxCalls /\ calls' = [calls EXCEPT !.ask = @ + 1]
    /\ subs' = IF e \in OwnedBy(subs, u) THEN [subs EXCEPT ![e] = NoSub] ELSE subs
    /\ asked' = <<"unsubscribe", u, e>>
    /\ UNCHANGED <<ms, dead, sends>>

(* kind_allowed_by_levels *)
Allowed(kind, levels) == kind = "test" \/ kind \in levels

(* send_to_user: one reading of the user's rows *)
Send(u, kind) ==
    /\ calls.send < MaxSends /\ calls' = [calls EXCEPT !.send = @ + 1]
    /\ sends' = sends \cup
         {[id |-> calls.send + 1,
           left |-> {e \in OwnedBy(subs, u) : Allowed(kind, subs[e].levels)}]}
    /\ UNCHANGED <<subs, ms, dead>> /\ asked' = <<>>

(* deliver_one and handle_delivery_outcome: only Gone removes the row,     *)
(* whoever owns it by now; any other failure leaves it.                    *)
Deliver(s, e) ==
    /\ e \in s.left
    /\ sends' = (sends \ {s}) \cup
                (IF s.left = {e} THEN {} ELSE {[s EXCEPT !.left = @ \ {e}]})
    /\ \/ e \in dead /\ subs' = [subs EXCEPT ![e] = NoSub]
       \/ UNCHANGED subs
    /\ UNCHANGED <<ms, dead, calls>> /\ asked' = <<>>

NothingToSend(s) ==
    s.left = {} /\ sends' = sends \ {s} /\ UNCHANGED <<subs, ms, dead, calls>> /\ asked' = <<>>

GiveUpEndpoint(e) == e \notin dead /\ dead' = dead \cup {e} /\ UNCHANGED <<subs, ms, sends, calls>> /\ asked' = <<>>
Millisecond == ms < MaxMs /\ ms' = ms + 1 /\ UNCHANGED <<subs, dead, sends, calls>> /\ asked' = <<>>

PushNext ==
    \/ \E u \in Owners, e \in Endpoints : Unsubscribe(u, e) \/ \E l \in Levels : Subscribe(u, e, l)
    \/ \E u \in Owners, kind \in PushLevels \cup {"test"} : Send(u, kind)
    \/ \E s \in sends : NothingToSend(s) \/ \E e \in Endpoints : Deliver(s, e)
    \/ \E e \in Endpoints : GiveUpEndpoint(e)
    \/ Millisecond

-----------------------------------------------------------------------------
(* A row keeps its owner as long as it is there.  It goes when its owner   *)
(* asks for it, when the push service has given the endpoint up, or when   *)
(* the owner just wrote another one and MaxSubs of his are at least as     *)
(* new: never the row just written, also not in a tie, nor another user's. *)
SubscriptionStep ==
    \A e \in Endpoints :
        /\ \A u \in Owners : asked' = <<"subscribe", u, e>> => subs'[e] # NoSub
        /\ subs[e] # NoSub =>
            LET u == subs[e].owner IN
            \/ subs'[e] # NoSub /\ subs'[e].owner = u
            \/ e \in dead
            \/ asked' = <<"unsubscribe", u, e>>
            \/ /\ \E f \in Endpoints \ {e} : asked' = <<"subscribe", u, f>>
               /\ Cardinality({f \in OwnedBy(subs', u) : subs'[f].at >= subs[e].at}) >= MaxSubs

SubscriptionsStand == [][SubscriptionStep]_pushVars
=============================================================================
