------------------------- MODULE BroadcastEventSink -------------------------
(***************************************************************************)
(* The event bus between the engine and the subscriptions                  *)
(* (quicforge-infra events.rs): a tokio broadcast channel, the engine      *)
(* publishing to it and each subscription reading it through a stream of   *)
(* its own that filters the lag markers out.                               *)
(*                                                                         *)
(* The channel keeps the last Slots events that were sent while somebody   *)
(* was subscribed; an event sent while nobody is, is dropped.  A           *)
(* subscription starts at the end of the channel and reads at its own      *)
(* pace; one that has been overtaken skips to the oldest event still kept. *)
(* An event is named by its number in the order of publication.            *)
(***************************************************************************)
EXTENDS Integers, Sequences

CONSTANTS
  Subscribers,   \* the subscriptions that may be opened
  Slots,         \* the size of the ring: capacity.max(1), rounded up by tokio
  MaxPublish     \* bound on the events published

ASSUME SinkAssumption ==
  /\ Slots \in Nat \ {0}
  /\ MaxPublish \in Nat

VARIABLES
  published,   \* how many events have been published
  channel,     \* the events that were sent, oldest first
  state,       \* state[s]: "new", "open" or "closed"
  next,        \* next[s]: the position in the channel s reads next
  since,       \* since[s]: how many events had been published when s opened
  got          \* got[s]: the events the stream has yielded

vars == <<published, channel, state, next, since, got>>

Init ==
  /\ published = 0
  /\ channel = <<>>
  /\ state = [s \in Subscribers |-> "new"]
  /\ next  = [s \in Subscribers |-> 1]
  /\ since = [s \in Subscribers |-> 0]
  /\ got   = [s \in Subscribers |-> <<>>]

\* The position of the oldest event the ring still holds.
Oldest == IF Len(channel) > Slots THEN Len(channel) - Slots + 1 ELSE 1

\* tx.send: an error, for want of a receiver, is ignored.
Publish ==
  /\ published < MaxPublish
  /\ published' = published + 1
  /\ channel' = IF \E s \in Subscribers : state[s] = "open"
                THEN Append(channel, published + 1)
                ELSE channel
  /\ UNCHANGED <<state, next, since, got>>

\* A receiver starts behind everything sent before it.
Start_Replay == Oldest
Start == Len(channel) + 1

Subscribe(s) ==
  /\ state[s] = "new"
  /\ state' = [state EXCEPT ![s] = "open"]
  /\ next'  = [next EXCEPT ![s] = Start]
  /\ since' = [since EXCEPT ![s] = published]
  /\ UNCHANGED <<published, channel, got>>

\* The stream yields the next event.
Deliver(s) ==
  /\ state[s] = "open"
  /\ next[s] \in Oldest..Len(channel)
  /\ got'  = [got EXCEPT ![s] = Append(@, channel[next[s]])]
  /\ next' = [next EXCEPT ![s] = @ + 1]
  /\ UNCHANGED <<published, channel, state, since>>

\* Where a receiver goes on that was overtaken.
Resume_AtTheEnd == Len(channel) + 1
Resume == Oldest

\* The receiver finds its next event overwritten; the marker is filtered out.
SkipLost(s) ==
  /\ state[s] = "open"
  /\ next[s] < Oldest
  /\ next' = [next EXCEPT ![s] = Resume]
  /\ UNCHANGED <<published, channel, state, since, got>>

\* The stream is dropped with its subscription.
Unsubscribe(s) ==
  /\ state[s] = "open"
  /\ state' = [state EXCEPT ![s] = "closed"]
  /\ UNCHANGED <<published, channel, next, since, got>>

Next ==
  \/ Publish
  \/ \E s \in Subscribers : Subscribe(s) \/ Deliver(s) \/ SkipLost(s) \/ Unsubscribe(s)

Spec == Init /\ [][Next]_vars

\* A subscriber that stays keeps polling its stream.
FairSpec == Spec /\ \A s \in Subscribers : WF_vars(Deliver(s) \/ SkipLost(s))

-----------------------------------------------------------------------------
\* Every variable has its type; a cursor is a position, also past the end.
TypeOK ==
  /\ published \in Nat
  /\ channel \in Seq(Nat)
  /\ state \in [Subscribers -> {"new", "open", "closed"}]
  /\ next \in [Subscribers -> Nat \ {0}]
  /\ since \in [Subscribers -> Nat]
  /\ got \in [Subscribers -> Seq(Nat)]

\* A subscriber sees events in the order they were published, none twice, and
\* none from before it subscribed.
InOrderSinceSubscribed ==
  \A s \in Subscribers : \A i \in 1..Len(got[s]) :
    /\ got[s][i] \in (since[s] + 1)..published
    /\ \A j \in 1..(i - 1) : got[s][j] < got[s][i]

\* A subscriber misses an event only if Slots later ones were published before
\* it got to it: one that never falls that far behind sees every event.
OnlyOverrunsAreLost ==
  \A s \in Subscribers : \A i \in 1..Len(got[s]) :
    \A e \in (since[s] + 1)..got[s][i] :
      \/ \E j \in 1..i : got[s][j] = e
      \/ e + Slots <= published

\* However far it fell behind, a subscriber that stays and reads ends up with
\* the latest event, so it learns how the last run ended.
EveryoneCatchesUp ==
  \A s \in Subscribers :
    <>[](state[s] = "open" /\ published > since[s] =>
           Len(got[s]) > 0 /\ got[s][Len(got[s])] = published)

-----------------------------------------------------------------------------
(* The inductive invariant: what the ring and a receiver's cursor promise  *)
(* about the events that are still to come.                                *)

\* The channel holds events in order, and as many were published since an
\* event as stand behind it.
ChannelInv ==
  \A p \in 1..Len(channel) :
    /\ channel[p] \in 1..published
    /\ channel[p] + (Len(channel) - p) <= published
    /\ \A q \in (p + 1)..Len(channel) : channel[p] < channel[q]

\* Nothing behind the cursor of a receiver is older than what it has got.
CursorInv(s) ==
  /\ next[s] \in 1..(Len(channel) + 1)
  /\ \A p \in next[s]..Len(channel) :
       /\ since[s] < channel[p]
       /\ \A i \in 1..Len(got[s]) : got[s][i] < channel[p]

\* Every event since s subscribed was seen, is still to come, or was overrun.
AccountedFor(s) ==
  \A e \in (since[s] + 1)..published :
    \/ \E i \in 1..Len(got[s]) : got[s][i] = e
    \/ \E p \in next[s]..Len(channel) : channel[p] = e
    \/ e + Slots <= published

\* The inductive invariant of the bus.
IInv ==
  /\ TypeOK
  /\ ChannelInv
  /\ \A s \in Subscribers :
       /\ since[s] <= published
       /\ state[s] = "new" => got[s] = <<>>
       /\ state[s] = "open" => CursorInv(s) /\ AccountedFor(s)
  /\ InOrderSinceSubscribed
  /\ OnlyOverrunsAreLost
=============================================================================
