----------------------- MODULE BroadcastEventSinkProofs -----------------------
(***************************************************************************)
(* Proofs about BroadcastEventSink, for any number of subscriptions, any   *)
(* size of the ring and any number of events.                              *)
(***************************************************************************)
EXTENDS BroadcastEventSink, TLAPS

\* What the ring holds is all there is: a bound used by every action.
LEMMA OldestInRange ==
  ASSUME TypeOK
  PROVE  /\ Len(channel) \in Nat
         /\ Oldest \in 1..(Len(channel) + 1)
         /\ \A p \in 1..Len(channel) : p < Oldest => p + Slots <= Len(channel)
BY SinkAssumption DEF TypeOK, Oldest

LEMMA InitIInv == Init => IInv
<1>. SUFFICES ASSUME Init PROVE IInv
  OBVIOUS
<1>1. TypeOK
  BY DEF Init, TypeOK
<1>2. ChannelInv
  BY DEF Init, ChannelInv
<1>3. InOrderSinceSubscribed /\ OnlyOverrunsAreLost
  BY DEF Init, InOrderSinceSubscribed, OnlyOverrunsAreLost
<1>4. ASSUME NEW s \in Subscribers
      PROVE  got[s] = <<>> /\ state[s] = "new" /\ since[s] <= published
  BY DEF Init
<1>. QED
  BY <1>1, <1>2, <1>3, <1>4 DEF IInv

-----------------------------------------------------------------------------
(* One lemma per action.                                                   *)

LEMMA PublishKeepsIInv ==
  ASSUME IInv, Publish
  PROVE  IInv'
<1>. USE DEF IInv, TypeOK
<1>1. published' = published + 1 /\ UNCHANGED <<state, next, since, got>>
  BY DEF Publish
<1>2. CASE \E s \in Subscribers : state[s] = "open"
  <2>1. channel' = Append(channel, published + 1)
    BY <1>2 DEF Publish
  <2>2. /\ Len(channel') = Len(channel) + 1
        /\ channel'[Len(channel) + 1] = published + 1
        /\ \A p \in 1..Len(channel) : channel'[p] = channel[p]
    BY <2>1
  <2>3. TypeOK'
    BY <1>1, <2>1
  <2>4. ChannelInv'
    <3>. SUFFICES ASSUME NEW p \in 1..(Len(channel) + 1)
                  PROVE  /\ channel'[p] \in 1..(published + 1)
                         /\ channel'[p] + (Len(channel) + 1 - p) <= published + 1
                         /\ \A q \in (p + 1)..(Len(channel) + 1) : channel'[p] < channel'[q]
      BY <1>1, <2>2 DEF ChannelInv
    <3>1. CASE p = Len(channel) + 1
      BY <2>2, <3>1
    <3>2. CASE p \in 1..Len(channel)
      <4>1. /\ channel[p] \in 1..published
            /\ channel[p] + (Len(channel) - p) <= published
            /\ \A q \in (p + 1)..Len(channel) : channel[p] < channel[q]
        BY <3>2 DEF ChannelInv
      <4>2. ASSUME NEW q \in (p + 1)..(Len(channel) + 1)
            PROVE  channel'[p] < channel'[q]
        <5>1. CASE q = Len(channel) + 1
          BY <5>1, <2>2, <3>2, <4>1
        <5>2. CASE q \in (p + 1)..Len(channel)
          <6>1. q \in 1..Len(channel)
            BY <5>2, <3>2
          <6>. QED
            BY <5>2, <6>1, <2>2, <3>2, <4>1
        <5>. QED
          BY <5>1, <5>2, <3>2
      <4>. QED
        BY <2>2, <3>2, <4>1, <4>2
    <3>. QED
      BY <3>1, <3>2
  <2>5. ASSUME NEW s \in Subscribers, state[s] = "open"
        PROVE  CursorInv(s)' /\ AccountedFor(s)'
    <3>1. CursorInv(s) /\ AccountedFor(s)
      BY <2>5
    <3>2. since[s] \in Nat /\ next[s] \in Nat \ {0} /\ got[s] \in Seq(Nat)
      OBVIOUS
    <3>3. \A i \in 1..Len(got[s]) : got[s][i] \in (since[s] + 1)..published
      BY DEF InOrderSinceSubscribed
    <3>4. since[s] <= published
      OBVIOUS
    <3>5. CursorInv(s)'
      <4>1. next[s] \in 1..(Len(channel') + 1)
        BY <2>2, <3>1 DEF CursorInv
      <4>2. ASSUME NEW p \in next[s]..Len(channel')
            PROVE  /\ since[s] < channel'[p]
                   /\ \A i \in 1..Len(got[s]) : got[s][i] < channel'[p]
        <5>1. CASE p = Len(channel) + 1
          BY <5>1, <2>2, <3>2, <3>3, <3>4
        <5>2. CASE p \in next[s]..Len(channel)
          <6>1. p \in 1..Len(channel)
            BY <5>2, <3>2
          <6>. QED
            BY <5>2, <6>1, <2>2, <3>1 DEF CursorInv
        <5>. QED
          BY <5>1, <5>2, <2>2, <3>2
      <4>. QED
        BY <1>1, <4>1, <4>2 DEF CursorInv
    <3>6. AccountedFor(s)'
      <4>. SUFFICES ASSUME NEW e \in (since[s] + 1)..(published + 1)
                    PROVE  \/ \E i \in 1..Len(got[s]) : got[s][i] = e
                           \/ \E p \in next[s]..Len(channel') : channel'[p] = e
                           \/ e + Slots <= published + 1
        BY <1>1 DEF AccountedFor
      <4>1. CASE e = published + 1
        <5>1. Len(channel) + 1 \in next[s]..Len(channel')
          BY <2>2, <3>1, <3>2 DEF CursorInv
        <5>. QED
          BY <4>1, <5>1, <2>2
      <4>2. CASE e \in (since[s] + 1)..published
        <5>1. CASE \E p \in next[s]..Len(channel) : channel[p] = e
          <6>1. PICK p \in next[s]..Len(channel) : channel[p] = e
            BY <5>1
          <6>. QED
            BY <6>1, <2>2, <3>2
        <5>2. CASE e + Slots <= published
          BY <5>2, <3>2, SinkAssumption
        <5>. QED
          BY <4>2, <5>1, <5>2, <3>1 DEF AccountedFor
      <4>. QED
        BY <4>1, <4>2, <3>2
    <3>. QED
      BY <3>5, <3>6
  <2>6. InOrderSinceSubscribed' /\ OnlyOverrunsAreLost'
    BY <1>1, SinkAssumption DEF InOrderSinceSubscribed, OnlyOverrunsAreLost
  <2>. QED
    BY <1>1, <2>3, <2>4, <2>5, <2>6
<1>3. CASE ~\E s \in Subscribers : state[s] = "open"
  <2>1. channel' = channel
    BY <1>3 DEF Publish
  <2>2. TypeOK'
    BY <1>1, <2>1
  <2>3. ChannelInv'
    BY <1>1, <2>1 DEF ChannelInv
  <2>4. InOrderSinceSubscribed' /\ OnlyOverrunsAreLost'
    BY <1>1, SinkAssumption DEF InOrderSinceSubscribed, OnlyOverrunsAreLost
  <2>. QED
    BY <1>1, <1>3, <2>2, <2>3, <2>4
<1>. QED
  BY <1>2, <1>3

\* The properties are about the channel and what was got from it.
LEMMA NothingSeen ==
  ASSUME ChannelInv, InOrderSinceSubscribed, OnlyOverrunsAreLost,
         UNCHANGED <<published, channel, since, got>>
  PROVE  ChannelInv' /\ InOrderSinceSubscribed' /\ OnlyOverrunsAreLost'
BY DEF ChannelInv, InOrderSinceSubscribed, OnlyOverrunsAreLost

LEMMA SubscribeKeepsIInv ==
  ASSUME IInv, NEW s \in Subscribers, Subscribe(s)
  PROVE  IInv'
<1>. USE DEF IInv, TypeOK
<1>1. /\ state[s] = "new"
      /\ state' = [state EXCEPT ![s] = "open"]
      /\ next'  = [next EXCEPT ![s] = Len(channel) + 1]
      /\ since' = [since EXCEPT ![s] = published]
      /\ UNCHANGED <<published, channel, got>>
  BY DEF Subscribe, Start
<1>2. got[s] = <<>> /\ Len(got[s]) = 0
  BY <1>1
<1>3. TypeOK'
  BY <1>1
<1>4. ChannelInv'
  BY <1>1 DEF ChannelInv
<1>5. ASSUME NEW t \in Subscribers
      PROVE  /\ since'[t] <= published
             /\ state'[t] = "new" => got[t] = <<>>
             /\ state'[t] = "open" => CursorInv(t)' /\ AccountedFor(t)'
  <2>1. CASE t = s
    <3>1. next'[s] = Len(channel) + 1 /\ since'[s] = published /\ state'[s] = "open"
      BY <1>1
    <3>2. CursorInv(s)' /\ AccountedFor(s)'
      BY <1>1, <3>1 DEF CursorInv, AccountedFor
    <3>. QED
      BY <2>1, <3>1, <3>2
  <2>2. CASE t # s
    BY <2>2, <1>1 DEF CursorInv, AccountedFor
  <2>. QED
    BY <2>1, <2>2
<1>6. InOrderSinceSubscribed' /\ OnlyOverrunsAreLost'
  <2>1. published' = published /\ got' = got
    BY <1>1
  <2>2. ASSUME NEW t \in Subscribers, NEW i \in 1..Len(got'[t])
        PROVE  i \in 1..Len(got[t]) /\ since'[t] = since[t]
    BY <1>1, <1>2
  <2>3. InOrderSinceSubscribed'
    BY <2>1, <2>2 DEF InOrderSinceSubscribed
  <2>4. OnlyOverrunsAreLost'
    <3>. SUFFICES ASSUME NEW t \in Subscribers, NEW i \in 1..Len(got'[t]),
                         NEW e \in (since'[t] + 1)..got'[t][i]
                  PROVE  (\E j \in 1..i : got'[t][j] = e) \/ e + Slots <= published'
      BY Zenon DEF OnlyOverrunsAreLost
    <3>. QED
      BY <2>1, <2>2 DEF OnlyOverrunsAreLost
  <2>. QED
    BY <2>3, <2>4
<1>. QED
  BY <1>1, <1>3, <1>4, <1>5, <1>6

LEMMA DeliverKeepsIInv ==
  ASSUME IInv, NEW s \in Subscribers, Deliver(s)
  PROVE  IInv'
<1>. DEFINE n == next[s]
            ev == channel[n]
<1>0. /\ published \in Nat /\ channel \in Seq(Nat)
      /\ next \in [Subscribers -> Nat \ {0}]
      /\ since \in [Subscribers -> Nat]
      /\ got \in [Subscribers -> Seq(Nat)]
      /\ TypeOK /\ ChannelInv
      /\ \A t \in Subscribers :
           /\ since[t] <= published
           /\ state[t] = "new" => got[t] = <<>>
           /\ state[t] = "open" => CursorInv(t) /\ AccountedFor(t)
      /\ InOrderSinceSubscribed /\ OnlyOverrunsAreLost
  BY DEF IInv, TypeOK
<1>a. CursorInv(s) /\ AccountedFor(s)
  BY DEF IInv, Deliver
<1>1. /\ state[s] = "open"
      /\ n \in 1..Len(channel)
      /\ got'  = [got EXCEPT ![s] = Append(got[s], ev)]
      /\ next' = [next EXCEPT ![s] = n + 1]
      /\ UNCHANGED <<published, channel, state, since>>
  BY <1>0, OldestInRange DEF Deliver
<1>2. /\ got[s] \in Seq(Nat) /\ ev \in 1..published
      /\ got'[s] = Append(got[s], ev)
      /\ Len(got'[s]) = Len(got[s]) + 1
      /\ got'[s][Len(got[s]) + 1] = ev
      /\ \A i \in 1..Len(got[s]) : got'[s][i] = got[s][i]
      /\ next'[s] = n + 1
      /\ \A t \in Subscribers \ {s} : got'[t] = got[t] /\ next'[t] = next[t]
  BY <1>0, <1>1 DEF ChannelInv
<1>3. /\ since[s] < ev /\ since[s] \in Nat
      /\ \A i \in 1..Len(got[s]) : got[s][i] < ev
      /\ \A p \in (n + 1)..Len(channel) : ev < channel[p] /\ since[s] < channel[p]
  <2>1. CursorInv(s)
    BY <1>a
  <2>2. n \in n..Len(channel) /\ \A p \in (n + 1)..Len(channel) : p \in n..Len(channel)
    BY <1>1
  <2>3. since[s] < ev /\ \A i \in 1..Len(got[s]) : got[s][i] < ev
    BY <1>0, <2>1, <2>2 DEF CursorInv
  <2>4. \A p \in (n + 1)..Len(channel) : ev < channel[p]
    BY <1>0, <1>1 DEF ChannelInv
  <2>5. \A p \in (n + 1)..Len(channel) : since[s] < channel[p]
    BY <2>1, <2>2 DEF CursorInv
  <2>. QED
    BY <1>0, <2>3, <2>4, <2>5
<1>4. TypeOK'
  BY <1>0, <1>1, <1>2 DEF TypeOK
<1>5. ChannelInv'
  BY <1>0, <1>1 DEF ChannelInv
<1>. HIDE DEF n, ev
<1>6. CursorInv(s)'
  <2>1. \A p \in (n + 1)..Len(channel) : \A i \in 1..(Len(got[s]) + 1) : got'[s][i] < channel[p]
    <3>. SUFFICES ASSUME NEW p \in (n + 1)..Len(channel), NEW i \in 1..(Len(got[s]) + 1)
                  PROVE  got'[s][i] < channel[p]
      OBVIOUS
    <3>1. CASE i = Len(got[s]) + 1
      BY <3>1, <1>2, <1>3
    <3>2. CASE i \in 1..Len(got[s])
      <4>1. CursorInv(s) /\ p \in n..Len(channel)
        BY <1>a, <1>1
      <4>. QED
        BY <3>2, <4>1, <1>2 DEF CursorInv, n
    <3>. QED
      BY <3>1, <3>2, <1>2
  <2>2. n + 1 \in 1..(Len(channel) + 1)
    BY <1>1
  <2>3. /\ next'[s] = n + 1 /\ Len(got'[s]) = Len(got[s]) + 1
        /\ channel' = channel /\ since' = since
    BY <1>1, <1>2
  <2>. QED
    BY <2>1, <2>2, <2>3, <1>3 DEF CursorInv
<1>7. ASSUME NEW e \in (since[s] + 1)..published
      PROVE  \/ \E i \in 1..(Len(got[s]) + 1) : got'[s][i] = e
             \/ \E p \in (n + 1)..Len(channel) : channel[p] = e
             \/ e + Slots <= published
  <2>1. CASE \E i \in 1..Len(got[s]) : got[s][i] = e
    <3>1. PICK i \in 1..Len(got[s]) : got[s][i] = e
      BY <2>1
    <3>2. i \in 1..(Len(got[s]) + 1) /\ got'[s][i] = e
      BY <3>1, <1>2
    <3>. QED
      BY <3>2
  <2>2. CASE \E p \in n..Len(channel) : channel[p] = e
    <3>1. PICK p \in n..Len(channel) : channel[p] = e
      BY <2>2
    <3>2. p = n \/ p \in (n + 1)..Len(channel)
      BY <1>1
    <3>3. CASE p = n
      <4>1. got'[s][Len(got[s]) + 1] = e /\ Len(got[s]) + 1 \in 1..(Len(got[s]) + 1)
        BY <3>1, <3>3, <1>2 DEF ev
      <4>. QED
        BY <4>1
    <3>4. CASE p \in (n + 1)..Len(channel)
      BY <3>1, <3>4
    <3>. QED
      BY <3>2, <3>3, <3>4
  <2>3. AccountedFor(s)
    BY <1>a
  <2>. QED
    BY <2>1, <2>2, <2>3 DEF AccountedFor, n
<1>8. AccountedFor(s)'
  BY <1>1, <1>2, <1>7 DEF AccountedFor
<1>9. \A t \in Subscribers \ {s} : /\ CursorInv(t) => CursorInv(t)'
                                   /\ AccountedFor(t) => AccountedFor(t)'
  BY <1>1, <1>2 DEF CursorInv, AccountedFor
<1>10. InOrderSinceSubscribed'
  <2>. SUFFICES ASSUME NEW t \in Subscribers, NEW i \in 1..Len(got'[t])
                PROVE  /\ got'[t][i] \in (since[t] + 1)..published
                       /\ \A j \in 1..(i - 1) : got'[t][j] < got'[t][i]
    BY <1>1 DEF InOrderSinceSubscribed
  <2>1. CASE t = s /\ i = Len(got[s]) + 1
    BY <2>1, <1>2, <1>3
  <2>2. CASE t = s /\ i \in 1..Len(got[s])
    BY <2>2, <1>0, <1>2 DEF InOrderSinceSubscribed
  <2>3. CASE t # s
    BY <2>3, <1>0, <1>2 DEF InOrderSinceSubscribed
  <2>. QED
    <3>1. t = s => i = Len(got[s]) + 1 \/ i \in 1..Len(got[s])
      BY <1>2
    <3>. QED
      BY <2>1, <2>2, <2>3, <3>1
<1>11. OnlyOverrunsAreLost'
  <2>. SUFFICES ASSUME NEW t \in Subscribers, NEW i \in 1..Len(got'[t]),
                       NEW e \in (since[t] + 1)..got'[t][i]
                PROVE  \/ \E j \in 1..i : got'[t][j] = e
                       \/ e + Slots <= published
    <3>1. published' = published /\ since' = since
      BY <1>1
    <3>. QED
      BY <3>1, Zenon DEF OnlyOverrunsAreLost
  <2>1. CASE t = s /\ i = Len(got[s]) + 1
    <3>1. e \in (since[s] + 1)..published /\ e <= ev
      <4>1. got'[t][i] = ev /\ since[t] = since[s]
        BY <2>1, <1>2
      <4>. QED
        <5>1. e \in (since[s] + 1)..ev /\ since[s] \in Nat /\ ev \in 1..published
          BY <4>1, <1>2, <1>3
        <5>2. published \in Nat
          BY <1>0
        <5>. QED
          BY <5>1, <5>2
    <3>2. \A p \in (n + 1)..Len(channel) : channel[p] # e
      <4>1. ev \in Int /\ e \in Int
        BY <3>1, <1>2
      <4>. QED
        BY <4>1, <3>1, <1>3
    <3>. QED
      BY <2>1, <3>1, <3>2, <1>7
  <2>2. CASE t = s /\ i \in 1..Len(got[s])
    <3>1. \A j \in 1..i : got'[s][j] = got[s][j]
      BY <2>2, <1>2
    <3>2. got'[s][i] = got[s][i]
      BY <2>2, <1>2
    <3>3. \/ \E j \in 1..i : got[s][j] = e
          \/ e + Slots <= published
      BY <2>2, <3>2, <1>0 DEF OnlyOverrunsAreLost
    <3>. QED
      BY <2>2, <3>1, <3>3
  <2>3. CASE t # s
    <3>1. got'[t] = got[t]
      BY <2>3, <1>2
    <3>. QED
      BY <2>3, <3>1, <1>0 DEF OnlyOverrunsAreLost
  <2>. QED
    <3>1. t = s => i = Len(got[s]) + 1 \/ i \in 1..Len(got[s])
      BY <1>2
    <3>. QED
      BY <2>1, <2>2, <2>3, <3>1
<1>. QED
  BY <1>0, <1>1, <1>2, <1>4, <1>5, <1>6, <1>8, <1>9, <1>10, <1>11 DEF IInv

LEMMA SkipLostKeepsIInv ==
  ASSUME IInv, NEW s \in Subscribers, SkipLost(s)
  PROVE  IInv'
<1>. USE DEF IInv, TypeOK
<1>1. /\ state[s] = "open"
      /\ next[s] < Oldest
      /\ next' = [next EXCEPT ![s] = Oldest]
      /\ UNCHANGED <<published, channel, state, since, got>>
  BY DEF SkipLost, Resume
<1>2. Oldest \in 1..(Len(channel) + 1) /\ next[s] \in Nat \ {0} /\ next'[s] = Oldest
  BY <1>1, OldestInRange
<1>3. TypeOK'
  BY <1>1, <1>2
<1>4. ChannelInv' /\ InOrderSinceSubscribed' /\ OnlyOverrunsAreLost'
  BY <1>1, NothingSeen
<1>5. CursorInv(s) /\ AccountedFor(s)
  BY <1>1
<1>6. CursorInv(s)'
  BY <1>1, <1>2, <1>5 DEF CursorInv
<1>7. AccountedFor(s)'
  <2>1. ASSUME NEW p \in next[s]..Len(channel), p < Oldest
        PROVE  channel[p] + Slots <= published
    <3>1. p \in 1..Len(channel)
      BY <1>2
    <3>2. p + Slots <= Len(channel)
      BY <3>1, <2>1, OldestInRange
    <3>3. channel[p] + (Len(channel) - p) <= published /\ channel[p] \in Nat
      BY <3>1 DEF ChannelInv
    <3>. QED
      BY <3>1, <3>2, <3>3, SinkAssumption
  <2>2. ASSUME NEW e \in (since[s] + 1)..published
        PROVE  \/ \E i \in 1..Len(got[s]) : got[s][i] = e
               \/ \E p \in Oldest..Len(channel) : channel[p] = e
               \/ e + Slots <= published
    <3>1. CASE \E p \in next[s]..Len(channel) : channel[p] = e
      <4>1. PICK p \in next[s]..Len(channel) : channel[p] = e
        BY <3>1
      <4>2. p < Oldest \/ p \in Oldest..Len(channel)
        BY <1>2
      <4>. QED
        BY <4>1, <4>2, <2>1
    <3>. QED
      BY <3>1, <1>5 DEF AccountedFor
  <2>. QED
    BY <1>1, <1>2, <2>2 DEF AccountedFor
<1>8. \A t \in Subscribers \ {s} : /\ CursorInv(t) => CursorInv(t)'
                                   /\ AccountedFor(t) => AccountedFor(t)'
  BY <1>1 DEF CursorInv, AccountedFor
<1>. QED
  BY <1>1, <1>3, <1>4, <1>6, <1>7, <1>8

LEMMA UnsubscribeKeepsIInv ==
  ASSUME IInv, NEW s \in Subscribers, Unsubscribe(s)
  PROVE  IInv'
<1>1. /\ state' = [state EXCEPT ![s] = "closed"]
      /\ UNCHANGED <<published, channel, next, since, got>>
  BY DEF Unsubscribe
<1>2. TypeOK' /\ ChannelInv' /\ InOrderSinceSubscribed' /\ OnlyOverrunsAreLost'
  BY <1>1 DEF IInv, TypeOK, ChannelInv, InOrderSinceSubscribed, OnlyOverrunsAreLost
<1>3. \A t \in Subscribers : CursorInv(t) = CursorInv(t)' /\ AccountedFor(t) = AccountedFor(t)'
  BY <1>1 DEF CursorInv, AccountedFor
<1>. QED
  BY <1>1, <1>2, <1>3 DEF IInv, TypeOK

-----------------------------------------------------------------------------
(* The theorems.                                                           *)

\* The inductive invariant, and with it every safety property of the bus.
THEOREM Invariance == Spec => []IInv
<1>1. IInv /\ [Next]_vars => IInv'
  <2>. SUFFICES ASSUME IInv, [Next]_vars PROVE IInv'
    OBVIOUS
  <2>1. CASE Publish
    BY <2>1, PublishKeepsIInv
  <2>2. ASSUME NEW s \in Subscribers,
               Subscribe(s) \/ Deliver(s) \/ SkipLost(s) \/ Unsubscribe(s)
        PROVE  IInv'
    BY <2>2, SubscribeKeepsIInv, DeliverKeepsIInv, SkipLostKeepsIInv, UnsubscribeKeepsIInv
  <2>3. CASE UNCHANGED vars
    BY <2>3 DEF vars, IInv, TypeOK, ChannelInv, CursorInv, AccountedFor,
                InOrderSinceSubscribed, OnlyOverrunsAreLost
  <2>. QED
    BY <2>1, <2>2, <2>3 DEF Next
<1>. QED
  BY InitIInv, <1>1, PTL DEF Spec

\* Every subscription of BroadcastEventSink sees events in the order of their
\* publication, none twice, none from before it subscribed.
THEOREM InOrder == Spec => []InOrderSinceSubscribed
<1>1. IInv => InOrderSinceSubscribed
  BY DEF IInv
<1>. QED
  BY Invariance, <1>1, PTL

\* A subscription loses an event only to a backlog longer than the ring, for
\* every capacity.
THEOREM OnlyOverruns == Spec => []OnlyOverrunsAreLost
<1>1. IInv => OnlyOverrunsAreLost
  BY DEF IInv
<1>. QED
  BY Invariance, <1>1, PTL
=============================================================================
