---------------------------- MODULE EventBusProofs -----------------------------
(***************************************************************************)
(* No acknowledged event is lost and no link stays without its dhclient,   *)
(* for any number of interfaces, events, link changes and pending          *)
(* connections, and any pattern of refused and late calls.                 *)
(***************************************************************************)
EXTENDS EventBus, TLAPS, SequenceTheorems

(* table.remove keeps every element but the one at the index.              *)
LEMMA RemovedKeeps ==
    ASSUME NEW S, NEW q \in Seq(S), NEW i \in 1..Len(q)
    PROVE  LET r == SubSeq(q, 1, i - 1) \o SubSeq(q, i + 1, Len(q)) IN
           /\ r \in Seq(S) /\ Len(r) = Len(q) - 1
           /\ \A k \in 1..Len(q) : k # i =>
                \E j \in 1..Len(r) : r[j] = q[k]
<1> DEFINE a == SubSeq(q, 1, i - 1)
           b == SubSeq(q, i + 1, Len(q))
           r == a \o b
<1>1. a \in Seq(S) /\ Len(a) = i - 1 /\ \A k \in 1..(i - 1) : a[k] = q[k]
    OBVIOUS
<1>2. /\ b \in Seq(S) /\ Len(b) = Len(q) - i
      /\ \A k \in 1..(Len(q) - i) : b[k] = q[i + k]
    OBVIOUS
<1> HIDE DEF a, b
<1>3. r \in Seq(S) /\ Len(r) = Len(q) - 1
  <2>1. r \in Seq(S) /\ Len(r) = Len(a) + Len(b)
    BY <1>1, <1>2, ConcatProperties
  <2> QED
    BY <1>1, <1>2, <2>1
<1>4. ASSUME NEW k \in 1..Len(q), k # i
      PROVE  \E j \in 1..Len(r) : r[j] = q[k]
  <2>1. CASE k < i
    <3>1. r[k] = a[k]
      BY <1>1, <1>2, <2>1
    <3>2. a[k] = q[k] /\ k \in 1..Len(r)
      BY <1>1, <1>3, <2>1
    <3> QED
      BY <3>1, <3>2
  <2>2. CASE k > i
    <3>1. r[k - 1] = b[k - i]
      BY <1>1, <1>2, <2>2
    <3>2. b[k - i] = q[k]
      BY <1>2, <2>2
    <3>3. k - 1 \in 1..Len(r)
      BY <1>3, <2>2
    <3> QED
      BY <3>1, <3>2, <3>3
  <2> QED
    BY <1>4, <2>1, <2>2
<1> QED
    BY <1>3, <1>4 DEF a, b

(* Where table.remove moves the elements.                                  *)
LEMMA RemovedAt ==
    ASSUME NEW S, NEW q \in Seq(S), NEW i \in 1..Len(q)
    PROVE  LET r == SubSeq(q, 1, i - 1) \o SubSeq(q, i + 1, Len(q)) IN
           /\ DOMAIN r = 1..(Len(q) - 1)
           /\ \A j \in 1..(Len(q) - 1) :
                r[j] = IF j < i THEN q[j] ELSE q[j + 1]
<1> DEFINE a == SubSeq(q, 1, i - 1)
           b == SubSeq(q, i + 1, Len(q))
           r == a \o b
<1>1. a \in Seq(S) /\ Len(a) = i - 1 /\ \A k \in 1..(i - 1) : a[k] = q[k]
    OBVIOUS
<1>2. /\ b \in Seq(S) /\ Len(b) = Len(q) - i
      /\ \A k \in 1..(Len(q) - i) : b[k] = q[i + k]
    OBVIOUS
<1> HIDE DEF a, b
<1>3. r \in Seq(S) /\ Len(r) = Len(q) - 1
  <2>1. r \in Seq(S) /\ Len(r) = Len(a) + Len(b)
    BY <1>1, <1>2, ConcatProperties
  <2> QED
    BY <1>1, <1>2, <2>1
<1> HIDE DEF r
<1>4. \A j \in 1..(i - 1) : r[j] = q[j]
    BY <1>1, <1>2 DEF r
<1>5. \A j \in i..(Len(q) - 1) : r[j] = b[j - (i - 1)]
    BY <1>1, <1>2 DEF r
<1>6. \A j \in i..(Len(q) - 1) : b[j - (i - 1)] = q[j + 1]
    BY <1>2
<1>7. DOMAIN r = 1..(Len(q) - 1)
    BY <1>3
<1>8. \A j \in 1..(Len(q) - 1) : r[j] = IF j < i THEN q[j] ELSE q[j + 1]
    BY <1>4, <1>5, <1>6
<1> QED
    BY <1>7, <1>8 DEF r, a, b

(* Prepending, as table.insert(queue, 1, ...) does.                        *)
LEMMA Prepends ==
    ASSUME NEW S, NEW q \in Seq(S), NEW e \in S
    PROVE  /\ <<e>> \o q \in Seq(S) /\ Len(<<e>> \o q) = Len(q) + 1
           /\ (<<e>> \o q)[1] = e
           /\ \A k \in 1..Len(q) : (<<e>> \o q)[k + 1] = q[k]
<1> QED
    OBVIOUS

(* What a request of the collector and one of devd.lua carry.              *)
LEMMA RequestKinds ==
    ASSUME NEW r \in Requests
    PROVE  /\ IsLink(r) => r.event \in LinkEvents
           /\ ~IsLink(r) => r.event \in Events
           /\ r.live \in BOOLEAN
<1>1. r.event \in Events \cup LinkEvents /\ r.live \in BOOLEAN
    BY DEF Requests
<1>2. \A e \in Events : e.state \in {"up", "down"}
    BY DEF Events
<1>3. \A e \in LinkEvents : e.state \in {"linkup", "linkdown"}
    BY DEF LinkEvents
<1> QED
    BY <1>1, <1>2, <1>3 DEF IsLink

(* Giving up changes who waits, not what is asked.                         *)
LEMMA GivenUpKeeps ==
    ASSUME TypeOK, NEW b \in BOOLEAN
    PROVE  /\ GivenUp(b) \in Seq(Requests)
           /\ DOMAIN GivenUp(b) = DOMAIN listening
           /\ \A k \in DOMAIN listening :
                /\ GivenUp(b)[k].event = listening[k].event
                /\ GivenUp(b)[k].live =>
                     listening[k].live /\ (IsLink(listening[k]) <=> ~b)
<1> DEFINE g(k) == [event |-> listening[k].event,
                    live |-> listening[k].live /\ (IsLink(listening[k]) <=> ~b)]
<1>1. listening \in Seq(Requests) /\ DOMAIN listening = 1..Len(listening)
      /\ Len(listening) \in Nat
    BY DEF TypeOK
<1>2. ASSUME NEW k \in 1..Len(listening) PROVE g(k) \in Requests
  <2>1. listening[k] \in Requests
    BY <1>1
  <2>2. listening[k].event \in Events \cup LinkEvents
    BY <2>1 DEF Requests
  <2>3. (listening[k].live /\ (IsLink(listening[k]) <=> ~b)) \in BOOLEAN
    OBVIOUS
  <2> QED
    BY <2>2, <2>3 DEF Requests
<1>3. GivenUp(b) = [k \in 1..Len(listening) |-> g(k)]
    BY <1>1, Zenon DEF GivenUp
<1>4. GivenUp(b) \in [1..Len(listening) -> Requests]
    BY <1>2, <1>3, Zenon
<1>5. GivenUp(b) \in Seq(Requests)
    BY <1>1, <1>4
<1>6. ASSUME NEW k \in DOMAIN listening
      PROVE  GivenUp(b)[k] = g(k)
    BY <1>1, <1>3, <1>6, Zenon
<1> HIDE DEF g
<1>7. DOMAIN GivenUp(b) = DOMAIN listening
    BY <1>1, <1>4, Zenon
<1>8. ASSUME NEW k \in DOMAIN listening
      PROVE  /\ g(k).event = listening[k].event
             /\ g(k).live => listening[k].live /\ (IsLink(listening[k]) <=> ~b)
    BY Zenon DEF g
<1> QED
    BY <1>5, <1>6, <1>7, <1>8, Zenon

-------------------------------------------------------------------------------
(* Every action keeps the types and the supply of ids.                     *)
LEMMA BusTypeStep ==
    TypeOK /\ EmittedInv /\ CallInv /\ [Next]_vars => TypeOK' /\ EmittedInv'
<1> SUFFICES ASSUME TypeOK, EmittedInv, CallInv, [Next]_vars
             PROVE  TypeOK' /\ EmittedInv'
    OBVIOUS
<1> USE BusAssumption DEF TypeOK, EmittedInv, Ids, WanSteps
<1>1. ASSUME NEW i \in Ifaces, NEW s \in {"up", "down"}, Script(i, s)
      PROVE  TypeOK' /\ EmittedInv'
  <2>1. [id |-> emitted + 1, iface |-> i, state |-> s, fetch |-> FALSE] \in Events
    BY <1>1 DEF Script, Events
  <2>2. arriving' \in Seq(Events)
    BY <1>1, <2>1 DEF Script, Arrive
  <2> QED
    BY <1>1, <2>2 DEF Script, Arrive, collectorVars, httpdVars, linkVars
<1>2. CASE Accept
  <2> DEFINE e == Head(arriving)
  <2>1. e \in Events /\ Tail(arriving) \in Seq(Events)
    BY <1>2 DEF Accept, Process
  <2>2. e.id \in Ids /\ e.iface \in Ifaces
    BY <2>1 DEF Events
  <2>3. queue' \in Seq(Events) /\ idx' = Len(queue')
    BY <1>2, <2>1, Prepends DEF Accept, Process, Inserted
  <2>4. noted' \in [Ifaces -> {0} \cup Ids] /\ route' \in Ifaces \cup {NoIface}
    BY <1>2, <2>2 DEF Accept, Process, RouteAndLed
  <2>5. led' \in BOOLEAN /\ wan' \in WanSteps /\ EmittedInv'
    BY <1>2 DEF Accept, Process, RouteAndLed
  <2>6. /\ arriving' \in Seq(Events) /\ accepted' \subseteq Ids
        /\ UNCHANGED <<emitted, call, overtaken, listening, seen, delivered,
                       alive>>
        /\ UNCHANGED linkVars
    BY <1>2, <2>1, <2>2 DEF Accept, Process
  <2>7. idx' \in 0..Len(queue')
    BY <2>3
  <2> QED
    BY <2>3, <2>4, <2>5, <2>6, <2>7 DEF linkVars
<1>3. CASE AcceptTimeout
    BY <1>3 DEF AcceptTimeout, httpdVars, linkVars
<1>4. CASE Send
  <2>1. [event |-> queue[idx], live |-> TRUE] \in Requests
    BY <1>4 DEF Send, Requests
  <2> QED
    BY <1>4, <2>1 DEF Send, linkVars
<1>5. CASE SendFails
    BY <1>5 DEF SendFails, CallFailed, httpdVars, linkVars
<1>6. CASE Answer
  <2>1. idx \in 1..Len(queue)
    BY <1>6 DEF Answer, CallInv
  <2>2. queue' \in Seq(Events) /\ Len(queue') = Len(queue) - 1
    BY <1>6, <2>1, RemovedKeeps DEF Answer, Removed
  <2> QED
    BY <1>6, <2>1, <2>2 DEF Answer, httpdVars, linkVars
<1>7. CASE CallTimeout
  <2>1. idx \in 1..Len(queue)
    BY <1>7 DEF CallTimeout, CallInv
  <2>2. listening' \in Seq(Requests)
    BY <1>7, GivenUpKeeps DEF CallTimeout
  <2>3. /\ idx' = idx - 1 /\ call' = "idle"
        /\ UNCHANGED <<emitted, arriving, queue, noted, route, led, accepted,
                       seen, wan, delivered, alive, overtaken>>
        /\ UNCHANGED linkVars
    BY <1>7 DEF CallTimeout, CallFailed
  <2> QED
    BY <2>1, <2>2, <2>3 DEF linkVars
<1>8. CASE StartServer
    BY <1>8 DEF StartServer, collectorVars, linkVars
<1>9. CASE Serve
  <2>1. Head(listening) \in Requests /\ Tail(listening) \in Seq(Requests)
    BY <1>9 DEF Serve, Serving
  <2>2. Head(listening).event \in Events
    BY <1>9, <2>1, RequestKinds DEF Serve, NextRequest
  <2>3. Head(listening).event.id \in Ids /\ Head(listening).event.iface \in Ifaces
    BY <2>2 DEF Events
  <2> QED
    BY <1>9, <2>1, <2>3 DEF Serve, NextRequest, SeenAfter, linkVars
<1>10. CASE ConfigureWan
  <2>1. [id |-> emitted + 1, iface |-> Wan, state |-> "up", fetch |-> TRUE] \in Events
    BY <1>10 DEF ConfigureWan, Events
  <2>2. arriving' \in Seq(Events)
    BY <1>10, <2>1 DEF ConfigureWan, Arrive
  <2> QED
    BY <1>10, <2>2 DEF ConfigureWan, Arrive, collectorVars, linkVars
<1>11. CASE WanConfigured
    BY <1>11 DEF WanConfigured, RunDhclient
<1>12. CASE CollectorDies
  <2>1. route' \in Ifaces \cup {NoIface} /\ led' \in BOOLEAN
    <3>1. Head(arriving) \in Events
      BY <1>12 DEF CollectorDies
    <3>2. Head(arriving).iface \in Ifaces
      BY <3>1 DEF Events
    <3> QED
      BY <1>12, <3>2 DEF CollectorDies, RouteAndLed
  <2>2. queue' \in Seq(Events) /\ arriving' \in Seq(Events) /\ idx' = 0
    BY <1>12 DEF CollectorDies
  <2>3. alive' \in BOOLEAN /\ wan' \in WanSteps /\ EmittedInv'
    BY <1>12 DEF CollectorDies
  <2>4. /\ UNCHANGED <<emitted, call, noted, accepted, overtaken, listening,
                       seen, delivered>>
        /\ UNCHANGED linkVars
    BY <1>12 DEF CollectorDies
  <2>5. idx' \in 0..Len(queue')
    BY <2>2
  <2> QED
    BY <2>1, <2>2, <2>3, <2>4, <2>5 DEF linkVars
<1>13. CASE LinkChange
  <2>1. (~link) \in BOOLEAN /\ dhclient' \in BOOLEAN
    BY <1>13, Zenon DEF LinkChange
  <2>2. \A b \in BOOLEAN : Append(devctl, b) \in Seq(BOOLEAN)
    OBVIOUS
  <2>3. devctl' \in Seq(BOOLEAN) /\ link' \in BOOLEAN
    BY <1>13, <2>1, <2>2, Zenon DEF LinkChange
  <2>4. changes' \in Nat /\ UNCHANGED <<emitted, arriving, alive, relay, missed>>
        /\ UNCHANGED <<collectorVars, httpdVars>>
    BY <1>13 DEF LinkChange
  <2> QED
    BY <2>1, <2>3, <2>4 DEF collectorVars, httpdVars
<1>14. CASE RelaySend
  <2>1. Head(devctl) \in BOOLEAN /\ Tail(devctl) \in Seq(BOOLEAN)
    BY <1>14 DEF RelaySend
  <2>2. LinkEvent(Head(devctl)) \in LinkEvents
    BY <2>1 DEF LinkEvent, LinkEvents
  <2>3. [event |-> LinkEvent(Head(devctl)), live |-> TRUE] \in Requests
    BY <2>2 DEF Requests
  <2>4. listening' \in Seq(Requests)
    BY <1>14, <2>3 DEF RelaySend
  <2> QED
    BY <1>14, <2>1, <2>4 DEF RelaySend, collectorVars
<1>15. CASE RelayFails
    BY <1>15 DEF RelayFails, collectorVars, httpdVars
<1>16. CASE RelayTimeout
  <2>1. listening' \in Seq(Requests)
    BY <1>16, GivenUpKeeps DEF RelayTimeout
  <2> QED
    BY <1>16, <2>1 DEF RelayTimeout, collectorVars
<1>17. CASE ServeLink
  <2>1. Tail(listening) \in Seq(Requests)
    BY <1>17 DEF ServeLink, Serving
  <2> QED
    BY <1>17, <2>1 DEF ServeLink, RunDhclient, collectorVars
<1>18. CASE UNCHANGED vars
    BY <1>18 DEF vars, collectorVars, httpdVars, linkVars
<1> QED
    BY <1>1, <1>2, <1>3, <1>4, <1>5, <1>6, <1>7, <1>8, <1>9, <1>10, <1>11,
       <1>12, <1>13, <1>14, <1>15, <1>16, <1>17, <1>18
    DEF Next, CollectorStep, HttpdStep, DevdStep

-------------------------------------------------------------------------------
(* A request the collector waits for.                                      *)
Live(k) == listening[k].live /\ ~IsLink(listening[k])

(* Only the request of the current call is live, through every action.     *)
LEMMA CallStep == TypeOK /\ CallInv /\ [Next]_vars => CallInv'
<1> SUFFICES ASSUME TypeOK, CallInv, [Next]_vars PROVE CallInv'
    OBVIOUS
<1> USE BusAssumption DEF TypeOK
<1>1. ASSUME NEW i \in Ifaces, NEW s \in {"up", "down"}, Script(i, s)
      PROVE  CallInv'
    BY <1>1 DEF Script, collectorVars, httpdVars, CallInv, IsLink
<1>2. CASE Accept
  <2>1. call = "idle" /\ UNCHANGED <<call, listening, delivered>>
    BY <1>2 DEF Accept, Process, CallInv
  <2> QED
    BY <2>1 DEF CallInv, IsLink
<1>3. CASE AcceptTimeout
  <2>1. call = "idle" /\ UNCHANGED <<call, listening, delivered>>
    BY <1>3 DEF AcceptTimeout, CallInv, httpdVars
  <2> QED
    BY <2>1 DEF CallInv, IsLink
<1>4. CASE Send
  <2> DEFINE new == [event |-> queue[idx], live |-> TRUE]
  <2>1. /\ \A k \in 1..Len(listening) : ~Live(k)
        /\ idx > 0 /\ call' = "waiting" /\ UNCHANGED <<queue, idx, delivered>>
        /\ listening' = Append(listening, new)
    BY <1>4 DEF Send, CallInv, Live
  <2>2. /\ DOMAIN listening' = 1..(Len(listening) + 1)
        /\ listening'[Len(listening) + 1] = new
        /\ \A k \in 1..Len(listening) : listening'[k] = listening[k]
    BY <2>1
  <2> HIDE DEF new
  <2>3. new.live /\ new.event = queue[idx]
    BY DEF new
  <2>4. \A k \in DOMAIN listening' : Live(k)' => k = Len(listening) + 1
    BY <2>1, <2>2 DEF Live, IsLink
  <2> QED
    BY <2>1, <2>2, <2>3, <2>4 DEF CallInv, Live
<1>5. CASE SendFails
  <2>1. call = "idle" /\ UNCHANGED <<call, listening, delivered>>
    BY <1>5 DEF SendFails, CallInv, httpdVars
  <2> QED
    BY <2>1 DEF CallInv, IsLink
<1>6. CASE Answer
  <2>1. /\ \A k \in DOMAIN listening : ~Live(k)
        /\ call' = "idle" /\ UNCHANGED <<listening, delivered>>
    BY <1>6 DEF Answer, CallInv, httpdVars, Live
  <2> QED
    BY <2>1 DEF CallInv, Live, IsLink
<1>7. CASE CallTimeout
  <2>1. call' = "idle" /\ listening' = GivenUp(FALSE)
    BY <1>7 DEF CallTimeout
  <2>2. ASSUME NEW k \in DOMAIN listening', Live(k)' PROVE FALSE
    <3>1. k \in DOMAIN listening /\ listening'[k].event = listening[k].event
          /\ IsLink(listening[k])
      <4>1. FALSE \in BOOLEAN
        OBVIOUS
      <4>2. listening'[k].live
        BY <2>2 DEF Live
      <4> QED
        BY <2>1, <2>2, <4>1, <4>2, GivenUpKeeps, Zenon
    <3> QED
      BY <2>2, <3>1 DEF Live, IsLink
  <2> QED
    BY <2>1, <2>2 DEF CallInv, Live
<1>8. CASE StartServer
    BY <1>8 DEF StartServer, collectorVars, CallInv, IsLink
<1>9. ASSUME Serving, listening' = Tail(listening)
      PROVE  /\ DOMAIN listening' = 1..(Len(listening) - 1)
             /\ Len(listening) >= 1 /\ Len(listening) \in Nat
             /\ \A k \in DOMAIN listening' :
                  listening'[k] = listening[k + 1] /\ k + 1 \in DOMAIN listening
             /\ NextRequest = listening[1] /\ 1 \in DOMAIN listening
    BY <1>9 DEF Serving, NextRequest
<1>10. CASE Serve \/ ServeLink
  <2> DEFINE r == NextRequest
  <2>1. /\ DOMAIN listening' = 1..(Len(listening) - 1)
        /\ Len(listening) >= 1 /\ Len(listening) \in Nat
        /\ \A k \in DOMAIN listening' :
             listening'[k] = listening[k + 1] /\ k + 1 \in DOMAIN listening
        /\ r = listening[1] /\ 1 \in DOMAIN listening
    BY <1>9, <1>10 DEF Serve, ServeLink
  <2>2. /\ UNCHANGED <<queue, idx>> /\ delivered \subseteq delivered'
        /\ ~IsLink(r) => r.event.id \in delivered'
        /\ call' = IF r.live /\ ~IsLink(r) THEN "answered" ELSE call
    BY <1>10 DEF Serve, ServeLink, collectorVars
  <2> HIDE DEF r
  <2>3. CASE r.live /\ ~IsLink(r)
    <3>1. call = "waiting" /\ r.event = queue[idx] /\ idx > 0
      BY <2>1, <2>3 DEF CallInv
    <3>2. \A k \in DOMAIN listening' : ~Live(k)'
      BY <2>1, <2>3 DEF CallInv, Live, IsLink
    <3> QED
      BY <2>2, <2>3, <3>1, <3>2 DEF CallInv, Live
  <2>4. CASE ~(r.live /\ ~IsLink(r))
    <3>1. call' = call
      BY <2>2, <2>4
    <3>2. ASSUME NEW k \in DOMAIN listening', Live(k)'
          PROVE  /\ call = "waiting" /\ listening'[k].event = queue[idx]
                 /\ \A j \in DOMAIN listening' : Live(j)' => j = k
      <4>1. /\ listening'[k] = listening[k + 1] /\ k + 1 \in DOMAIN listening
            /\ k \in Nat /\ Live(k + 1)
        BY <2>1, <3>2 DEF Live, IsLink
      <4>2. ASSUME NEW j \in DOMAIN listening', Live(j)' PROVE j = k
        <5>1. Live(j + 1) /\ j + 1 \in DOMAIN listening /\ j \in Nat
          BY <2>1, <4>2 DEF Live, IsLink
        <5>2. j + 1 = k + 1
          BY <3>2, <4>1, <5>1 DEF CallInv, Live
        <5> QED
          BY <4>1, <5>1, <5>2
      <4> QED
        BY <3>2, <4>1, <4>2 DEF CallInv, Live
    <3>3. call = "answered" => queue[idx].id \in delivered'
      BY <2>2 DEF CallInv
    <3> QED
      BY <2>2, <3>1, <3>2, <3>3 DEF CallInv, Live
  <2> QED
    BY <2>3, <2>4
<1>11. CASE ConfigureWan
    BY <1>11 DEF ConfigureWan, collectorVars, CallInv, IsLink
<1>12. CASE WanConfigured
    BY <1>12 DEF WanConfigured, CallInv, IsLink
<1>13. CASE CollectorDies
  <2>1. call = "idle" /\ UNCHANGED <<call, listening, delivered>>
    BY <1>13 DEF CollectorDies, CallInv
  <2> QED
    BY <2>1 DEF CallInv, IsLink
<1>14. CASE LinkChange \/ RelayFails
    BY <1>14 DEF LinkChange, RelayFails, collectorVars, httpdVars, CallInv, IsLink
<1>15. CASE RelaySend
  <2>1. UNCHANGED <<queue, idx, call, delivered>>
    BY <1>15 DEF RelaySend, collectorVars
  <2>2. /\ DOMAIN listening' = 1..(Len(listening) + 1)
        /\ listening'[Len(listening) + 1].event = LinkEvent(Head(devctl))
        /\ \A k \in 1..Len(listening) : listening'[k] = listening[k]
    BY <1>15 DEF RelaySend
  <2>3. LinkEvent(Head(devctl)).state \in {"linkup", "linkdown"}
    BY DEF LinkEvent
  <2>4. \A k \in DOMAIN listening' : Live(k)' =>
          /\ k \in DOMAIN listening /\ Live(k)
          /\ listening'[k].event = listening[k].event
    BY <2>2, <2>3 DEF Live, IsLink
  <2> QED
    BY <2>1, <2>4, Zenon DEF CallInv, Live
<1>16. CASE RelayTimeout
  <2>1. UNCHANGED <<queue, idx, call, delivered>> /\ listening' = GivenUp(TRUE)
    BY <1>16 DEF RelayTimeout, collectorVars
  <2>2. \A k \in DOMAIN listening' :
          /\ k \in DOMAIN listening /\ listening'[k].event = listening[k].event
          /\ Live(k)' => Live(k)
    BY <2>1, GivenUpKeeps DEF Live, IsLink
  <2> QED
    BY <2>1, <2>2 DEF CallInv, Live
<1>17. CASE UNCHANGED vars
    BY <1>17 DEF vars, collectorVars, httpdVars, CallInv, IsLink
<1> QED
    BY <1>1, <1>2, <1>3, <1>4, <1>5, <1>6, <1>7, <1>8, <1>10, <1>11, <1>12,
       <1>13, <1>14, <1>15, <1>16, <1>17
    DEF Next, CollectorStep, HttpdStep, DevdStep

-------------------------------------------------------------------------------
(* Events leave the queue only after httpd has executed them.              *)
LEMMA LossStep == TypeOK /\ CallInv /\ NoEventLost /\ [Next]_vars => NoEventLost'
<1> SUFFICES ASSUME TypeOK, CallInv, NoEventLost, [Next]_vars, alive'
             PROVE  NoEventLost'
    BY DEF NoEventLost
<1> USE BusAssumption DEF TypeOK
<1>1. CASE Accept
  <2> DEFINE e == Head(arriving)
  <2>1. e \in Events /\ queue' = <<e>> \o queue
        /\ accepted' = accepted \cup {e.id} /\ delivered' = delivered /\ alive
    BY <1>1 DEF Accept, Process, Inserted
  <2> HIDE DEF e
  <2>2. /\ 1 \in DOMAIN queue' /\ queue'[1] = e
        /\ \A k \in DOMAIN queue : k + 1 \in DOMAIN queue' /\ queue'[k + 1] = queue[k]
    BY <2>1, Prepends
  <2>3. ASSUME NEW n \in accepted', n \notin delivered'
        PROVE  \E k \in DOMAIN queue' : queue'[k].id = n
    <3>1. CASE n = e.id
      BY <2>2, <3>1
    <3>2. CASE n # e.id
      <4>1. PICK k \in DOMAIN queue : queue[k].id = n
        BY <2>1, <2>3, <3>2 DEF NoEventLost, Queued
      <4> QED
        BY <2>2, <4>1
    <3> QED
      BY <3>1, <3>2
  <2> QED
    BY <2>3 DEF NoEventLost, Queued
<1>2. CASE Answer
  <2>1. idx \in 1..Len(queue) /\ queue[idx].id \in delivered
    BY <1>2 DEF Answer, CallInv
  <2>2. queue' = Removed /\ UNCHANGED <<accepted, delivered>> /\ alive
    BY <1>2 DEF Answer, httpdVars
  <2>3. \A k \in 1..Len(queue) : k # idx =>
          \E j \in 1..Len(Removed) : Removed[j] = queue[k]
    BY <2>1, RemovedKeeps DEF Removed
  <2>4. Removed \in Seq(Events)
    BY <2>1, RemovedKeeps DEF Removed
  <2>5. ASSUME NEW n \in accepted, n \notin delivered
        PROVE  \E j \in DOMAIN Removed : Removed[j].id = n
    <3>1. PICK k \in 1..Len(queue) : queue[k].id = n
      BY <2>2, <2>5 DEF NoEventLost, Queued
    <3>2. k # idx
      BY <2>1, <2>5, <3>1
    <3> QED
      BY <2>3, <2>4, <3>1, <3>2
  <2> QED
    BY <2>2, <2>5 DEF NoEventLost, Queued
<1>3. CASE CollectorDies
    BY <1>3 DEF CollectorDies, NoEventLost
<1>4. CASE ~Accept /\ ~Answer /\ ~CollectorDies
  <2>1. UNCHANGED <<queue, accepted, alive>> /\ delivered \subseteq delivered'
    BY <1>4 DEF Next, Script, CollectorStep, AcceptTimeout, Send, SendFails,
                CallTimeout, HttpdStep, StartServer, Serve, ConfigureWan,
                WanConfigured, LinkChange, DevdStep, RelaySend, RelayFails,
                RelayTimeout, ServeLink, vars, collectorVars, httpdVars
  <2> QED
    BY <2>1 DEF NoEventLost, Queued
<1> QED
    BY <1>1, <1>2, <1>3, <1>4

-------------------------------------------------------------------------------
(* devd.lua has one event to read, or several.                             *)
LEMMA SomeOrMany ==
    ASSUME NEW S, NEW q \in Seq(S), q # <<>>
    PROVE  Len(q) = 1 \/ Len(q) > 1
<1>1. Len(q) \in Nat /\ Len(q) # 0
    BY EmptySeq
<1>2. \A n \in Nat : n # 0 => n = 1 \/ n > 1
    OBVIOUS
<1> QED
    BY <1>1, <1>2, Zenon

(* Reading the first of several link events leaves the last one.           *)
LEMMA LastOfTail ==
    ASSUME NEW S, NEW q \in Seq(S), Len(q) > 1
    PROVE  Tail(q) # <<>> /\ Tail(q)[Len(Tail(q))] = q[Len(q)]
OBVIOUS

(* A linkup request is in httpd's listen queue.                            *)
Told == \E k \in DOMAIN listening : listening[k].event.state = "linkup"

(* A step that does not touch the link and loses no request.               *)
LEMMA LinkKept ==
    ASSUME LinkInv, LinkServed, UNCHANGED linkVars, Told => Told'
    PROVE  LinkInv' /\ LinkServed'
BY DEF LinkInv, LinkServed, linkVars, Told

(* A link event is read, refused or executed, and nothing of it is lost    *)
(* that run_dhclient does not find out by itself.                          *)
LEMMA LinkStep ==
    TypeOK /\ LinkInv /\ LinkServed /\ [Next]_vars => LinkInv' /\ LinkServed'
<1> SUFFICES ASSUME TypeOK, LinkInv, LinkServed, [Next]_vars
             PROVE  LinkInv' /\ LinkServed'
    OBVIOUS
<1> USE BusAssumption DEF TypeOK
<1>1. CASE UNCHANGED <<listening, linkVars>>
    BY <1>1, LinkKept DEF Told
<1>2. CASE Send
  <2>1. /\ DOMAIN listening \subseteq DOMAIN listening'
        /\ \A k \in DOMAIN listening : listening'[k] = listening[k]
    BY <1>2 DEF Send
  <2> QED
    BY <1>2, <2>1, LinkKept DEF Send, Told
<1>3. CASE CallTimeout
    BY <1>3, GivenUpKeeps, LinkKept DEF CallTimeout, Told
<1>4. ASSUME Serving, listening' = Tail(listening),
             NextRequest.event.state # "linkup"
      PROVE  Told => Told'
  <2>1. /\ Head(listening) = listening[1]
        /\ \A k \in DOMAIN listening : k # 1 =>
             k - 1 \in DOMAIN listening' /\ listening'[k - 1] = listening[k]
    BY <1>4 DEF Serving
  <2> QED
    BY <1>4, <2>1 DEF Told, NextRequest
<1>5. CASE Serve
    BY <1>4, <1>5, LinkKept DEF Serve, IsLink
<1>6. CASE ServeLink
  <2>1. UNCHANGED <<devctl, link, missed>>
    BY <1>6 DEF ServeLink
  <2>2. CASE NextRequest.event.state = "linkup"
    BY <1>6, <2>1, <2>2 DEF ServeLink, RunDhclient, LinkInv, LinkServed
  <2>3. CASE NextRequest.event.state # "linkup"
    <3>1. dhclient' = dhclient /\ (Told => Told')
      BY <1>4, <1>6, <2>3 DEF ServeLink
    <3> QED
      BY <2>1, <3>1 DEF LinkInv, LinkServed, Told
  <2> QED
    BY <2>2, <2>3
<1>7. CASE WanConfigured
    BY <1>7 DEF WanConfigured, RunDhclient, LinkInv, LinkServed
<1>8. CASE LinkChange
  <2>1. devctl' = Append(devctl, ~link) /\ link' = ~link
    BY <1>8 DEF LinkChange
  <2>2. devctl' # <<>> /\ devctl'[Len(devctl')] = link'
    BY <2>1
  <2> QED
    BY <2>2 DEF LinkInv, LinkServed
<1>9. ASSUME devctl # <<>>, devctl' = Tail(devctl), link' = link
      PROVE  /\ LinkInv'
             /\ devctl' = <<>> => Head(devctl) = link
  <2>1. CASE Len(devctl) = 1
    BY <1>9, <2>1 DEF LinkInv
  <2>2. CASE Len(devctl) > 1
    <3>1. devctl' # <<>> /\ devctl'[Len(devctl')] = devctl[Len(devctl)]
      BY <1>9, <2>2, LastOfTail, Zenon
    <3>2. devctl'[Len(devctl')] = link'
      BY <1>9, <3>1, Zenon DEF LinkInv
    <3> QED
      BY <3>1, <3>2, Zenon DEF LinkInv
  <2>3. Len(devctl) = 1 \/ Len(devctl) > 1
    BY <1>9, SomeOrMany, Zenon
  <2> QED
    BY <2>1, <2>2, <2>3
<1>10. CASE RelaySend
  <2>1. LinkInv' /\ (devctl' = <<>> => Head(devctl) = link) /\ link' = link
    BY <1>9, <1>10 DEF RelaySend
  <2>2. ASSUME link, devctl' = <<>> PROVE Told'
    <3>1. LinkEvent(Head(devctl)).state = "linkup"
      BY <2>1, <2>2 DEF LinkEvent
    <3>2. /\ Len(listening) + 1 \in DOMAIN listening'
          /\ listening'[Len(listening) + 1].event = LinkEvent(Head(devctl))
      BY <1>10 DEF RelaySend
    <3> QED
      BY <3>1, <3>2 DEF Told
  <2> QED
    BY <2>1, <2>2 DEF LinkServed, Told
<1>11. CASE RelayFails
    BY <1>9, <1>11 DEF RelayFails, LinkServed
<1>12. CASE RelayTimeout
  <2>1. Told => Told'
    BY <1>12, GivenUpKeeps DEF RelayTimeout, Told
  <2> QED
    BY <1>12, <2>1 DEF RelayTimeout, LinkInv, LinkServed, Told
<1>13. CASE ~(Send \/ CallTimeout \/ Serve \/ ServeLink \/ WanConfigured
              \/ LinkChange \/ DevdStep)
    BY <1>1, <1>13 DEF Next, Script, CollectorStep, Accept, AcceptTimeout,
                       SendFails, Answer, CollectorDies, HttpdStep, StartServer,
                       ConfigureWan, vars, collectorVars, httpdVars
<1> QED
    BY <1>2, <1>3, <1>5, <1>6, <1>7, <1>8, <1>10, <1>11, <1>12, <1>13
    DEF DevdStep

-------------------------------------------------------------------------------
(* The events of the collector in numbers.                                 *)
LEMMA EventTypes ==
    ASSUME TypeOK
    PROVE  /\ \A k \in DOMAIN queue : queue[k] \in Events
           /\ \A k \in DOMAIN arriving : arriving[k] \in Events
           /\ \A e \in Events : e.id \in Nat /\ e.id > 0 /\ e.iface \in Ifaces
           /\ \A i \in Ifaces : noted[i] \in Nat /\ seen[i] \in Nat
           /\ emitted \in Nat /\ Len(queue) \in Nat /\ Len(arriving) \in Nat
<1> USE BusAssumption DEF TypeOK, Ids
<1>1. \A k \in DOMAIN queue : queue[k] \in Events
    OBVIOUS
<1>2. \A k \in DOMAIN arriving : arriving[k] \in Events
    OBVIOUS
<1>3. \A e \in Events : e.id \in Nat /\ e.id > 0 /\ e.iface \in Ifaces
    BY DEF Events
<1>4. \A i \in Ifaces : noted[i] \in Nat /\ seen[i] \in Nat
    OBVIOUS
<1>5. emitted \in Nat /\ Len(queue) \in Nat /\ Len(arriving) \in Nat
    OBVIOUS
<1> QED
    BY <1>1, <1>2, <1>3, <1>4, <1>5

(* An event that arrives is newer than all others.                         *)
LEMMA ArriveOrder ==
    ASSUME TypeOK, OrderInv, NEW i \in Ifaces, NEW s, NEW f, Arrive(i, s, f),
           UNCHANGED <<queue, noted>>
    PROVE  OrderInv'
<1> USE EventTypes
<1> DEFINE e == [id |-> emitted + 1, iface |-> i, state |-> s, fetch |-> f]
<1>1. emitted' = emitted + 1
    BY DEF Arrive
<1>2. CASE alive
  <2>1. arriving' = Append(arriving, e)
    BY <1>2 DEF Arrive
  <2>2. e.id = emitted + 1
    OBVIOUS
  <2> HIDE DEF e
  <2>3. /\ DOMAIN arriving' = 1..(Len(arriving) + 1)
        /\ \A k \in DOMAIN arriving : arriving'[k] = arriving[k]
        /\ arriving'[Len(arriving) + 1] = e
    BY <2>1 DEF TypeOK
  <2>4. \A k \in DOMAIN arriving' :
          k \in DOMAIN arriving \/ k = Len(arriving) + 1
    BY <2>3 DEF TypeOK
  <2>5. \A k \in DOMAIN arriving :
          k < Len(arriving) + 1 /\ ~(Len(arriving) + 1 < k)
          /\ arriving[k].id \in Nat
    BY DEF TypeOK
  <2>6. \A j, k \in DOMAIN arriving' : j < k => arriving'[j].id < arriving'[k].id
    BY <1>1, <2>2, <2>3, <2>4, <2>5 DEF OrderInv
  <2>7. \A j \in DOMAIN queue : queue[j].id \in Nat
    OBVIOUS
  <2>8. \A k \in DOMAIN arriving' :
          /\ arriving'[k].id <= emitted'
          /\ \A j \in DOMAIN queue : queue[j].id < arriving'[k].id
          /\ \A l \in Ifaces : noted[l] < arriving'[k].id
    BY <1>1, <2>2, <2>3, <2>4, <2>5, <2>7 DEF OrderInv
  <2> QED
    BY <1>1, <2>6, <2>7, <2>8 DEF OrderInv
<1>3. CASE ~alive
  <2>1. arriving' = arriving
    BY <1>3 DEF Arrive
  <2> QED
    BY <1>1, <2>1 DEF OrderInv
<1> QED
    BY <1>2, <1>3

(* Accepting keeps the order, and so does removing.                        *)
LEMMA OrderStep == TypeOK /\ CallInv /\ OrderInv /\ [Next]_vars => OrderInv'
<1> SUFFICES ASSUME TypeOK, CallInv, OrderInv, [Next]_vars PROVE OrderInv'
    OBVIOUS
<1> USE EventTypes
<1>1. CASE Accept
  <2> DEFINE e == Head(arriving)
  <2>1. /\ arriving # <<>> /\ arriving' = Tail(arriving)
        /\ queue' = <<e>> \o queue /\ UNCHANGED emitted
        /\ noted' = [noted EXCEPT ![e.iface] = e.id]
    BY <1>1 DEF Accept, Process, Inserted
  <2>2. /\ e = arriving[1] /\ 1 \in DOMAIN arriving /\ e \in Events
        /\ DOMAIN arriving' = 1..(Len(arriving) - 1)
        /\ \A k \in DOMAIN arriving' :
             /\ arriving'[k] = arriving[k + 1] /\ k + 1 \in DOMAIN arriving
             /\ k \in Nat /\ k > 0
    BY <2>1 DEF TypeOK
  <2> HIDE DEF e
  <2>3. /\ DOMAIN queue' = 1..(Len(queue) + 1) /\ queue'[1] = e
        /\ \A k \in 1..Len(queue) : queue'[k + 1] = queue[k]
        /\ DOMAIN queue = 1..Len(queue)
    BY <2>1, <2>2, Prepends DEF TypeOK
  <2>4. \A k \in DOMAIN queue' :
          \/ k = 1 /\ queue'[k].id = e.id
          \/ /\ k - 1 \in DOMAIN queue /\ queue'[k] = queue[k - 1]
             /\ queue'[k].id < e.id /\ k > 1
    <3> SUFFICES ASSUME NEW k \in DOMAIN queue', k # 1
                 PROVE  /\ k - 1 \in DOMAIN queue /\ queue'[k] = queue[k - 1]
                        /\ queue'[k].id < e.id /\ k > 1
      BY <2>3
    <3>1. k - 1 \in DOMAIN queue /\ k = (k - 1) + 1 /\ k > 1
      BY <2>3
    <3>2. queue'[k] = queue[k - 1]
      BY <2>3, <3>1
    <3>3. queue[k - 1].id < arriving[1].id
      BY <2>2, <3>1 DEF OrderInv
    <3> QED
      BY <2>2, <3>1, <3>2, <3>3
  <2>5. e.id \in Nat /\ e.iface \in Ifaces /\ e.id <= emitted
    BY <2>2 DEF OrderInv
  <2>6. \A k \in DOMAIN arriving' :
          e.id < arriving'[k].id /\ arriving'[k].id \in Nat
    BY <2>2 DEF OrderInv
  <2>7. \A l \in Ifaces : noted'[l] = e.id \/ noted'[l] = noted[l]
    BY <2>1, <2>5 DEF TypeOK
  <2>8. \A j, k \in DOMAIN queue' : j < k => queue'[j].id > queue'[k].id
    <3> SUFFICES ASSUME NEW j \in DOMAIN queue', NEW k \in DOMAIN queue', j < k
                 PROVE  queue'[j].id > queue'[k].id
      OBVIOUS
    <3>1. /\ k > 1 /\ k - 1 \in DOMAIN queue /\ queue'[k] = queue[k - 1]
          /\ queue'[k].id < e.id /\ j \in Nat /\ k \in Nat
      BY <2>3, <2>4
    <3>2. queue[k - 1].id \in Nat
      BY <3>1
    <3>3. CASE j = 1
      BY <2>3, <2>5, <3>1, <3>2, <3>3
    <3>4. CASE j # 1
      <4>1. j - 1 \in DOMAIN queue /\ queue'[j] = queue[j - 1] /\ j - 1 < k - 1
        BY <2>4, <3>1, <3>4
      <4> QED
        BY <3>1, <4>1 DEF OrderInv
    <3> QED
      BY <3>3, <3>4
  <2>9. \A j, k \in DOMAIN arriving' : j < k => arriving'[j].id < arriving'[k].id
    <3> SUFFICES ASSUME NEW j \in DOMAIN arriving', NEW k \in DOMAIN arriving',
                        j < k
                 PROVE  arriving'[j].id < arriving'[k].id
      OBVIOUS
    <3>1. /\ j + 1 \in DOMAIN arriving /\ arriving'[j] = arriving[j + 1]
          /\ k + 1 \in DOMAIN arriving /\ arriving'[k] = arriving[k + 1]
          /\ j + 1 < k + 1
      BY <2>2
    <3> QED
      BY <3>1, Zenon DEF OrderInv
  <2>10. \A j \in DOMAIN queue', k \in DOMAIN arriving' :
           queue'[j].id < arriving'[k].id
    <3> SUFFICES ASSUME NEW j \in DOMAIN queue', NEW k \in DOMAIN arriving'
                 PROVE  queue'[j].id < arriving'[k].id
      OBVIOUS
    <3>1. queue'[j].id <= e.id /\ queue'[j].id \in Nat
      BY <2>4, <2>5
    <3> QED
      BY <2>5, <2>6, <3>1
  <2>11. \A l \in Ifaces, k \in DOMAIN arriving' : noted'[l] < arriving'[k].id
    BY <2>2, <2>6, <2>7 DEF OrderInv
  <2>12. /\ \A k \in DOMAIN arriving' : arriving'[k].id <= emitted
         /\ \A k \in DOMAIN queue' : queue'[k].id <= emitted
         /\ \A l \in Ifaces : noted'[l] <= emitted
    BY <2>2, <2>4, <2>5, <2>7 DEF OrderInv
  <2>13. ASSUME NEW l \in Ifaces, NEW k \in DOMAIN queue',
                queue'[k].id = noted'[l]
         PROVE  queue'[k].iface = l
    <3>1. noted[l] < e.id /\ noted[l] \in Nat
      BY <2>2 DEF OrderInv
    <3>2. CASE queue'[k] = e
      <4>1. noted'[l] # noted[l]
        BY <2>5, <2>13, <3>1, <3>2
      <4> QED
        BY <2>1, <2>5, <3>2, <4>1 DEF TypeOK
    <3>3. CASE queue'[k] # e
      <4>1. /\ k - 1 \in DOMAIN queue /\ queue'[k] = queue[k - 1]
            /\ queue[k - 1].id < e.id /\ queue[k - 1].id \in Nat
        BY <2>3, <2>4, <3>3
      <4>2. noted'[l] = noted[l]
        BY <2>5, <2>7, <2>13, <4>1
      <4> QED
        BY <2>13, <4>1, <4>2 DEF OrderInv
    <3> QED
      BY <3>2, <3>3
  <2> QED
    BY <2>1, <2>8, <2>9, <2>10, <2>11, <2>12, <2>13 DEF OrderInv
<1>2. CASE Answer
  <2>1. idx \in 1..Len(queue) /\ queue \in Seq(Events)
    BY <1>2 DEF Answer, CallInv, TypeOK
  <2>2. queue' = Removed /\ UNCHANGED <<arriving, noted, emitted>>
    BY <1>2 DEF Answer
  <2>3. /\ DOMAIN queue' = 1..(Len(queue) - 1)
        /\ \A j \in 1..(Len(queue) - 1) :
             queue'[j] = IF j < idx THEN queue[j] ELSE queue[j + 1]
    BY <2>1, <2>2, RemovedAt DEF Removed
  <2>4. DOMAIN queue = 1..Len(queue)
    BY <2>1
  <2> DEFINE at(j) == IF j < idx THEN j ELSE j + 1
  <2>5. \A j \in DOMAIN queue' :
          /\ at(j) \in DOMAIN queue /\ queue'[j] = queue[at(j)]
          /\ \A k \in DOMAIN queue' : j < k => at(j) < at(k)
    BY <2>1, <2>3, <2>4
  <2>6. \A j \in DOMAIN queue' : \E k \in DOMAIN queue : queue'[j] = queue[k]
    BY <2>5
  <2> HIDE DEF at
  <2>7. \A j, k \in DOMAIN queue' : j < k => queue'[j].id > queue'[k].id
    BY <2>5, Zenon DEF OrderInv
  <2> QED
    BY <2>2, <2>6, <2>7 DEF OrderInv
<1>3. CASE CollectorDies
  <2>1. queue' = <<>> /\ arriving' = <<>> /\ UNCHANGED <<noted, emitted>>
    BY <1>3 DEF CollectorDies
  <2> QED
    BY <2>1 DEF OrderInv
<1>4. ASSUME NEW i \in Ifaces, NEW s \in {"up", "down"}, Script(i, s)
      PROVE  OrderInv'
    BY <1>4, ArriveOrder DEF Script, collectorVars
<1>5. CASE ConfigureWan
    BY <1>5, ArriveOrder, BusAssumption DEF ConfigureWan, collectorVars
<1>6. CASE UNCHANGED <<queue, arriving, noted, emitted>>
    BY <1>6 DEF OrderInv
<1> QED
    BY <1>1, <1>2, <1>3, <1>4, <1>5, <1>6
    DEF Next, CollectorStep, AcceptTimeout, Send, SendFails, CallTimeout,
        HttpdStep, StartServer, Serve, WanConfigured, LinkChange, DevdStep,
        RelaySend, RelayFails, RelayTimeout, ServeLink, vars, collectorVars

-------------------------------------------------------------------------------
(* Event n is in the queue after the step.                                 *)
QueuedAfter(n) == \E k \in DOMAIN queue' : queue'[k].id = n

(* What the steps of devd.lua and httpd do to the listen queue.            *)
LEMMA TailKeeps ==
    ASSUME TypeOK, Serving, listening' = Tail(listening)
    PROVE  /\ NextRequest = listening[1] /\ 1 \in DOMAIN listening
           /\ \A k \in DOMAIN listening' :
                /\ k \in Nat /\ k > 0 /\ k + 1 \in DOMAIN listening
                /\ listening'[k] = listening[k + 1]
BY DEF TypeOK, Serving, NextRequest

(* A request is added to the listen queue.                                 *)
LEMMA AppendKeeps ==
    ASSUME TypeOK, NEW r, listening' = Append(listening, r)
    PROVE  /\ Len(listening) \in Nat
           /\ DOMAIN listening = 1..Len(listening)
           /\ DOMAIN listening' = 1..(Len(listening) + 1)
           /\ listening'[Len(listening) + 1] = r
           /\ \A k \in DOMAIN listening : listening'[k] = listening[k]
BY DEF TypeOK

(* The live request of the collector is its last one.                      *)
LEMMA LastStep == TypeOK /\ CallInv /\ LastInv /\ [Next]_vars => LastInv'
<1> SUFFICES ASSUME TypeOK, CallInv, LastInv, [Next]_vars PROVE LastInv'
    OBVIOUS
<1>1. CASE UNCHANGED listening
    BY <1>1 DEF LastInv, IsLink
<1>2. CASE Serve \/ ServeLink
  <2>1. Serving /\ listening' = Tail(listening)
    BY <1>2 DEF Serve, ServeLink
  <2>2. \A k \in DOMAIN listening' :
          /\ k \in Nat /\ k + 1 \in DOMAIN listening
          /\ listening'[k] = listening[k + 1]
    BY <2>1, TailKeeps
  <2> QED
    BY <2>2 DEF LastInv, IsLink
<1>3. ASSUME NEW b \in BOOLEAN, listening' = GivenUp(b) PROVE LastInv'
    BY <1>3, GivenUpKeeps DEF LastInv, IsLink
<1>4. CASE CallTimeout \/ RelayTimeout
  <2>1. TRUE \in BOOLEAN /\ FALSE \in BOOLEAN
    OBVIOUS
  <2> QED
    BY <1>3, <1>4, <2>1 DEF CallTimeout, RelayTimeout
<1>5. CASE Send
  <2>1. \A k \in DOMAIN listening : ~Live(k)
    BY <1>5 DEF Send, CallInv, Live
  <2>2. listening' = Append(listening, [event |-> queue[idx], live |-> TRUE])
    BY <1>5 DEF Send
  <2>3. \A k \in DOMAIN listening' : Live(k)' => k = Len(listening) + 1
    BY <2>1, <2>2, AppendKeeps DEF Live, IsLink
  <2>4. \A j \in DOMAIN listening' : ~(j > Len(listening) + 1)
    BY <2>2, AppendKeeps
  <2> QED
    BY <2>3, <2>4 DEF LastInv, Live
<1>6. CASE RelaySend
  <2> DEFINE r == [event |-> LinkEvent(Head(devctl)), live |-> TRUE]
  <2>1. listening' = Append(listening, r)
    BY <1>6 DEF RelaySend
  <2>2. IsLink(r)
    BY DEF IsLink, LinkEvent
  <2> HIDE DEF r
  <2>3. /\ listening'[Len(listening) + 1] = r
        /\ \A k \in DOMAIN listening' : k # Len(listening) + 1 =>
             k \in DOMAIN listening /\ listening'[k] = listening[k]
    BY <2>1, AppendKeeps
  <2>4. \A j \in DOMAIN listening' : ~(j > Len(listening) + 1)
    BY <2>1, AppendKeeps
  <2> QED
    BY <2>2, <2>3, <2>4 DEF LastInv, IsLink
<1> QED
    BY <1>1, <1>2, <1>4, <1>5, <1>6
    DEF Next, Script, CollectorStep, Accept, AcceptTimeout, SendFails, Answer,
        CollectorDies, HttpdStep, StartServer, ConfigureWan, WanConfigured,
        LinkChange, DevdStep, RelayFails, vars, httpdVars

(* Steps that change neither the queue nor what httpd knows.               *)
LEMMA AgreeKept ==
    ASSUME Newest, Settled, Credited, UNCHANGED <<queue, noted, seen>>,
           call' = "answered" => call = "answered" /\ idx' = idx,
           \A k \in DOMAIN listening' :
             IsLink(listening[k])' \/ \E j \in DOMAIN listening :
                                         listening'[k].event = listening[j].event
    PROVE  Newest' /\ Settled' /\ Credited'
<1>1. Newest'
    BY DEF Newest, Queued
<1>2. Settled'
  <2> SUFFICES ASSUME NEW i \in Ifaces, ~Queued(noted[i]),
                      NEW k \in DOMAIN listening', ~IsLink(listening[k])'
               PROVE  listening'[k].event.iface # i
    BY DEF Settled, Queued
  <2>1. PICK j \in DOMAIN listening : listening'[k].event = listening[j].event
    OBVIOUS
  <2> QED
    BY <2>1 DEF Settled, IsLink
<1>3. Credited'
    BY DEF Credited, IsLink
<1> QED
    BY <1>1, <1>2, <1>3

(* Removing the oldest event, and only it, from the queue.                 *)
LEMMA AnswerAgrees ==
    ASSUME TypeOK, CallInv, OrderInv, Newest, Settled, Credited, Answer,
           idx = Len(queue)
    PROVE  Newest' /\ Settled' /\ Credited'
<1> USE EventTypes
<1> DEFINE e == queue[idx]
<1>1. idx \in 1..Len(queue) /\ queue \in Seq(Events) /\ DOMAIN queue = 1..Len(queue)
    BY DEF Answer, CallInv, TypeOK
<1>2. queue' = Removed /\ call' = "idle" /\ UNCHANGED <<noted, seen, listening>>
    BY DEF Answer, httpdVars
<1>3. /\ DOMAIN queue' = 1..(Len(queue) - 1)
      /\ \A j \in 1..(Len(queue) - 1) : queue'[j] = queue[j]
    BY <1>1, <1>2, RemovedAt DEF Removed
<1>4. \A j \in DOMAIN queue' :
        /\ j \in DOMAIN queue /\ queue'[j] = queue[j] /\ queue[j].id > e.id
    BY <1>1, <1>3 DEF OrderInv
<1>5. \A n : Queued(n) /\ n # e.id => QueuedAfter(n)
  <2> SUFFICES ASSUME NEW n, NEW k \in DOMAIN queue, queue[k].id = n, n # e.id
               PROVE  \E j \in DOMAIN queue' : queue'[j].id = n
    BY DEF Queued, QueuedAfter
  <2>1. k \in DOMAIN queue' /\ queue'[k] = queue[k]
    BY <1>1, <1>3
  <2> QED
    BY <2>1
<1>6. e \in Events /\ e.id \in Nat
    BY <1>1
<1> HIDE DEF e
<1>7. Newest'
  <2> SUFFICES ASSUME NEW k \in DOMAIN queue'
               PROVE  /\ queue'[k].id <= noted[queue'[k].iface]
                      /\ QueuedAfter(noted[queue'[k].iface])
    BY <1>2 DEF Newest, Queued, QueuedAfter
  <2>1. /\ k \in DOMAIN queue /\ queue'[k] = queue[k] /\ queue[k].id > e.id
        /\ queue[k].id <= noted[queue[k].iface] /\ Queued(noted[queue[k].iface])
    BY <1>4 DEF Newest
  <2>2. queue[k].iface \in Ifaces /\ queue[k].id \in Nat
    BY <2>1
  <2>3. noted[queue[k].iface] # e.id
    BY <1>6, <2>1, <2>2
  <2> QED
    BY <1>5, <2>1, <2>3
<1>8. Settled'
  <2> SUFFICES ASSUME NEW i \in Ifaces, ~QueuedAfter(noted[i])
               PROVE  /\ seen[i] = noted[i]
                      /\ \A k \in DOMAIN listening :
                           IsLink(listening[k]) \/ listening[k].event.iface # i
    BY <1>2 DEF Settled, Queued, QueuedAfter, IsLink
  <2>1. CASE ~Queued(noted[i])
    BY <2>1 DEF Settled
  <2>2. CASE Queued(noted[i])
    <3>1. noted[i] = e.id
      BY <1>2, <1>5, <2>2
    <3>2. e.iface = i
      BY <1>1, <3>1 DEF OrderInv, e
    <3>3. /\ seen[e.iface] = e.id
          /\ \A k \in DOMAIN listening : IsLink(listening[k])
      BY DEF Credited, Answer, e
    <3> QED
      BY <3>1, <3>2, <3>3
  <2> QED
    BY <2>1, <2>2
<1>9. Credited'
    BY <1>2 DEF Credited
<1> QED
    BY <1>7, <1>8, <1>9

(* Taking an event newer than all others.                                  *)
LEMMA AcceptAgrees ==
    ASSUME TypeOK, CallInv, OrderInv, Newest, Settled, Credited, Accept
    PROVE  Newest' /\ Settled' /\ Credited'
<1> USE EventTypes
<1> DEFINE e == Head(arriving)
<1>1. /\ arriving # <<>> /\ queue' = <<e>> \o queue
      /\ noted' = [noted EXCEPT ![e.iface] = e.id]
      /\ call' = "idle" /\ UNCHANGED <<seen, listening>>
    BY DEF Accept, Process, Inserted, CallInv
<1>2. e = arriving[1] /\ 1 \in DOMAIN arriving /\ e \in Events
    BY <1>1 DEF TypeOK
<1> HIDE DEF e
<1>3. /\ DOMAIN queue' = 1..(Len(queue) + 1) /\ queue'[1] = e
      /\ \A k \in 1..Len(queue) : queue'[k + 1] = queue[k]
      /\ DOMAIN queue = 1..Len(queue)
    BY <1>1, <1>2, Prepends DEF TypeOK
<1>4. QueuedAfter(e.id) /\ \A n : Queued(n) => QueuedAfter(n)
  <2>1. 1 \in DOMAIN queue'
    BY <1>3
  <2>2. \A k \in DOMAIN queue : k + 1 \in DOMAIN queue' /\ queue'[k + 1] = queue[k]
    BY <1>3
  <2> QED
    BY <1>3, <2>1, <2>2 DEF Queued, QueuedAfter
<1>5. \A k \in DOMAIN queue' :
        \/ queue'[k] = e
        \/ /\ k - 1 \in DOMAIN queue /\ queue'[k] = queue[k - 1]
           /\ queue'[k].id < e.id
  <2> SUFFICES ASSUME NEW k \in DOMAIN queue', k # 1
               PROVE  /\ k - 1 \in DOMAIN queue /\ queue'[k] = queue[k - 1]
                      /\ queue'[k].id < e.id
    BY <1>3
  <2>1. k - 1 \in DOMAIN queue /\ k = (k - 1) + 1
    BY <1>3
  <2>2. queue'[k] = queue[k - 1]
    BY <1>3, <2>1
  <2>3. queue[k - 1].id < arriving[1].id
    BY <1>2, <2>1 DEF OrderInv
  <2> QED
    BY <1>2, <2>1, <2>2, <2>3
<1>6. e.id \in Nat /\ e.iface \in Ifaces
    BY <1>2
<1>7. noted'[e.iface] = e.id
      /\ \A i \in Ifaces : i # e.iface => noted'[i] = noted[i]
    BY <1>1, <1>6 DEF TypeOK
<1>8. Newest'
  <2> SUFFICES ASSUME NEW k \in DOMAIN queue'
               PROVE  /\ queue'[k].id <= noted'[queue'[k].iface]
                      /\ QueuedAfter(noted'[queue'[k].iface])
    BY DEF Newest, Queued, QueuedAfter
  <2>1. CASE queue'[k].iface = e.iface
    <3>1. queue'[k].id <= e.id
      <4>1. CASE queue'[k] = e
        BY <1>6, <4>1
      <4>2. CASE queue'[k] # e
        <5>1. k - 1 \in DOMAIN queue /\ queue'[k] = queue[k - 1]
              /\ queue[k - 1].id < e.id
          BY <1>5, <4>2
        <5>2. queue[k - 1].id \in Nat
          BY <5>1
        <5> QED
          BY <1>6, <5>1, <5>2
      <4> QED
        BY <4>1, <4>2
    <3> QED
      BY <1>4, <1>7, <2>1, <3>1
  <2>2. CASE queue'[k].iface # e.iface
    <3>1. k - 1 \in DOMAIN queue /\ queue'[k] = queue[k - 1]
      BY <1>5, <2>2
    <3>2. /\ queue[k - 1].id <= noted[queue[k - 1].iface]
          /\ Queued(noted[queue[k - 1].iface]) /\ queue[k - 1].iface \in Ifaces
      BY <3>1 DEF Newest
    <3> QED
      BY <1>4, <1>7, <2>2, <3>1, <3>2
  <2> QED
    BY <2>1, <2>2
<1>9. Settled'
  <2> SUFFICES ASSUME NEW i \in Ifaces, ~QueuedAfter(noted'[i])
               PROVE  /\ seen[i] = noted'[i]
                      /\ \A k \in DOMAIN listening :
                           IsLink(listening[k]) \/ listening[k].event.iface # i
    BY <1>1 DEF Settled, IsLink, Queued, QueuedAfter
  <2>1. i # e.iface
    BY <1>4, <1>7
  <2>2. noted'[i] = noted[i] /\ ~Queued(noted[i])
    BY <1>4, <1>7, <2>1
  <2> QED
    BY <2>2 DEF Settled
<1>10. Credited'
    BY <1>1 DEF Credited
<1> QED
    BY <1>8, <1>9, <1>10

(* httpd executes a request of the collector.                              *)
LEMMA ServeAgrees ==
    ASSUME TypeOK, CallInv, LastInv, Newest, Settled, Credited, Serve
    PROVE  Newest' /\ Settled' /\ Credited'
<1> DEFINE r == NextRequest
<1>1. /\ Serving /\ ~IsLink(r) /\ listening' = Tail(listening)
      /\ seen' = [seen EXCEPT ![r.event.iface] = r.event.id]
      /\ call' = IF r.live THEN "answered" ELSE call
      /\ UNCHANGED <<queue, idx, noted>>
    BY DEF Serve, SeenAfter
<1>2. /\ r = listening[1] /\ 1 \in DOMAIN listening
      /\ \A k \in DOMAIN listening' :
           /\ k \in Nat /\ k > 0 /\ k + 1 \in DOMAIN listening
           /\ listening'[k] = listening[k + 1]
    BY <1>1, TailKeeps
<1>3. r.event.iface \in Ifaces /\ DOMAIN seen = Ifaces
  <2>1. listening[1] \in Requests
    BY <1>2 DEF TypeOK
  <2>2. r.event \in Events
    BY <1>1, <1>2, <2>1, RequestKinds
  <2> QED
    BY <2>2, EventTypes DEF TypeOK
<1> HIDE DEF r
<1>4. Newest'
    BY <1>1 DEF Newest, Queued
<1>5. Settled'
  <2> SUFFICES ASSUME NEW i \in Ifaces, ~Queued(noted[i])
               PROVE  /\ seen'[i] = noted[i]
                      /\ \A k \in DOMAIN listening' :
                           IsLink(listening[k])' \/ listening'[k].event.iface # i
    BY <1>1 DEF Settled, Queued
  <2>1. r.event.iface # i
    BY <1>1, <1>2 DEF Settled
  <2> QED
    BY <1>1, <1>2, <1>3, <2>1 DEF Settled, IsLink
<1>6. Credited'
  <2> SUFFICES ASSUME call' = "answered"
               PROVE  /\ seen'[queue[idx].iface] = queue[idx].id
                      /\ \A k \in DOMAIN listening' : IsLink(listening[k])'
    BY <1>1 DEF Credited
  <2>1. r.live
    <3> SUFFICES ASSUME ~r.live PROVE FALSE
      OBVIOUS
    <3>1. call = "answered"
      BY <1>1
    <3> QED
      BY <1>1, <1>2, <3>1 DEF Credited
  <2>2. r.event = queue[idx]
    BY <1>1, <1>2, <2>1 DEF CallInv
  <2>3. \A k \in DOMAIN listening' : k + 1 > 1
    BY <1>2
  <2>4. \A k \in DOMAIN listening' : IsLink(listening[k + 1])
    <3>1. listening[1].live /\ ~IsLink(listening[1])
      BY <1>1, <1>2, <2>1
    <3> QED
      BY <1>2, <2>3, <3>1, Zenon DEF LastInv
  <2> QED
    BY <1>1, <1>2, <1>3, <2>2, <2>4 DEF IsLink
<1> QED
    BY <1>4, <1>5, <1>6

(* Unless an event overtakes, httpd and collector end up with the same     *)
(* last event of every interface.                                          *)
LEMMA AgreeStep ==
    TypeOK /\ CallInv /\ OrderInv /\ LastInv /\ AgreeInv /\ [Next]_vars => AgreeInv'
<1> SUFFICES ASSUME TypeOK, CallInv, OrderInv, LastInv, AgreeInv, [Next]_vars,
                    alive', ~overtaken'
             PROVE  Newest' /\ Settled' /\ Credited'
    BY DEF AgreeInv
<1>0. alive /\ ~overtaken
  <2>1. CASE Answer
    BY <2>1, Zenon DEF Answer
  <2>2. CASE CollectorDies
    BY <2>2 DEF CollectorDies
  <2>3. CASE UNCHANGED <<alive, overtaken>>
    BY <2>3
  <2> QED
    BY <2>1, <2>2, <2>3
    DEF Next, Script, CollectorStep, Accept, AcceptTimeout, Send, SendFails,
        CallTimeout, CallFailed, LinkChange, DevdStep, RelaySend, RelayFails,
        RelayTimeout, HttpdStep, StartServer, Serve, ServeLink, ConfigureWan,
        WanConfigured, vars, collectorVars
<1>i. Newest /\ Settled /\ Credited
    BY <1>0 DEF AgreeInv
<1>1. CASE Accept
    BY <1>1, <1>i, AcceptAgrees
<1>2. CASE Answer
  <2>1. idx = Len(queue)
    BY <1>2 DEF Answer, TypeOK
  <2> QED
    BY <1>2, <1>i, <2>1, AnswerAgrees
<1>3. CASE Serve
    BY <1>3, <1>i, ServeAgrees
<1>4. CASE Send
  <2> DEFINE r == [event |-> queue[idx], live |-> TRUE]
  <2>1. /\ listening' = Append(listening, r) /\ call' = "waiting"
        /\ UNCHANGED <<queue, noted, seen>> /\ idx \in DOMAIN queue
    BY <1>4 DEF Send, TypeOK
  <2>2. r.event = queue[idx]
    OBVIOUS
  <2> HIDE DEF r
  <2>3. \A k \in DOMAIN listening' :
          \/ k \in DOMAIN listening /\ listening'[k] = listening[k]
          \/ listening'[k] = r
    BY <2>1, AppendKeeps
  <2>4. Newest' /\ Credited'
    BY <1>i, <2>1 DEF Newest, Credited, Queued
  <2>5. Settled'
    BY <1>i, <2>1, <2>2, <2>3 DEF Settled, Newest, Queued, IsLink
  <2> QED
    BY <2>4, <2>5
<1>5. CASE CallTimeout \/ RelayTimeout
  <2>1. /\ UNCHANGED <<queue, noted, seen>>
        /\ call' = "answered" => call = "answered" /\ idx' = idx
        /\ \E b \in BOOLEAN : listening' = GivenUp(b)
    BY <1>5 DEF CallTimeout, RelayTimeout, collectorVars
  <2>2. \A k \in DOMAIN listening' : \E j \in DOMAIN listening :
          listening'[k].event = listening[j].event
    BY <2>1, GivenUpKeeps
  <2> QED
    BY <1>i, <2>1, <2>2, AgreeKept
<1>6. CASE ServeLink
  <2>1. /\ UNCHANGED <<queue, noted, seen, call, idx>>
        /\ Serving /\ listening' = Tail(listening)
    BY <1>6 DEF ServeLink, collectorVars
  <2>2. \A k \in DOMAIN listening' : \E j \in DOMAIN listening :
          listening'[k].event = listening[j].event
    BY <2>1, TailKeeps
  <2> QED
    BY <1>i, <2>1, <2>2, AgreeKept
<1>7. CASE RelaySend
  <2> DEFINE r == [event |-> LinkEvent(Head(devctl)), live |-> TRUE]
  <2>1. /\ UNCHANGED <<queue, noted, seen, call, idx>>
        /\ listening' = Append(listening, r)
    BY <1>7 DEF RelaySend, collectorVars
  <2>2. r.event.state \in {"linkup", "linkdown"}
    BY DEF LinkEvent
  <2> HIDE DEF r
  <2>3. \A k \in DOMAIN listening' :
          \/ listening'[k] = r
          \/ k \in DOMAIN listening /\ listening'[k] = listening[k]
    BY <2>1, AppendKeeps
  <2>4. \A k \in DOMAIN listening' :
          IsLink(listening[k])' \/ \E j \in DOMAIN listening :
                                      listening'[k].event = listening[j].event
    BY <2>2, <2>3 DEF IsLink
  <2> QED
    BY <1>i, <2>1, <2>4, AgreeKept
<1>8. CASE /\ UNCHANGED <<queue, noted, seen, listening, call>>
           /\ call # "idle" => UNCHANGED idx
  <2>1. call' = "answered" => call = "answered" /\ idx' = idx
    BY <1>8
  <2>2. \A k \in DOMAIN listening' : \E j \in DOMAIN listening :
          listening'[k].event = listening[j].event
    BY <1>8
  <2> QED
    BY <1>i, <1>8, <2>1, <2>2, AgreeKept
<1>9. CASE AcceptTimeout \/ SendFails
  <2>1. call = "idle"
    <3>1. call # "idle" => idx > 0
      BY DEF CallInv
    <3>2. idx = 0 \/ call = "idle"
      BY <1>9 DEF AcceptTimeout, SendFails
    <3> QED
      BY <3>1, <3>2
  <2>2. UNCHANGED <<queue, noted, seen, listening, call>>
    BY <1>9 DEF AcceptTimeout, SendFails, httpdVars
  <2> QED
    BY <1>8, <2>1, <2>2
<1>10. CASE CollectorDies
    BY <1>10 DEF CollectorDies
<1> QED
    BY <1>1, <1>2, <1>3, <1>4, <1>5, <1>6, <1>7, <1>8, <1>9, <1>10
    DEF Next, Script, CollectorStep, HttpdStep, StartServer, ConfigureWan,
        WanConfigured, LinkChange, DevdStep, RelayFails, vars, collectorVars,
        httpdVars

-------------------------------------------------------------------------------
(* The invariant holds at boot.                                            *)
LEMMA BusInit == Init => BusInv
<1> SUFFICES ASSUME Init PROVE BusInv
    OBVIOUS
<1> USE BusAssumption DEF Init
<1>1. TypeOK
  <2>1. <<>> \in Seq(Events) /\ <<>> \in Seq(Requests) /\ Len(<<>>) = 0
    OBVIOUS
  <2>2. idx \in 0..Len(queue)
    BY <2>1
  <2>3. noted \in [Ifaces -> {0} \cup Ids] /\ seen \in [Ifaces -> {0} \cup Ids]
    OBVIOUS
  <2>4. accepted \subseteq Ids /\ delivered \subseteq Ids /\ emitted \in Nat
        /\ <<>> \in Seq(BOOLEAN)
    OBVIOUS
  <2> QED
    BY <2>1, <2>2, <2>3, <2>4 DEF TypeOK, WanSteps
<1>2. EmittedInv
    BY DEF EmittedInv
<1>3. CallInv /\ NoEventLost
    BY DEF CallInv, NoEventLost
<1>4. LinkInv /\ LinkServed
    BY DEF LinkInv, LinkServed
<1>5. OrderInv /\ LastInv
    BY DEF OrderInv, LastInv
<1>6. AgreeInv
    BY DEF AgreeInv, Newest, Settled, Credited
<1> QED
    BY <1>1, <1>2, <1>3, <1>4, <1>5, <1>6 DEF BusInv

(* The invariant is inductive: a live request is the one the collector    *)
(* waits for, so an answer removes the event it belongs to.                *)
THEOREM BusInvariance == Spec => []BusInv
<1>1. BusInv /\ [Next]_vars => BusInv'
    BY BusTypeStep, CallStep, LossStep, LinkStep, OrderStep, LastStep, AgreeStep
    DEF BusInv
<1> QED
    BY BusInit, <1>1, PTL DEF Spec

(* Type correctness of collector and httpd.                                *)
THEOREM BusTypeCorrect == Spec => []TypeOK
<1>1. BusInv => TypeOK
    BY DEF BusInv
<1> QED
    BY BusInvariance, <1>1, PTL

(* While the collector runs, what it has acknowledged is executed by httpd *)
(* or still queued, in every behaviour.                                    *)
THEOREM NothingIsLost == Spec => []NoEventLost
<1>1. BusInv => NoEventLost
    BY DEF BusInv
<1> QED
    BY BusInvariance, <1>1, PTL

(* A port with a link has its dhclient, or the request that starts it is   *)
(* under way, unless httpd refused the event.                              *)
THEOREM LinksAreServed == Spec => []LinkServed
<1>1. BusInv => LinkServed
    BY DEF BusInv
<1> QED
    BY BusInvariance, <1>1, PTL

(* Refused calls and late answers alone never leave httpd with an older    *)
(* event of an interface than the collector, whatever is sent twice.       *)
THEOREM AgreementHolds == Spec => []AgreementUnlessOvertaken
<1>1. BusInv => AgreementUnlessOvertaken
  <2> SUFFICES ASSUME BusInv, alive, Quiet, ~overtaken PROVE seen = noted
    BY DEF AgreementUnlessOvertaken
  <2>1. \A i \in Ifaces : ~Queued(noted[i])
    BY DEF Quiet, Queued
  <2>2. \A i \in Ifaces : seen[i] = noted[i]
    BY <2>1 DEF BusInv, AgreeInv, Settled
  <2> QED
    BY <2>2 DEF BusInv, TypeOK
<1> QED
    BY BusInvariance, <1>1, PTL
===============================================================================
