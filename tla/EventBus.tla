------------------------------- MODULE EventBus --------------------------------
(***************************************************************************)
(* The link events of the Lua web UI, from the scripts of mpd, dhclient    *)
(* and racoon through collector.lua to httpd.lua, and the cable of the WAN *)
(* port, from the kernel through devd.lua to httpd.lua.                    *)
(*                                                                         *)
(* All three are single threads.  The collector                            *)
(* answers the script, queues the event, and then offers every queued      *)
(* event to httpd, oldest first, with an HTTP request that gives up after  *)
(* 60 s; what httpd did not answer stays queued.  httpd serves one         *)
(* connection at a time and, once after boot, runs configure_wan, which    *)
(* itself fetches from the collector and waits for the answer.             *)
(*                                                                         *)
(* devd.lua sends each link event to httpd once and forgets it, answered   *)
(* or not.                                                                 *)
(*                                                                         *)
(* A request its sender gave up on is still in httpd's listen queue, and   *)
(* httpd will read and execute it like any other.                          *)
(***************************************************************************)
EXTENDS Integers, Sequences

CONSTANTS
    Ifaces,         \* interfaces
    Wan,            \* the interface configure_wan reports, static "hw" mode
    MaxEvents,      \* bound on the number of events the scripts report
    MaxLinks,       \* bound on the number of times the link changes
    Backlog,        \* connections httpd's listen queue holds
    SlowServer,     \* TRUE: any request to httpd may take 60 s or more;
                    \* FALSE: only while httpd waits for the collector
    NoIface

ASSUME BusAssumption ==
    /\ Wan \in Ifaces /\ NoIface \notin Ifaces
    /\ MaxEvents \in Nat /\ MaxLinks \in Nat /\ Backlog \in Nat \ {0}
    /\ SlowServer \in BOOLEAN

VARIABLES
    emitted,    \* number of events that have happened
    arriving,   \* connections of the scripts waiting for accept()
    queue,      \* the collector's queue; position 1 is the newest event
    idx,        \* loop index i; 0 outside the loop
    call,       \* call_server: "idle", "waiting", "answered"
    noted,      \* r[iface] of the collector: the last event, 0 for none
    route,      \* interface of the default route
    led,        \* internet_led
    listening,  \* httpd's listen queue: [event, live]
    seen,       \* r[iface] of httpd
    wan,        \* httpd: "boot", "pending", "fetching", "fetched", "done"
    accepted,   \* history: events the collector has taken
    delivered,  \* history: events httpd has executed
    overtaken,  \* history: an event was answered for while an older one,
                \* whose call had overtaken, stayed in the queue
    alive,      \* the collector process runs
    link,       \* the WAN port has a link
    changes,    \* number of times it has changed
    devctl,     \* link events devd.lua has not read; TRUE is LINK_UP
    relay,      \* call_server of devd.lua: "idle", "waiting"
    dhclient,   \* dhclient runs on the WAN port
    missed      \* history: httpd was not told of the last change

collectorVars == <<queue, idx, call, noted, route, led, accepted, overtaken>>
httpdVars == <<listening, seen, wan, delivered>>
linkVars == <<link, changes, devctl, relay, dhclient, missed>>
vars == <<emitted, arriving, collectorVars, httpdVars, alive, linkVars>>

Ids == 1..(MaxEvents + 1)     \* one event is configure_wan's
Events == [id : Ids, iface : Ifaces, state : {"up", "down"},
           fetch : BOOLEAN]
LinkEvents == [id : {0}, iface : {Wan}, state : {"linkup", "linkdown"},
               fetch : {FALSE}]
Requests == [event : Events \cup LinkEvents, live : BOOLEAN]
WanSteps == {"boot", "pending", "fetching", "fetched", "done"}

Init ==
    /\ emitted = 0 /\ arriving = <<>>
    /\ queue = <<>> /\ idx = 0 /\ call = "idle"
    /\ noted = [i \in Ifaces |-> 0] /\ route = NoIface /\ led = FALSE
    /\ listening = <<>> /\ seen = [i \in Ifaces |-> 0] /\ wan = "boot"
    /\ accepted = {} /\ delivered = {} /\ overtaken = FALSE
    /\ alive = TRUE
    /\ link \in BOOLEAN /\ changes = 0 /\ devctl = <<>> /\ relay = "idle"
    /\ dhclient = FALSE /\ missed = TRUE

-------------------------------------------------------------------------------
(* The event sources.  fetch marks configure_wan's own event.  Without a   *)
(* collector the connection is refused and the event is gone.              *)
Arrive(i, s, fetch) ==
    /\ emitted' = emitted + 1
    /\ arriving' = IF ~alive THEN arriving
                   ELSE Append(arriving, [id |-> emitted + 1, iface |-> i,
                                          state |-> s, fetch |-> fetch])

(* mpd-linkup, mpd-linkdown, dhclient-script, racoon's phase1 scripts.     *)
Script(i, s) ==
    /\ emitted < MaxEvents
    /\ Arrive(i, s, FALSE)
    /\ UNCHANGED <<collectorVars, httpdVars, alive, linkVars>>

(* A request of devd.lua.                                                  *)
IsLink(r) == r.event.state \in {"linkup", "linkdown"}

(* The collector, or devd.lua, closes its end of the connection: its       *)
(* request stays in the listen queue.                                      *)
GivenUp(byDevd) ==
    [k \in DOMAIN listening |->
       [event |-> listening[k].event,
        live |-> listening[k].live /\ (IsLink(listening[k]) <=> ~byDevd)]]

(* call_server waits 60 s.                                                 *)
TooSlow == SlowServer \/ wan = "fetching"

-------------------------------------------------------------------------------
(* collector.lua *)

(* Mutant: new events go to the end that is offered first.                 *)
InsertedLast(e) == Append(queue, e)

(* table.insert(queue, 1, ...) *)
Inserted(e) == <<e>> \o queue

(* The default route and the LED follow the event.  route(8) may fail,     *)
(* nobody looks.                                                           *)
RouteAndLed(e) ==
    /\ route' \in IF e.state = "up" THEN {e.iface, route} ELSE {route}
    /\ led' = (e.state = "up")

(* process(): the event is queued and noted, route and LED are set.        *)
Process(e) ==
    /\ queue' = Inserted(e)
    /\ noted' = [noted EXCEPT ![e.iface] = e.id]
    /\ RouteAndLed(e)

(* accept() returns a connection: process() and the answer, then the loop  *)
(* over the whole queue begins.                                            *)
Accept ==
    LET e == Head(arriving) IN
    /\ alive /\ idx = 0 /\ arriving # <<>>
    /\ arriving' = Tail(arriving)
    /\ Process(e)
    /\ idx' = Len(queue) + 1
    /\ accepted' = accepted \cup {e.id}
    /\ wan' = IF e.fetch THEN "fetched" ELSE wan
    /\ UNCHANGED <<emitted, call, overtaken, listening, seen, delivered, alive,
                   linkVars>>

(* An error in process(), as when resolv.conf cannot be written, or in the *)
(* assert around send() ends the collector.  Its queue is gone, waiting    *)
(* connections are reset, and nobody starts it again before a reboot.      *)
CollectorDies ==
    LET e == Head(arriving) IN
    /\ alive /\ idx = 0 /\ arriving # <<>>
    /\ alive' = FALSE /\ queue' = <<>> /\ arriving' = <<>>
    /\ RouteAndLed(e)
    /\ wan' = IF wan = "fetching" THEN "fetched" ELSE wan
    /\ UNCHANGED <<emitted, idx, call, noted, accepted, overtaken, listening,
                   seen, delivered, linkVars>>

(* Mutant: accept() without a timeout.                                     *)
AcceptBlocks == FALSE /\ UNCHANGED vars

(* accept() times out after 5 s: the queue is offered again.               *)
AcceptTimeout ==
    /\ idx = 0 /\ arriving = <<>> /\ queue # <<>>
    /\ idx' = Len(queue)
    /\ UNCHANGED <<emitted, arriving, queue, call, noted, route, led, accepted,
                   overtaken, httpdVars, alive, linkVars>>

(* call_server returned nil: the event stays, the loop goes on with the    *)
(* next newer one.                                                         *)
CallFailed == idx' = idx - 1 /\ UNCHANGED overtaken

(* call_server: connect and send, or connection refused.                   *)
CanConnect == wan # "boot" /\ Len(listening) < Backlog

Send ==
    /\ idx > 0 /\ call = "idle" /\ CanConnect
    /\ listening' = Append(listening, [event |-> queue[idx], live |-> TRUE])
    /\ call' = "waiting"
    /\ UNCHANGED <<emitted, arriving, queue, idx, noted, route, led, accepted,
                   overtaken, seen, wan, delivered, alive, linkVars>>

SendFails ==
    /\ idx > 0 /\ call = "idle" /\ ~CanConnect
    /\ CallFailed
    /\ UNCHANGED <<emitted, arriving, queue, call, noted, route, led, accepted,
                   httpdVars, alive, linkVars>>

(* Mutants: the newest event is removed; the whole queue is.               *)
RemovedNewest == Tail(queue)
RemovedAll == <<>>

(* table.remove(queue, idx) *)
Removed == SubSeq(queue, 1, idx - 1) \o SubSeq(queue, idx + 1, Len(queue))

(* Code 200: the event leaves the queue.                                   *)
Answer ==
    /\ call = "answered"
    /\ queue' = Removed
    /\ idx' = idx - 1 /\ call' = "idle"
    /\ overtaken' = (overtaken \/ idx < Len(queue))
    /\ UNCHANGED <<emitted, arriving, noted, route, led, accepted, httpdVars,
                   alive, linkVars>>

(* Mutant: call_server without a timeout.                                  *)
CallWaits == FALSE /\ UNCHANGED vars

(* Mutant: a late answer is taken for the answer of the current call.      *)
CallTimeoutStillLive ==
    /\ call = "waiting" /\ TooSlow
    /\ CallFailed /\ call' = "idle"
    /\ UNCHANGED <<emitted, arriving, queue, noted, route, led, accepted,
                   listening, seen, wan, delivered, alive, linkVars>>

(* No answer for 60 s: the collector closes its end.                       *)
CallTimeout ==
    /\ call = "waiting" /\ TooSlow
    /\ listening' = GivenUp(FALSE)
    /\ CallFailed /\ call' = "idle"
    /\ UNCHANGED <<emitted, arriving, queue, noted, route, led, accepted, seen,
                   wan, delivered, alive, linkVars>>

CollectorStep ==
    Accept \/ AcceptTimeout \/ Send \/ SendFails \/ Answer \/ CallTimeout

-------------------------------------------------------------------------------
(* The cable and devd.lua *)

(* The cable is plugged or pulled; dhclient may end when the link is lost. *)
LinkChange ==
    /\ changes < MaxLinks
    /\ changes' = changes + 1
    /\ link' = ~link
    /\ devctl' = Append(devctl, ~link)
    /\ dhclient' \in IF link THEN {FALSE, dhclient} ELSE {dhclient}
    /\ UNCHANGED <<emitted, arriving, collectorVars, httpdVars, alive, relay,
                   missed>>

LinkEvent(up) == [id |-> 0, iface |-> Wan, fetch |-> FALSE,
                  state |-> IF up THEN "linkup" ELSE "linkdown"]

(* system_event, IFNET: the next event is sent to httpd ...                *)
RelaySend ==
    /\ relay = "idle" /\ devctl # <<>> /\ CanConnect
    /\ devctl' = Tail(devctl)
    /\ listening' = Append(listening, [event |-> LinkEvent(Head(devctl)),
                                       live |-> TRUE])
    /\ relay' = "waiting" /\ missed' = FALSE
    /\ UNCHANGED <<emitted, arriving, collectorVars, seen, wan, delivered, alive,
                   link, changes, dhclient>>

(* ... or refused by it, and dropped: call_server returns nil, which is    *)
(* compared with false.                                                    *)
RelayFails ==
    /\ relay = "idle" /\ devctl # <<>> /\ ~CanConnect
    /\ devctl' = Tail(devctl)
    /\ missed' = TRUE
    /\ UNCHANGED <<emitted, arriving, collectorVars, httpdVars, alive, link,
                   changes, relay, dhclient>>

(* No answer for 60 s.                                                     *)
RelayTimeout ==
    /\ relay = "waiting" /\ TooSlow
    /\ relay' = "idle" /\ listening' = GivenUp(TRUE)
    /\ UNCHANGED <<emitted, arriving, collectorVars, seen, wan, delivered, alive,
                   link, changes, devctl, dhclient, missed>>

DevdStep == RelaySend \/ RelayFails \/ RelayTimeout

-------------------------------------------------------------------------------
(* httpd.lua *)

(* The start-up code up to listen().                                       *)
StartServer ==
    /\ wan = "boot"
    /\ wan' = "pending"
    /\ UNCHANGED <<emitted, arriving, collectorVars, listening, seen, delivered,
                   alive, linkVars>>

(* processConnection accepts the oldest connection and reads the request,  *)
(* also when its sender is gone; requests from 127.0.0.1 need no password. *)
NextRequest == Head(listening)

(* event.xml keeps what the event says of its interface.                   *)
SeenAfter(e) == [seen EXCEPT ![e.iface] = e.id]

(* httpd is at accept() and has a connection.                              *)
Serving == wan \in {"pending", "done"} /\ listening # <<>>

(* handleRequest: event.xml is executed, then the answer is complete.  Its *)
(* header, "200", is sent before and the result of the pcall around the    *)
(* script is not looked at, so a script that failed would be answered like *)
(* one that did its work; event.xml does not fail on what the scripts send.*)
Serve ==
    LET r == NextRequest IN
    /\ Serving /\ ~IsLink(r)
    /\ listening' = Tail(listening)
    /\ seen' = SeenAfter(r.event)
    /\ delivered' = delivered \cup {r.event.id}
    /\ call' = IF r.live THEN "answered" ELSE call
    /\ UNCHANGED <<emitted, arriving, queue, idx, noted, route, led, accepted,
                   overtaken, wan, alive, linkVars>>

(* run_dhclient, with DHCP enabled on the port: an old dhclient is killed, *)
(* and a new one is started if the port has a link now.                    *)
RunDhclient == link

(* Mutant: devd.lua never gets its answer.                                 *)
ServeLinkUnanswered ==
    LET r == NextRequest IN
    /\ Serving /\ IsLink(r)
    /\ listening' = Tail(listening)
    /\ dhclient' = IF r.event.state = "linkup" THEN RunDhclient ELSE dhclient
    /\ UNCHANGED <<emitted, arriving, collectorVars, seen, wan, delivered, alive,
                   link, changes, devctl, relay, missed>>

(* The same for the request of devd.lua; of r[iface] only the state is     *)
(* overwritten.                                                            *)
ServeLink ==
    LET r == NextRequest IN
    /\ Serving /\ IsLink(r)
    /\ listening' = Tail(listening)
    /\ dhclient' = IF r.event.state = "linkup" THEN RunDhclient ELSE dhclient
    /\ relay' = IF r.live THEN "idle" ELSE relay
    /\ UNCHANGED <<emitted, arriving, collectorVars, seen, wan, delivered, alive,
                   link, changes, devctl, missed>>

(* periodic_tasks starts configure_wan: "Call collector, to let him know   *)
(* about static config", and wait for his answer.                          *)
ConfigureWan ==
    /\ wan = "pending"
    /\ Arrive(Wan, "up", TRUE)
    /\ wan' = IF alive THEN "fetching" ELSE "fetched"
    /\ UNCHANGED <<collectorVars, listening, seen, delivered, alive, linkVars>>

(* Mutant: configure_wan leaves dhclient to the link events.               *)
WanConfiguredNoDhclient ==
    /\ wan = "fetched"
    /\ route' = IF route = NoIface THEN Wan ELSE route
    /\ wan' = "done" /\ missed' = FALSE
    /\ UNCHANGED <<emitted, arriving, queue, idx, call, noted, led, accepted,
                   overtaken, listening, seen, delivered, alive, link, changes,
                   devctl, relay, dhclient>>

(* The rest of configure_wan: run_dhclient, then "route add default",      *)
(* which only succeeds when there is no default route.                     *)
WanConfigured ==
    /\ wan = "fetched"
    /\ dhclient' = RunDhclient /\ missed' = FALSE
    /\ route' = IF route = NoIface THEN Wan ELSE route
    /\ wan' = "done"
    /\ UNCHANGED <<emitted, arriving, queue, idx, call, noted, led, accepted,
                   overtaken, listening, seen, delivered, alive, link, changes,
                   devctl, relay>>

HttpdStep ==
    StartServer \/ Serve \/ ServeLink \/ ConfigureWan \/ WanConfigured

Next ==
    \/ \E i \in Ifaces, s \in {"up", "down"} : Script(i, s)
    \/ CollectorStep
    \/ CollectorDies
    \/ LinkChange
    \/ DevdStep
    \/ HttpdStep

Spec == Init /\ [][Next]_vars

(* The three processes run; links, scripts and errors need not happen.     *)
FairSpec ==
    /\ Spec
    /\ WF_vars(CollectorStep) /\ WF_vars(HttpdStep) /\ WF_vars(DevdStep)

-------------------------------------------------------------------------------
TypeOK ==
    /\ emitted \in Nat /\ arriving \in Seq(Events)
    /\ queue \in Seq(Events) /\ idx \in 0..Len(queue)
    /\ call \in {"idle", "waiting", "answered"}
    /\ noted \in [Ifaces -> {0} \cup Ids] /\ seen \in [Ifaces -> {0} \cup Ids]
    /\ route \in Ifaces \cup {NoIface} /\ led \in BOOLEAN
    /\ listening \in Seq(Requests) /\ wan \in WanSteps
    /\ accepted \subseteq Ids /\ delivered \subseteq Ids
    /\ overtaken \in BOOLEAN /\ alive \in BOOLEAN
    /\ link \in BOOLEAN /\ changes \in Nat /\ devctl \in Seq(BOOLEAN)
    /\ relay \in {"idle", "waiting"}
    /\ dhclient \in BOOLEAN /\ missed \in BOOLEAN

Queued(n) == \E k \in DOMAIN queue : queue[k].id = n

(* What the collector has acknowledged to a script is not lost while it    *)
(* runs: httpd has executed the event or it is still queued, however often *)
(* requests are refused or time out, and whichever request an answer       *)
(* belongs to (collector.lua, main loop).                                  *)
NoEventLost ==
    alive => \A n \in accepted : n \in delivered \/ Queued(n)

Quiet == arriving = <<>> /\ queue = <<>> /\ listening = <<>>

(* "First element processed last (implement FIFO)", collector.lua:73: once *)
(* all events are through, httpd's last event of every interface is the    *)
(* last event the collector saw of it.                                     *)
QuietAgreement == alive /\ Quiet => seen = noted

(* Refused calls, late answers and the second execution of requests the    *)
(* collector gave up on do no lasting harm by themselves: only an event    *)
(* that overtakes an older one leaves httpd with the wrong last event.     *)
AgreementUnlessOvertaken == alive /\ Quiet /\ ~overtaken => seen = noted

(* However often the cable is plugged and pulled, whatever link events     *)
(* time out, and whenever configure_wan comes in between: once devd.lua    *)
(* has read the last event of a port that has a link, dhclient runs or the *)
(* request that starts it waits for httpd, unless httpd refused it.        *)
LinkServed ==
    link /\ devctl = <<>> /\ ~missed =>
      \/ dhclient
      \/ \E k \in DOMAIN listening : listening[k].event.state = "linkup"

(* The circular wait of collector and httpd is always resolved, also when  *)
(* the collector ends in the middle of it: the WAN task that waits for the *)
(* collector comes to its end.                                             *)
WanTaskEnds == wan = "fetching" ~> wan = "done"

(* Every event a script reports is in the end executed by httpd, also the  *)
(* ones that come while httpd is still booting, unless the collector ends. *)
AllDelivered ==
    \A n \in Ids : n \in accepted ~> (n \in delivered \/ ~alive)

(* A link that comes up and stays gets its dhclient, unless httpd refused  *)
(* the event (devd.lua, event.xml and configure_wan together).             *)
LinkGetsDhclient == <>[](link /\ ~missed) => <>[]dhclient

-------------------------------------------------------------------------------
(* The inductive invariant behind NoEventLost.                             *)

(* Ids do not run out before configure_wan has reported its event.         *)
EmittedInv ==
    emitted <= MaxEvents + (IF wan \in {"boot", "pending"} THEN 0 ELSE 1)

(* A live request is the one call_server waits for, and an answer means    *)
(* that httpd has executed the event the loop stands at: the late answer   *)
(* of an earlier request cannot be taken for it.                           *)
CallInv ==
    /\ call # "idle" => idx > 0
    /\ call = "answered" => queue[idx].id \in delivered
    /\ \A k \in DOMAIN listening :
         listening[k].live /\ ~IsLink(listening[k]) =>
           /\ call = "waiting" /\ listening[k].event = queue[idx]
           /\ \A j \in DOMAIN listening :
                listening[j].live /\ ~IsLink(listening[j]) => j = k

(* The last link event that is not read yet tells the state of the link.   *)
LinkInv == devctl # <<>> => devctl[Len(devctl)] = link

(* The queue is in the order of the events, newest first, and what is      *)
(* waiting for accept() is newer still.                                    *)
OrderInv ==
    /\ \A j, k \in DOMAIN queue : j < k => queue[j].id > queue[k].id
    /\ \A j, k \in DOMAIN arriving : j < k => arriving[j].id < arriving[k].id
    /\ \A j \in DOMAIN queue, k \in DOMAIN arriving :
         queue[j].id < arriving[k].id
    /\ \A i \in Ifaces, k \in DOMAIN arriving : noted[i] < arriving[k].id
    /\ \A k \in DOMAIN arriving : arriving[k].id <= emitted
    /\ \A k \in DOMAIN queue : queue[k].id <= emitted
    /\ \A i \in Ifaces : noted[i] <= emitted
    /\ \A i \in Ifaces, k \in DOMAIN queue :
         queue[k].id = noted[i] => queue[k].iface = i

(* No request of the collector is behind its live one.                     *)
LastInv ==
    \A j, k \in DOMAIN listening :
      listening[k].live /\ ~IsLink(listening[k]) /\ j > k => IsLink(listening[j])

(* As long as no event overtook: while events of an interface are queued,  *)
(* so is the newest; once that has left the queue it is the last one httpd *)
(* executed, and no older request of the interface can undo it any more.   *)
Newest ==
    \A k \in DOMAIN queue :
      /\ queue[k].id <= noted[queue[k].iface]
      /\ Queued(noted[queue[k].iface])
Settled ==
    \A i \in Ifaces : ~Queued(noted[i]) =>
      /\ seen[i] = noted[i]
      /\ \A k \in DOMAIN listening :
           IsLink(listening[k]) \/ listening[k].event.iface # i
Credited ==
    call = "answered" =>
      /\ seen[queue[idx].iface] = queue[idx].id
      /\ \A k \in DOMAIN listening : IsLink(listening[k])
AgreeInv == alive /\ ~overtaken => Newest /\ Settled /\ Credited

BusInv ==
    /\ TypeOK /\ EmittedInv /\ CallInv /\ NoEventLost /\ LinkInv /\ LinkServed
    /\ OrderInv /\ LastInv /\ AgreeInv
===============================================================================
