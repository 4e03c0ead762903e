--------------------------------- MODULE Cdevd ---------------------------------
(***************************************************************************)
(* cdevd, the daemon that runs a handler for every device event.           *)
(*                                                                         *)
(* One process reads events from /dev/devctl, and for every rule that      *)
(* matches it forks a child that becomes the handler, and waits for it.    *)
(* Once it has found no event pending it goes into the background, by      *)
(* another fork whose parent exits.                                        *)
(*                                                                         *)
(* "Check for handler existing, will do at event" (cdevd.c:172): when the  *)
(* handler cannot be executed the child does not exit.  It returns from    *)
(* run_handler like its parent would and goes on with the remaining rules  *)
(* and with the event loop on the shared descriptor, while the parent      *)
(* waits for it.  Every such failure adds one process to the chain.        *)
(***************************************************************************)
EXTENDS Integers, Sequences, FiniteSets

CONSTANTS
    Procs,      \* process slots; fork fails when all are taken
    First,      \* the process started by rc
    NoProc,
    Rules,      \* number of rules parse_config has read
    Broken,     \* rules whose handler cannot be executed
    MaxEvents   \* bound on the number of device events

ASSUME CdevdAssumption ==
    /\ First \in Procs /\ NoProc \notin Procs
    /\ Rules \in Nat /\ Broken \subseteq 1..Rules /\ MaxEvents \in Nat

VARIABLES
    arrived,    \* number of events so far
    queue,      \* events in /dev/devctl: [id, match]
    proc,       \* the processes: [pc, once, event, rule, child, quit]
    ran,        \* history: handlers started, as <<event id, rule>>
    handled,    \* history: events some process has taken through all rules
    returned,   \* history: wait() has returned for a child that was not
                \* a handler
    refused,    \* history: a fork has failed
    stopped     \* history: a process has been sent SIGTERM or could not
                \* read the device

vars == <<arrived, queue, proc, ran, handled, returned, refused, stopped>>

Ids == 1..MaxEvents
NoEvent == [id |-> 0, match |-> {}]
Free == [pc |-> "free", once |-> 0, event |-> NoEvent, rule |-> 0,
         child |-> NoProc, quit |-> 0]

Init ==
    /\ arrived = 0 /\ queue = <<>>
    /\ proc = [p \in Procs |->
                 IF p = First THEN [Free EXCEPT !.pc = "loop"] ELSE Free]
    /\ ran = <<>> /\ handled = {}
    /\ returned = FALSE /\ refused = FALSE /\ stopped = FALSE

-------------------------------------------------------------------------------
(* The kernel: an event, by the rules whose expression matches it.         *)
Arrive(match) ==
    /\ arrived < MaxEvents
    /\ arrived' = arrived + 1
    /\ queue' = Append(queue, [id |-> arrived + 1, match |-> match])
    /\ UNCHANGED <<proc, ran, handled, returned, refused, stopped>>

(* gensighand; wait() is restarted, select() is not.                       *)
Signal(p) ==
    /\ proc[p].pc \in {"loop", "select", "rules", "wait"} /\ proc[p].quit = 0
    /\ proc' = [proc EXCEPT ![p].quit = 1]
    /\ stopped' = TRUE
    /\ UNCHANGED <<arrived, queue, ran, handled, returned, refused>>

(* Mutant: SIGCHLD is ignored and wait() never gets its answer.             *)
LeftNothing(p) == Free

(* What is left of p when it exits: nothing, unless somebody waits for it. *)
Left(p) ==
    IF \E q \in Procs : proc[q].pc = "wait" /\ proc[q].child = p
      THEN [Free EXCEPT !.pc = "zombie"]
      ELSE Free

-------------------------------------------------------------------------------
(* event_loop *)

Quit(p) ==
    /\ proc[p].pc = "loop" /\ proc[p].quit = 1
    /\ proc' = [proc EXCEPT ![p] = Left(p)]
    /\ UNCHANGED <<arrived, queue, ran, handled, returned, refused, stopped>>

CanFork == \E q \in Procs : proc[q].pc = "free"

(* Mutant: a plain fork, whose parent goes on.                             *)
DaemoniseByFork(p, q) ==
    /\ proc[p].pc = "loop" /\ proc[p].quit = 0 /\ proc[p].once = 0 /\ queue = <<>>
    /\ proc[q].pc = "free"
    /\ LET daemon == [proc[p] EXCEPT !.once = 1, !.pc = "select"] IN
       proc' = [proc EXCEPT ![q] = daemon, ![p] = daemon]
    /\ UNCHANGED <<arrived, queue, ran, handled, returned, refused, stopped>>

(* "No events -> we've processed all pending events": daemon() forks, the  *)
(* parent exits.  Its result is not looked at.                             *)
Daemonise(p, q) ==
    /\ proc[p].pc = "loop" /\ proc[p].quit = 0 /\ proc[p].once = 0 /\ queue = <<>>
    /\ LET daemon == [proc[p] EXCEPT !.once = 1, !.pc = "select"] IN
       IF CanFork
         THEN /\ proc[q].pc = "free"
              /\ proc' = [proc EXCEPT ![q] = daemon, ![p] = Left(p)]
         ELSE /\ q = p
              /\ proc' = [proc EXCEPT ![p] = daemon]
    /\ UNCHANGED <<arrived, queue, ran, handled, returned, refused, stopped>>

Select(p) ==
    /\ proc[p].pc = "loop" /\ proc[p].quit = 0
    /\ proc[p].once = 1 \/ queue # <<>>
    /\ proc' = [proc EXCEPT ![p].pc = "select"]
    /\ UNCHANGED <<arrived, queue, ran, handled, returned, refused, stopped>>

(* select() fails with EINTR, unless the signal came before the call.      *)
Interrupted(p) ==
    /\ proc[p].pc = "select" /\ proc[p].quit = 1
    /\ proc' = [proc EXCEPT ![p].pc = "loop"]
    /\ UNCHANGED <<arrived, queue, ran, handled, returned, refused, stopped>>

(* must_exit is not looked at again before the next event is read.         *)
Read(p) ==
    /\ proc[p].pc = "select" /\ queue # <<>>
    /\ proc' = [proc EXCEPT ![p] = [@ EXCEPT !.pc = "rules", !.rule = 1,
                                             !.event = Head(queue)]]
    /\ queue' = Tail(queue)
    /\ UNCHANGED <<arrived, ran, handled, returned, refused, stopped>>

(* read() fails or finds the end of file, or select() fails: the loop is   *)
(* left and main returns.                                                  *)
ReadFails(p) ==
    /\ proc[p].pc = "select"
    /\ proc' = [proc EXCEPT ![p] = Left(p)]
    /\ stopped' = TRUE
    /\ UNCHANGED <<arrived, queue, ran, handled, returned, refused>>

-------------------------------------------------------------------------------
(* process_event *)

NextRule(r) == [r EXCEPT !.pc = "rules", !.rule = @ + 1, !.child = NoProc]

(* Mutant: one rule too many.                                              *)
NoMatchPastEnd(p) ==
    /\ proc[p].pc = "rules" /\ proc[p].rule <= Rules + 1
    /\ proc[p].rule \notin proc[p].event.match
    /\ proc' = [proc EXCEPT ![p] = NextRule(@)]
    /\ UNCHANGED <<arrived, queue, ran, handled, returned, refused, stopped>>

NoMatch(p) ==
    /\ proc[p].pc = "rules" /\ proc[p].rule <= Rules
    /\ proc[p].rule \notin proc[p].event.match
    /\ proc' = [proc EXCEPT ![p] = NextRule(@)]
    /\ UNCHANGED <<arrived, queue, ran, handled, returned, refused, stopped>>

EndOfRules(p) ==
    /\ proc[p].pc = "rules" /\ proc[p].rule > Rules
    /\ proc' = [proc EXCEPT ![p] = [@ EXCEPT !.pc = "loop", !.rule = 0,
                                             !.event = NoEvent]]
    /\ handled' = handled \cup {proc[p].event.id}
    /\ UNCHANGED <<arrived, queue, ran, returned, refused, stopped>>

(* run_handler.  execve either makes the child the handler or returns.     *)
Matching(p) ==
    /\ proc[p].pc = "rules" /\ proc[p].rule <= Rules
    /\ proc[p].rule \in proc[p].event.match

Fork(p, q, child) ==
    /\ Matching(p) /\ proc[q].pc = "free"
    /\ proc' = [proc EXCEPT ![p] = [@ EXCEPT !.pc = "wait", !.child = q],
                            ![q] = child]

RunHandler(p, q) ==
    /\ proc[p].rule \notin Broken
    /\ Fork(p, q, [Free EXCEPT !.pc = "handler"])
    /\ ran' = Append(ran, <<proc[p].event.id, proc[p].rule>>)
    /\ UNCHANGED <<arrived, queue, handled, returned, refused, stopped>>

ExecFails(p, q) ==
    /\ proc[p].rule \in Broken
    /\ Fork(p, q, NextRule(proc[p]))
    /\ UNCHANGED <<arrived, queue, ran, handled, returned, refused, stopped>>

(* "fork error": the rule is passed over.                                  *)
ForkFails(p) ==
    /\ Matching(p) /\ ~CanFork
    /\ proc' = [proc EXCEPT ![p] = NextRule(@)]
    /\ refused' = TRUE
    /\ UNCHANGED <<arrived, queue, ran, handled, returned, stopped>>

HandlerEnds(q) ==
    /\ proc[q].pc = "handler"
    /\ proc' = [proc EXCEPT ![q] = Left(q)]
    /\ UNCHANGED <<arrived, queue, ran, handled, returned, refused, stopped>>

(* Mutants: wait() with WNOHANG; the loop over the rules left at a match.  *)
WaitReturnsAtOnce(p) ==
    /\ proc[p].pc = "wait"
    /\ proc' = [proc EXCEPT ![p] = NextRule(@)]
    /\ UNCHANGED <<arrived, queue, ran, handled, returned, refused, stopped>>

WaitReturnsLast(p) ==
    LET q == proc[p].child IN
    /\ proc[p].pc = "wait" /\ proc[q].pc = "zombie"
    /\ proc' = [proc EXCEPT ![p] = [NextRule(@) EXCEPT !.rule = Rules + 1],
                            ![q] = Free]
    /\ returned' = (returned \/ proc[p].rule \in Broken)
    /\ UNCHANGED <<arrived, queue, ran, handled, refused, stopped>>

(* wait() returns the child.                                               *)
WaitReturns(p) ==
    LET q == proc[p].child IN
    /\ proc[p].pc = "wait" /\ proc[q].pc = "zombie"
    /\ proc' = [proc EXCEPT ![p] = NextRule(@), ![q] = Free]
    /\ returned' = (returned \/ proc[p].rule \in Broken)
    /\ UNCHANGED <<arrived, queue, ran, handled, refused, stopped>>

Step(p) ==
    \/ Quit(p) \/ Select(p) \/ Interrupted(p) \/ Read(p) \/ NoMatch(p) \/ EndOfRules(p)
    \/ ForkFails(p) \/ HandlerEnds(p) \/ WaitReturns(p)
    \/ \E q \in Procs : Daemonise(p, q) \/ RunHandler(p, q) \/ ExecFails(p, q)

Next ==
    \/ \E match \in SUBSET (1..Rules) : Arrive(match)
    \/ \E p \in Procs : Signal(p) \/ ReadFails(p) \/ Step(p)

Spec == Init /\ [][Next]_vars

(* Processes run and handlers end.                                         *)
FairSpec == Spec /\ \A p \in Procs : WF_vars(Step(p))

-------------------------------------------------------------------------------
Events == [id : {0} \cup Ids, match : SUBSET (1..Rules)]
PCs == {"free", "loop", "select", "rules", "wait", "handler", "zombie"}
Records ==
    [pc : PCs, once : 0..1, event : Events, rule : 0..(Rules + 1),
     child : Procs \cup {NoProc}, quit : 0..1]

(* Types; a process has a rule and an event while it uses them.            *)
TypeOK ==
    /\ arrived \in 0..MaxEvents /\ queue \in Seq(Events)
    /\ \A k \in DOMAIN queue : queue[k].id \in 1..arrived
    /\ proc \in [Procs -> Records]
    /\ \A p \in Procs :
         /\ proc[p].pc \in {"rules", "wait"} =>
              proc[p].rule > 0 /\ proc[p].event.id \in Ids
         /\ proc[p].pc = "wait" =>
              proc[p].rule <= Rules /\ proc[p].child \in Procs
    /\ ran \in Seq(Ids \X (1..Rules)) /\ handled \subseteq Ids
    /\ returned \in BOOLEAN /\ refused \in BOOLEAN /\ stopped \in BOOLEAN

Active(p) == proc[p].pc \in {"loop", "select", "rules", "handler"}

(* A handler that cannot be executed leaves processes behind, but as long  *)
(* as none of them ends there is still one actor: one process in the event *)
(* loop or one handler, never two of them at once (cdevd.c:209, 216).      *)
OneActor ==
    ~returned => \A p, q \in Procs : Active(p) /\ Active(q) => p = q

Before(a, b) == a[1] < b[1] \/ (a[1] = b[1] /\ a[2] < b[2])

(* ... and every handler is run at most once per event, in the order of    *)
(* the events and of the rules, whichever processes of the chain run it    *)
(* (cdevd.c:235).                                                          *)
InOrderOnce ==
    ~returned => \A i, j \in DOMAIN ran : i < j => Before(ran[i], ran[j])

HasRun(n, r) == \E i \in DOMAIN ran : ran[i] = <<n, r>>

(* An event that is through has had all its handlers run, also the ones    *)
(* behind a rule that failed and with processes ending in between, unless  *)
(* a fork failed (cdevd.c:206).                                            *)
AllRun ==
    ~refused => \A p \in Procs : proc[p].pc = "rules" =>
      \A r \in proc[p].event.match \ Broken :
        r < proc[p].rule => HasRun(proc[p].event.id, r)

(* Every event is taken through the rules in the end, also after failed    *)
(* forks and handlers, as long as nobody stops a process and the device    *)
(* can be read (cdevd.c:265).                                              *)
AllHandled == \A n \in Ids : arrived >= n ~> n \in handled \/ stopped

-------------------------------------------------------------------------------
(* The inductive invariant of CdevdProofs.                                 *)

(* A process that will go on without having to wait for anybody else.      *)
Actor(p) ==
    \/ Active(p)
    \/ /\ proc[p].pc = "wait" /\ proc[p].rule \notin Broken
       /\ proc[proc[p].child].pc = "zombie"

(* Who waits has a child of its own, and behind a rule that can be         *)
(* executed the child is the handler; the chain has one actor.             *)
ChainInv ==
    /\ \A p \in Procs : proc[p].pc = "wait" =>
         /\ proc[proc[p].child].pc # "free"
         /\ proc[p].rule \notin Broken =>
              proc[proc[p].child].pc \in {"handler", "zombie"}
    /\ \A p, q \in Procs :
         /\ proc[p].pc = "wait" /\ proc[q].pc = "wait"
         /\ proc[p].child = proc[q].child
         => p = q
    /\ ~returned => \A p, q \in Procs : Actor(p) /\ Actor(q) => p = q

(* The rule that p will look at next, as far as it will.                   *)
Place(p) ==
    <<proc[p].event.id,
      IF proc[p].pc = "wait" THEN proc[p].rule + 1 ELSE proc[p].rule>>

GoesOn(p) ==
    \/ proc[p].pc = "rules"
    \/ proc[p].pc = "wait" /\ proc[p].rule \notin Broken

OrderInv ==
    /\ \A p \in Procs : proc[p].event.id <= arrived
    /\ \A i \in DOMAIN ran : ran[i][1] <= arrived
    /\ \A k, l \in DOMAIN queue : k < l => queue[k].id < queue[l].id
    /\ \A k \in DOMAIN queue : \A p \in Procs :
         proc[p].event.id < queue[k].id
    /\ \A k \in DOMAIN queue : \A i \in DOMAIN ran :
         ran[i][1] < queue[k].id
    /\ InOrderOnce
    /\ ~returned => \A p \in Procs : GoesOn(p) =>
         \A i \in DOMAIN ran : Before(ran[i], Place(p))

(* AllRun, of the processes that wait too.                                 *)
DoneInv ==
    ~refused => \A p \in Procs : proc[p].pc \in {"rules", "wait"} =>
      \A r \in proc[p].event.match \ Broken :
        r < Place(p)[2] => HasRun(proc[p].event.id, r)

CdevdInv == TypeOK /\ ChainInv /\ OrderInv /\ DoneInv
===============================================================================
