------------------------------ MODULE CdevdProofs ------------------------------
(***************************************************************************)
(* Proofs about cdevd, for any number of processes, rules and events.      *)
(***************************************************************************)
EXTENDS Cdevd, TLAPS

-------------------------------------------------------------------------------
(* Types *)

(* An empty process slot is well typed.                                    *)
LEMMA FreeType ==
    Free \in Records /\ Free.pc = "free" /\ Free.event.id = 0
BY CdevdAssumption DEF Free, NoEvent, Records, PCs, Events, Ids

(* What an exiting process leaves behind is empty but for its state.       *)
LEMMA LeftType ==
    ASSUME NEW p \in Procs
    PROVE  /\ Left(p) \in Records
           /\ Left(p).pc \in {"free", "zombie"}
           /\ Left(p).event.id = 0
<1>1. /\ [Free EXCEPT !.pc = "zombie"] \in Records
      /\ [Free EXCEPT !.pc = "zombie"].pc = "zombie"
      /\ [Free EXCEPT !.pc = "zombie"].event.id = 0
  BY FreeType DEF Records, PCs
<1> QED
  BY <1>1, FreeType DEF Left

(* Going on with the next rule keeps a process well typed.                 *)
LEMMA NextRuleType ==
    ASSUME NEW r \in Records, r.rule <= Rules
    PROVE  /\ NextRule(r) \in Records
           /\ NextRule(r).pc = "rules"
           /\ NextRule(r).rule = r.rule + 1
           /\ NextRule(r).event = r.event
<1>1. r.rule + 1 \in 0..(Rules + 1)
  BY CdevdAssumption DEF Records
<1> QED
  BY <1>1 DEF NextRule, Records, PCs

(* The daemon starts with one well-typed process.                          *)
LEMMA TypeInit == Init => TypeOK
<1> SUFFICES ASSUME Init PROVE TypeOK
  OBVIOUS
<1>1. proc \in [Procs -> Records]
  <2>1. [Free EXCEPT !.pc = "loop"] \in Records
    BY FreeType DEF Records, PCs
  <2> QED
    BY <2>1, FreeType DEF Init
<1>2. \A p \in Procs : proc[p].pc \in {"free", "loop"}
  BY FreeType DEF Init, Records
<1> QED
  <2>1. queue \in Seq(Events) /\ DOMAIN queue = {}
    BY DEF Init
  <2>2. ran \in Seq(Ids \X (1..Rules))
    BY DEF Init
  <2>3. arrived \in 0..MaxEvents /\ handled \subseteq Ids
    BY CdevdAssumption DEF Init
  <2>4. returned \in BOOLEAN /\ refused \in BOOLEAN /\ stopped \in BOOLEAN
    BY DEF Init
  <2> QED
    BY <1>1, <1>2, <2>1, <2>2, <2>3, <2>4 DEF TypeOK

(* The part of TypeOK about the processes, of any function.                *)
ProcOK(f) ==
    /\ f \in [Procs -> Records]
    /\ \A p \in Procs :
         /\ f[p].pc \in {"rules", "wait"} =>
              f[p].rule > 0 /\ f[p].event.id \in Ids
         /\ f[p].pc = "wait" =>
              f[p].rule <= Rules /\ f[p].child \in Procs

(* Every action keeps the types.                                           *)
LEMMA TypeStep == TypeOK /\ [Next]_vars => TypeOK'
<1> SUFFICES ASSUME TypeOK, [Next]_vars PROVE TypeOK'
  OBVIOUS
<1> USE CdevdAssumption
<1>0. ProcOK(proc)
  BY DEF ProcOK, TypeOK
<1>00. ASSUME ProcOK(proc'), UNCHANGED <<arrived, queue, ran>>,
              handled' \subseteq Ids, returned' \in BOOLEAN,
              refused' \in BOOLEAN, stopped' \in BOOLEAN
       PROVE  TypeOK'
  BY <1>00 DEF TypeOK, ProcOK
<1>1. ASSUME NEW match \in SUBSET (1..Rules), Arrive(match) PROVE TypeOK'
  <2>1. arrived + 1 \in 0..MaxEvents /\ arrived + 1 \in Ids
    BY <1>1 DEF Arrive, TypeOK, Ids
  <2>2. [id |-> arrived + 1, match |-> match] \in Events
    BY <2>1 DEF Events
  <2>3. queue' \in Seq(Events)
    BY <1>1, <2>2 DEF Arrive, TypeOK
  <2>4. \A k \in DOMAIN queue' : queue'[k].id \in 1..arrived'
    BY <1>1, <2>2 DEF Arrive, TypeOK
  <2> QED
    BY <1>1, <2>1, <2>3, <2>4 DEF Arrive, TypeOK
<1>2. ASSUME NEW p \in Procs, Signal(p) PROVE TypeOK'
  <2>1. ProcOK(proc')
    BY <1>0, <1>2 DEF Signal, ProcOK, Records
  <2> QED BY <1>00, <1>2, <2>1 DEF Signal, TypeOK
<1>3. ASSUME NEW p \in Procs, Quit(p) PROVE TypeOK'
  <2>1. ProcOK(proc')
    BY <1>0, <1>3, LeftType DEF Quit, ProcOK
  <2> QED BY <1>00, <1>3, <2>1 DEF Quit, TypeOK
<1>16. ASSUME NEW p \in Procs, ReadFails(p) PROVE TypeOK'
  <2>1. ProcOK(proc')
    BY <1>0, <1>16, LeftType DEF ReadFails, ProcOK
  <2> QED BY <1>00, <1>16, <2>1 DEF ReadFails, TypeOK
<1>4. ASSUME NEW p \in Procs, Select(p) PROVE TypeOK'
  <2>1. ProcOK(proc')
    BY <1>0, <1>4 DEF Select, ProcOK, Records, PCs
  <2> QED BY <1>00, <1>4, <2>1 DEF Select, TypeOK
<1>5. ASSUME NEW p \in Procs, Interrupted(p) PROVE TypeOK'
  <2>1. ProcOK(proc')
    BY <1>0, <1>5 DEF Interrupted, ProcOK, Records, PCs
  <2> QED BY <1>00, <1>5, <2>1 DEF Interrupted, TypeOK
<1>6. ASSUME NEW p \in Procs, Read(p) PROVE TypeOK'
  <2>1. /\ Head(queue) \in Events /\ Head(queue).id \in Ids
        /\ Tail(queue) \in Seq(Events)
        /\ \A k \in DOMAIN Tail(queue) : Tail(queue)[k].id \in 1..arrived
    BY <1>6 DEF Read, TypeOK, Ids
  <2> DEFINE r == [proc[p] EXCEPT !.pc = "rules", !.rule = 1,
                                  !.event = Head(queue)]
  <2>2. proc[p] \in Records /\ 1 \in 0..(Rules + 1)
    BY <1>0 DEF ProcOK
  <2>3. r \in Records /\ r.pc = "rules" /\ r.rule = 1 /\ r.event.id \in Ids
    BY <2>1, <2>2 DEF Records, PCs
  <2>4. proc' = [proc EXCEPT ![p] = r]
    BY <1>6 DEF Read
  <2>5. ProcOK(proc')
    BY <1>0, <2>3, <2>4 DEF ProcOK
  <2> QED BY <1>6, <2>1, <2>5 DEF Read, TypeOK, ProcOK
<1>7. ASSUME NEW p \in Procs, NoMatch(p) PROVE TypeOK'
  <2>1. ProcOK(proc')
    BY <1>0, <1>7, NextRuleType DEF NoMatch, ProcOK, Records
  <2> QED BY <1>00, <1>7, <2>1 DEF NoMatch, TypeOK
<1>8. ASSUME NEW p \in Procs, EndOfRules(p) PROVE TypeOK'
  <2> DEFINE r == [proc[p] EXCEPT !.pc = "loop", !.rule = 0, !.event = NoEvent]
  <2>1. proc[p] \in Records /\ proc[p].event.id \in Ids
    BY <1>0, <1>8 DEF EndOfRules, ProcOK
  <2>2. NoEvent \in Events /\ 0 \in 0..(Rules + 1)
    BY DEF NoEvent, Events
  <2>3. r \in Records /\ r.pc = "loop"
    BY <2>1, <2>2 DEF Records, PCs
  <2>4. proc' = [proc EXCEPT ![p] = r]
    BY <1>8 DEF EndOfRules
  <2>5. ProcOK(proc')
    BY <1>0, <2>3, <2>4 DEF ProcOK
  <2> QED BY <1>00, <1>8, <2>1, <2>5 DEF EndOfRules, TypeOK
<1>9. ASSUME NEW p \in Procs, ForkFails(p) PROVE TypeOK'
  <2>1. ProcOK(proc')
    BY <1>0, <1>9, NextRuleType DEF ForkFails, Matching, ProcOK, Records
  <2> QED BY <1>00, <1>9, <2>1 DEF ForkFails, TypeOK
<1>10. ASSUME NEW p \in Procs, HandlerEnds(p) PROVE TypeOK'
  <2>1. ProcOK(proc')
    BY <1>0, <1>10, LeftType DEF HandlerEnds, ProcOK
  <2> QED BY <1>00, <1>10, <2>1 DEF HandlerEnds, TypeOK
<1>11. ASSUME NEW p \in Procs, WaitReturns(p) PROVE TypeOK'
  <2>1. proc[p].child \in Procs /\ proc[p].rule \in 1..Rules
    BY <1>0, <1>11 DEF WaitReturns, ProcOK, Records
  <2>2. ProcOK(proc')
    BY <1>0, <1>11, <2>1, NextRuleType, FreeType DEF WaitReturns, ProcOK
  <2>3. returned' \in BOOLEAN
    BY <1>11 DEF WaitReturns
  <2> QED BY <1>00, <1>11, <2>2, <2>3 DEF WaitReturns, TypeOK
<1>12. ASSUME NEW p \in Procs, NEW q \in Procs, Daemonise(p, q) PROVE TypeOK'
  <2> DEFINE d == [proc[p] EXCEPT !.once = 1, !.pc = "select"]
  <2>1. proc[p] \in Records
    BY <1>0 DEF ProcOK
  <2>2. d \in Records /\ d.pc = "select"
    <3>1. 1 \in 0..1 /\ "select" \in PCs
      BY DEF PCs
    <3> QED
      BY <2>1, <3>1 DEF Records
  <2>3. \/ proc' = [proc EXCEPT ![q] = d, ![p] = Left(p)]
        \/ proc' = [proc EXCEPT ![p] = d]
    BY <1>12, Zenon DEF Daemonise
  <2> HIDE DEF d
  <2>4. ProcOK(proc')
    BY <1>0, <2>2, <2>3, LeftType DEF ProcOK
  <2> QED BY <1>00, <1>12, <2>4 DEF Daemonise, TypeOK
<1>13. ASSUME NEW p \in Procs, NEW q \in Procs, RunHandler(p, q) PROVE TypeOK'
  <2>1. [Free EXCEPT !.pc = "handler"] \in Records
    BY FreeType DEF Records, PCs
  <2>2. proc[p].event.id \in Ids /\ proc[p].rule \in 1..Rules
    BY <1>0, <1>13 DEF RunHandler, Fork, Matching, ProcOK, Records
  <2>3. ProcOK(proc')
    BY <1>0, <1>13, <2>1, <2>2 DEF RunHandler, Fork, Matching, ProcOK, Records, PCs, Free
  <2>4. ran' \in Seq(Ids \X (1..Rules))
    BY <1>13, <2>2 DEF RunHandler, TypeOK
  <2> QED BY <1>13, <2>3, <2>4 DEF RunHandler, TypeOK, ProcOK
<1>14. ASSUME NEW p \in Procs, NEW q \in Procs, ExecFails(p, q) PROVE TypeOK'
  <2>1. /\ proc[p].event.id \in Ids /\ proc[p].rule \in 1..Rules
        /\ proc[p] \in Records
    BY <1>0, <1>14 DEF ExecFails, Fork, Matching, ProcOK, Records
  <2>2. /\ NextRule(proc[p]) \in Records
        /\ NextRule(proc[p]).pc = "rules"
        /\ NextRule(proc[p]).rule > 0
        /\ NextRule(proc[p]).event.id \in Ids
    BY <2>1, NextRuleType
  <2> DEFINE w == [proc[p] EXCEPT !.pc = "wait", !.child = q]
  <2>3. /\ w \in Records /\ w.pc = "wait" /\ w.child = q
        /\ w.rule = proc[p].rule /\ w.event = proc[p].event
    BY <2>1 DEF Records, PCs
  <2>4. proc' = [proc EXCEPT ![p] = w, ![q] = NextRule(proc[p])]
    BY <1>14 DEF ExecFails, Fork
  <2> HIDE DEF w
  <2>5. ProcOK(proc')
    BY <1>0, <2>1, <2>2, <2>3, <2>4 DEF ProcOK
  <2> QED BY <1>00, <1>14, <2>5 DEF ExecFails, TypeOK
<1>15. ASSUME UNCHANGED vars PROVE TypeOK'
  BY <1>15 DEF vars, TypeOK
<1> QED
  BY <1>1, <1>2, <1>3, <1>4, <1>5, <1>6, <1>7, <1>8, <1>9, <1>10, <1>11,
     <1>12, <1>13, <1>14, <1>15, <1>16 DEF Next, Step

-------------------------------------------------------------------------------
(* The chain of waiting processes *)

(* The invariant looks at the states, rules and children only.             *)
LEMMA ChainSame ==
    ASSUME ChainInv, returned' = returned,
           \A x \in Procs : /\ proc'[x].pc = proc[x].pc
                            /\ proc'[x].rule = proc[x].rule
                            /\ proc'[x].child = proc[x].child,
           TypeOK
    PROVE  ChainInv'
BY DEF ChainInv, Actor, Active, TypeOK

(* An active process that stays active.                                    *)
LEMMA ChainMove ==
    ASSUME TypeOK, ChainInv, returned' = returned,
           NEW p \in Procs,
           proc[p].pc \in {"loop", "select", "rules"},
           proc'[p].pc \in {"loop", "select", "rules"},
           \A x \in Procs \ {p} : proc'[x] = proc[x]
    PROVE  ChainInv'
<1>1. \A x \in Procs : proc[x].pc = "wait" => proc[x].child \in Procs
  BY DEF TypeOK
<1>2. \A x \in Procs : proc'[x].pc = "wait" => x # p
  OBVIOUS
<1>3. \A x \in Procs : Actor(x)' => Actor(x)
  BY <1>1, <1>2 DEF Actor, Active
<1> QED
  BY <1>1, <1>2, <1>3 DEF ChainInv

(* An active process that exits.                                           *)
LEMMA ChainExit ==
    ASSUME TypeOK, ChainInv, returned' = returned,
           NEW p \in Procs, Active(p),
           proc' = [proc EXCEPT ![p] = Left(p)]
    PROVE  ChainInv'
<1>1. \A x \in Procs : proc[x].pc = "wait" => proc[x].child \in Procs
  BY DEF TypeOK
<1>2. proc'[p] = Left(p) /\ \A x \in Procs \ {p} : proc'[x] = proc[x]
  BY DEF TypeOK
<1>3. Left(p).pc \in {"free", "zombie"}
  BY LeftType
<1>4. \A x \in Procs : proc[x].pc = "wait" /\ proc[x].child = p =>
        Left(p).pc = "zombie"
  BY DEF Left, Free
<1>5. \A x \in Procs : proc'[x].pc = "wait" => x # p /\ proc[x].pc = "wait"
  BY <1>2, <1>3
<1>6. p \in Procs /\ Actor(p)
  BY DEF Actor
<1>7. \A x \in Procs : Actor(x)' => \/ Actor(x)
                                    \/ /\ proc[x].pc = "wait"
                                       /\ proc[x].child = p
                                       /\ proc[x].rule \notin Broken
  BY <1>1, <1>2, <1>3, <1>5 DEF Actor, Active
<1>8. ~Actor(p)'
  BY <1>2, <1>3 DEF Actor, Active
<1>9. ASSUME ~returned PROVE \A x, y \in Procs : Actor(x)' /\ Actor(y)' => x = y
  BY <1>6, <1>7, <1>8, <1>9 DEF ChainInv
<1> QED
  BY <1>1, <1>2, <1>3, <1>4, <1>5, <1>9 DEF ChainInv

(* A process that forks; the child is new, and the parent waits for it.    *)
LEMMA ChainFork ==
    ASSUME TypeOK, ChainInv, returned' = returned,
           NEW p \in Procs, NEW q \in Procs,
           proc[p].pc = "rules", proc[q].pc = "free",
           proc'[p].pc = "wait", proc'[p].child = q,
           proc'[p].rule = proc[p].rule,
           \/ proc'[q].pc = "handler"
           \/ proc'[q].pc = "rules" /\ proc[p].rule \in Broken,
           \A x \in Procs \ {p, q} : proc'[x] = proc[x]
    PROVE  ChainInv'
<1>1. \A x \in Procs : proc[x].pc = "wait" =>
        proc[x].child \in Procs \ {q}
  BY DEF TypeOK, ChainInv
<1>2. \A x \in Procs : proc'[x].pc = "wait" /\ x # p =>
        /\ x # q /\ proc[x].pc = "wait" /\ proc'[x] = proc[x]
        /\ proc[x].child # p => proc'[proc[x].child] = proc[proc[x].child]
  BY <1>1
<1>3. \A x \in Procs : proc[x].pc = "wait" /\ proc[x].child = p =>
        proc[x].rule \in Broken
  BY DEF ChainInv
<1>4. \A x \in Procs \ {q} : Actor(x)' => Actor(x) /\ x # p
  BY <1>1, <1>2, <1>3 DEF Actor, Active
<1>5. Actor(p)
  BY DEF Actor, Active
<1>6. ASSUME ~returned PROVE \A x, y \in Procs : Actor(x)' /\ Actor(y)' => x = y
  BY <1>4, <1>5, <1>6 DEF ChainInv
<1> QED
  BY <1>1, <1>2, <1>3, <1>6 DEF ChainInv

(* A process that goes into the background.                                *)
LEMMA ChainDaemon ==
    ASSUME TypeOK, ChainInv, returned' = returned,
           NEW p \in Procs, NEW q \in Procs,
           proc[p].pc = "loop", proc[q].pc = "free",
           proc'[p] = Left(p), proc'[q].pc = "select",
           \A x \in Procs \ {p, q} : proc'[x] = proc[x]
    PROVE  ChainInv'
<1>1. \A x \in Procs : proc[x].pc = "wait" =>
        proc[x].child \in Procs \ {q}
  BY DEF TypeOK, ChainInv
<1>2. Left(p).pc \in {"free", "zombie"}
  BY LeftType
<1>3. \A x \in Procs : proc'[x].pc = "wait" =>
        /\ x \notin {p, q} /\ proc[x].pc = "wait" /\ proc'[x] = proc[x]
        /\ proc[x].child # p => proc'[proc[x].child] = proc[proc[x].child]
        /\ proc[x].child = p => Left(p).pc = "zombie"
  BY <1>1, <1>2 DEF Left, Free
<1>4. \A x \in Procs : proc[x].pc = "wait" /\ proc[x].child = p =>
        proc[x].rule \in Broken
  BY DEF ChainInv
<1>5. \A x \in Procs \ {q} : Actor(x)' => Actor(x) /\ x # p
  BY <1>1, <1>2, <1>3, <1>4 DEF Actor, Active
<1>6. Actor(p)
  BY DEF Actor, Active
<1>7. ASSUME ~returned PROVE \A x, y \in Procs : Actor(x)' /\ Actor(y)' => x = y
  BY <1>5, <1>6, <1>7 DEF ChainInv
<1> QED
  BY <1>1, <1>2, <1>3, <1>4, <1>7 DEF ChainInv

(* A process that has waited.                                              *)
LEMMA ChainWaited ==
    ASSUME TypeOK, ChainInv,
           NEW p \in Procs, NEW q \in Procs,
           proc[p].pc = "wait", proc[p].child = q, proc[q].pc = "zombie",
           proc'[p].pc = "rules", proc'[q].pc = "free",
           \A x \in Procs \ {p, q} : proc'[x] = proc[x],
           ~returned' => ~returned /\ proc[p].rule \notin Broken
    PROVE  ChainInv'
<1>1. \A x \in Procs : proc'[x].pc = "wait" =>
        /\ x \notin {p, q} /\ proc[x].pc = "wait" /\ proc'[x] = proc[x]
        /\ proc[x].child \in Procs \ {q}
        /\ proc[x].child # p => proc'[proc[x].child] = proc[proc[x].child]
  BY DEF TypeOK, ChainInv
<1>2. \A x \in Procs : proc[x].pc = "wait" /\ proc[x].child = p =>
        proc[x].rule \in Broken
  BY DEF ChainInv
<1>3. \A x \in Procs \ {p} : Actor(x)' => Actor(x)
  BY <1>1 DEF Actor, Active
<1>4. proc[p].rule \notin Broken => Actor(p)
  BY DEF Actor
<1>5. ASSUME ~returned' PROVE \A x, y \in Procs : Actor(x)' /\ Actor(y)' => x = y
  BY <1>3, <1>4, <1>5 DEF ChainInv
<1> QED
  BY <1>1, <1>2, <1>5 DEF ChainInv

-------------------------------------------------------------------------------
(* The order of the handlers *)

(* A step that runs no handler and takes no event: every process stands    *)
(* where some process stood or behind it.                                  *)
LEMMA OrderMove ==
    ASSUME TypeOK, TypeOK', OrderInv, UNCHANGED <<arrived, queue, ran>>,
           ~returned' => ~returned,
           \A x \in Procs : \/ proc'[x].event.id = 0
                            \/ \E y \in Procs : proc'[x].event.id = proc[y].event.id,
           ~returned' => \A x \in Procs : GoesOn(x)' =>
             \E y \in Procs :
               /\ GoesOn(y)
               /\ Place(x)'[1] = Place(y)[1] /\ Place(x)'[2] >= Place(y)[2]
    PROVE  OrderInv'
<1>1. \A k \in DOMAIN queue' : \A x \in Procs : proc'[x].event.id < queue'[k].id
  BY DEF OrderInv, TypeOK
<1>2. ASSUME ~returned', NEW x \in Procs, GoesOn(x)', NEW i \in DOMAIN ran'
      PROVE  Before(ran'[i], Place(x)')
  <2>1. PICK y \in Procs :
          /\ GoesOn(y)
          /\ Place(x)'[1] = Place(y)[1] /\ Place(x)'[2] >= Place(y)[2]
    BY <1>2
  <2>2. Before(ran[i], Place(y))
    BY <1>2, <2>1 DEF OrderInv
  <2>3. ran[i] \in Ids \X (1..Rules)
    BY <1>2 DEF TypeOK
  <2>4. proc[y] \in Records /\ proc'[x] \in Records
    BY DEF TypeOK
  <2>5. Place(y)[2] \in Int /\ Place(x)'[2] \in Int
    BY <2>4, CdevdAssumption DEF Place, Records
  <2> QED
    BY <2>1, <2>2, <2>3, <2>5 DEF Before, Ids
<1>3. \A x \in Procs : proc'[x].event.id <= arrived'
  BY DEF OrderInv, TypeOK
<1> QED
  BY <1>1, <1>2, <1>3 DEF OrderInv, InOrderOnce

(* While a handler is started nobody else has a rule to go on with.        *)
LEMMA AloneWithRule ==
    ASSUME TypeOK, ChainInv, ~returned, NEW p \in Procs, proc[p].pc = "rules"
    PROVE  \A x \in Procs \ {p} : ~GoesOn(x)
BY DEF TypeOK, ChainInv, GoesOn, Actor, Active

(* Reading: the event is newer than everything before, older than the rest. *)
LEMMA OrderRead ==
    ASSUME TypeOK, TypeOK', OrderInv, NEW p \in Procs, Read(p)
    PROVE  OrderInv'
<1>1. /\ queue # <<>> /\ queue \in Seq(Events) /\ queue' = Tail(queue)
      /\ UNCHANGED <<arrived, ran, returned>>
  BY DEF Read, TypeOK
<1>2. \A k \in DOMAIN queue' : /\ k \in Nat /\ k + 1 \in DOMAIN queue
                               /\ queue'[k] = queue[k + 1] /\ 1 < k + 1
  BY <1>1
<1>3. 1 \in DOMAIN queue /\ Head(queue) = queue[1]
  BY <1>1
<1>4. /\ proc'[p].event = queue[1] /\ proc'[p].pc = "rules"
      /\ \A x \in Procs \ {p} : proc'[x] = proc[x]
  BY <1>3 DEF Read, TypeOK, Records
<1>5. \A k, l \in DOMAIN queue' : k < l => queue'[k].id < queue'[l].id
  BY <1>2 DEF OrderInv
<1>6. \A k \in DOMAIN queue' : \A x \in Procs : proc'[x].event.id < queue'[k].id
  BY <1>2, <1>3, <1>4 DEF OrderInv
<1>7. \A k \in DOMAIN queue' : \A i \in DOMAIN ran' : ran'[i][1] < queue'[k].id
  BY <1>1, <1>2 DEF OrderInv
<1>8. \A x \in Procs \ {p} : GoesOn(x)' => GoesOn(x) /\ Place(x)' = Place(x)
  BY <1>4 DEF GoesOn, Place
<1>9. \A i \in DOMAIN ran : Before(ran[i], Place(p)')
  BY <1>3, <1>4 DEF OrderInv, Place, Before
<1>10. \A x \in Procs : proc'[x].event.id <= arrived'
  <2>1. queue[1].id <= arrived
    BY <1>3 DEF TypeOK
  <2> QED
    BY <1>1, <1>4, <2>1 DEF OrderInv
<1> QED
  BY <1>1, <1>5, <1>6, <1>7, <1>8, <1>9, <1>10 DEF OrderInv, InOrderOnce

(* What fork does to the two processes.                                    *)
LEMMA ForkEffect ==
    ASSUME TypeOK, NEW p \in Procs, NEW q \in Procs, NEW child,
           Fork(p, q, child)
    PROVE  /\ proc[p].pc = "rules" /\ proc[q].pc = "free" /\ p # q
           /\ proc[p].rule \in 1..Rules /\ proc[p].event.id \in Ids
           /\ proc[p].rule \in proc[p].event.match
           /\ proc'[p].pc = "wait" /\ proc'[p].child = q
           /\ proc'[p].rule = proc[p].rule /\ proc'[p].event = proc[p].event
           /\ proc'[q] = child
           /\ \A x \in Procs \ {p, q} : proc'[x] = proc[x]
<1>1. /\ proc[p] \in Records /\ proc[q] \in Records
      /\ proc \in [Procs -> Records]
  BY DEF TypeOK
<1>2. /\ proc[p].pc = "rules" /\ proc[q].pc = "free" /\ p # q
      /\ proc[p].rule \in proc[p].event.match
  BY DEF Fork, Matching
<1>3. proc[p].rule \in 1..Rules /\ proc[p].event.id \in Ids
  BY <1>1, CdevdAssumption DEF Fork, Matching, TypeOK, Records
<1>4. /\ proc'[p] = [proc[p] EXCEPT !.pc = "wait", !.child = q]
      /\ proc'[q] = child
      /\ \A x \in Procs \ {p, q} : proc'[x] = proc[x]
  BY <1>1, <1>2 DEF Fork
<1> QED
  BY <1>1, <1>2, <1>3, <1>4 DEF Records

(* The record of a handler.                                                *)
LEMMA HandlerRecord ==
    /\ [Free EXCEPT !.pc = "handler"].pc = "handler"
    /\ [Free EXCEPT !.pc = "handler"].event.id = 0
BY FreeType DEF Records

(* Running a handler extends the order.                                    *)
LEMMA OrderRunHandler ==
    ASSUME TypeOK, TypeOK', ChainInv, OrderInv,
           NEW p \in Procs, NEW q \in Procs, RunHandler(p, q)
    PROVE  OrderInv'
<1> DEFINE e == <<proc[p].event.id, proc[p].rule>>
<1>1. /\ ran \in Seq(Ids \X (1..Rules)) /\ ran' = Append(ran, e)
      /\ UNCHANGED <<arrived, queue, returned>>
      /\ proc[p].pc = "rules" /\ proc[q].pc = "free" /\ p # q
      /\ proc[p].rule \notin Broken
  BY DEF RunHandler, Fork, Matching, TypeOK
<1>2. /\ proc'[p].pc = "wait" /\ proc'[p].event = proc[p].event
      /\ proc'[p].rule = proc[p].rule
      /\ proc'[q].pc = "handler" /\ proc'[q].event.id = 0
      /\ \A x \in Procs \ {p, q} : proc'[x] = proc[x]
  <2> DEFINE child == [Free EXCEPT !.pc = "handler"]
  <2>1. Fork(p, q, child)
    BY DEF RunHandler
  <2>2. child.pc = "handler" /\ child.event.id = 0
    BY HandlerRecord
  <2> HIDE DEF child
  <2> QED
    BY <2>1, <2>2, ForkEffect
<1>3. /\ DOMAIN ran' = DOMAIN ran \cup {Len(ran) + 1}
      /\ ran'[Len(ran) + 1] = e
      /\ \A i \in DOMAIN ran : ran'[i] = ran[i] /\ i < Len(ran) + 1
  BY <1>1
<1>4. /\ proc[p].rule \in 1..Rules /\ proc[p].event.id \in Ids
      /\ Place(p) = e /\ Place(p)' = <<proc[p].event.id, proc[p].rule + 1>>
  BY <1>1, <1>2 DEF TypeOK, Place, Records, RunHandler, Fork, Matching
<1>5. \A k \in DOMAIN queue' : \A x \in Procs : proc'[x].event.id < queue'[k].id
  <2>1. \A k \in DOMAIN queue : queue[k].id > 0
    BY DEF TypeOK
  <2> QED
    BY <1>1, <1>2, <2>1 DEF OrderInv
<1>6. \A k \in DOMAIN queue' : \A i \in DOMAIN ran' : ran'[i][1] < queue'[k].id
  BY <1>1, <1>3 DEF OrderInv
<1>7. ASSUME ~returned PROVE InOrderOnce'
  <2>1. \A i \in DOMAIN ran : Before(ran[i], e)
    BY <1>1, <1>4, <1>7 DEF OrderInv, GoesOn
  <2>2. \A i, j \in DOMAIN ran : i < j => Before(ran[i], ran[j])
    BY <1>7 DEF OrderInv, InOrderOnce
  <2>3. \A i \in DOMAIN ran : ~(Len(ran) + 1 < i) 
    BY <1>1
  <2> HIDE DEF e
  <2> QED
    BY <1>3, <2>1, <2>2, <2>3, <1>1 DEF InOrderOnce
<1>8. ASSUME ~returned PROVE \A x \in Procs : GoesOn(x)' =>
        \A i \in DOMAIN ran' : Before(ran'[i], Place(x)')
  <2>1. \A x \in Procs : GoesOn(x)' => x = p
    BY <1>1, <1>2, <1>8, AloneWithRule DEF GoesOn
  <2>2. \A i \in DOMAIN ran : Before(ran[i], e)
    BY <1>1, <1>4, <1>8 DEF OrderInv, GoesOn
  <2>3. \A i \in DOMAIN ran' : Before(ran'[i], Place(p)')
    <3>1. Before(e, Place(p)')
      BY <1>4 DEF Before
    <3>2. ASSUME NEW i \in DOMAIN ran PROVE Before(ran[i], Place(p)')
      <4>1. ran[i] \in Ids \X (1..Rules)
        BY <1>1
      <4> QED
        BY <1>4, <2>2, <4>1 DEF Before, Ids
    <3> HIDE DEF e
    <3> QED
      BY <1>3, <3>1, <3>2
  <2> QED
    BY <2>1, <2>3
<1>9. /\ \A x \in Procs : proc'[x].event.id <= arrived'
      /\ \A i \in DOMAIN ran' : ran'[i][1] <= arrived'
  <2>1. 0 <= arrived
    BY DEF TypeOK
  <2> QED
    BY <1>1, <1>2, <1>3, <2>1 DEF OrderInv
<1> QED
  BY <1>1, <1>5, <1>6, <1>7, <1>8, <1>9 DEF OrderInv, InOrderOnce

(* A new event is the last one.                                            *)
LEMMA OrderArrive ==
    ASSUME TypeOK, OrderInv, NEW match \in SUBSET (1..Rules), Arrive(match)
    PROVE  OrderInv'
<1>1. /\ queue \in Seq(Events) /\ arrived' = arrived + 1 /\ arrived \in Nat
      /\ queue' = Append(queue, [id |-> arrived + 1, match |-> match])
      /\ UNCHANGED <<proc, ran, returned>>
  BY CdevdAssumption DEF Arrive, TypeOK
<1>2. /\ DOMAIN queue' = DOMAIN queue \cup {Len(queue) + 1}
      /\ queue'[Len(queue) + 1].id = arrived + 1
      /\ \A k \in DOMAIN queue : queue'[k] = queue[k] /\ k < Len(queue) + 1
  BY <1>1
<1>3. /\ \A k \in DOMAIN queue : queue[k].id \in 1..arrived
      /\ \A x \in Procs : proc[x].event.id \in Int
      /\ \A i \in DOMAIN ran : ran[i][1] \in Int
  <2>1. \A x \in Procs : proc[x] \in Records
    BY DEF TypeOK
  <2>2. \A i \in DOMAIN ran : ran[i] \in Ids \X (1..Rules)
    BY DEF TypeOK
  <2> QED
    BY <2>1, <2>2 DEF TypeOK, Records, Events, Ids
<1>4. \A k, l \in DOMAIN queue' : k < l => queue'[k].id < queue'[l].id
  BY <1>1, <1>2, <1>3 DEF OrderInv
<1>5. /\ \A k \in DOMAIN queue' : \A x \in Procs :
           proc'[x].event.id < queue'[k].id
      /\ \A k \in DOMAIN queue' : \A i \in DOMAIN ran' :
           ran'[i][1] < queue'[k].id
      /\ \A x \in Procs : proc'[x].event.id <= arrived'
      /\ \A i \in DOMAIN ran' : ran'[i][1] <= arrived'
  BY <1>1, <1>2, <1>3 DEF OrderInv
<1> QED
  BY <1>1, <1>4, <1>5 DEF OrderInv, InOrderOnce, GoesOn, Place

-------------------------------------------------------------------------------
(* All handlers run *)

(* A step that runs no handler: every process stands where some process    *)
(* stood, or one rule behind it when that one needs no handler.            *)
LEMMA DoneMove ==
    ASSUME TypeOK, TypeOK', DoneInv, ran' = ran, ~refused' => ~refused,
           ~refused' => \A x \in Procs : proc'[x].pc \in {"rules", "wait"} =>
             \/ Place(x)'[2] <= 1
             \/ \E y \in Procs :
                  /\ proc[y].pc \in {"rules", "wait"}
                  /\ proc'[x].event = proc[y].event
                  /\ \/ Place(x)'[2] = Place(y)[2]
                     \/ /\ Place(x)'[2] = Place(y)[2] + 1
                        /\ Place(y)[2] \notin proc[y].event.match \ Broken
    PROVE  DoneInv'
<1> SUFFICES ASSUME ~refused', NEW x \in Procs,
                    proc'[x].pc \in {"rules", "wait"},
                    NEW r \in proc'[x].event.match \ Broken,
                    r < Place(x)'[2]
             PROVE  HasRun(proc[x].event.id, r)'
  BY DEF DoneInv
<1>1. proc'[x] \in Records
  BY DEF TypeOK
<1>2. r \in 1..Rules
  BY <1>1 DEF Records, Events
<1>3. CASE Place(x)'[2] <= 1
  <2>1. Place(x)'[2] \in Int
    BY <1>1, CdevdAssumption DEF Place, Records
  <2> QED
    BY <1>2, <1>3, <2>1
<1>4. CASE ~(Place(x)'[2] <= 1)
  <2>1. PICK y \in Procs :
          /\ proc[y].pc \in {"rules", "wait"}
          /\ proc'[x].event = proc[y].event
          /\ \/ Place(x)'[2] = Place(y)[2]
             \/ /\ Place(x)'[2] = Place(y)[2] + 1
                /\ Place(y)[2] \notin proc[y].event.match \ Broken
    BY <1>4
  <2>2. proc[y] \in Records
    BY DEF TypeOK
  <2>3. Place(y)[2] \in Int
    BY <2>2, CdevdAssumption DEF Place, Records
  <2>4. r < Place(y)[2]
    BY <1>2, <2>1, <2>3
  <2>5. HasRun(proc[y].event.id, r)
    BY <2>1, <2>4 DEF DoneInv
  <2> QED
    BY <2>1, <2>5 DEF HasRun
<1> QED
  BY <1>3, <1>4

(* Running a handler makes its rule one that has run.                      *)
LEMMA DoneRunHandler ==
    ASSUME TypeOK, DoneInv, NEW p \in Procs, NEW q \in Procs,
           RunHandler(p, q)
    PROVE  DoneInv'
<1> DEFINE e == <<proc[p].event.id, proc[p].rule>>
           child == [Free EXCEPT !.pc = "handler"]
<1>1. /\ Fork(p, q, child) /\ refused' = refused
      /\ ran' = Append(ran, e) /\ ran \in Seq(Ids \X (1..Rules))
  BY DEF RunHandler, TypeOK
<1>2. child.pc = "handler"
  BY HandlerRecord
<1> HIDE DEF child
<1>3. /\ proc[p].pc = "rules" /\ proc[p].rule \in 1..Rules
      /\ proc'[p].pc = "wait" /\ proc'[p].rule = proc[p].rule
      /\ proc'[p].event = proc[p].event /\ proc'[q].pc = "handler"
      /\ \A x \in Procs \ {p, q} : proc'[x] = proc[x]
  BY <1>1, <1>2, ForkEffect
<1>4. \A n, r : HasRun(n, r) => HasRun(n, r)'
  BY <1>1 DEF HasRun
<1>5. HasRun(proc[p].event.id, proc[p].rule)'
  <2>1. Len(ran) + 1 \in DOMAIN ran' /\ ran'[Len(ran) + 1] = e
    BY <1>1
  <2>2. ran'[Len(ran) + 1] = <<proc'[p].event.id, proc'[p].rule>>
    BY <1>3, <2>1
  <2> QED
    BY <2>1, <2>2 DEF HasRun
<1> SUFFICES ASSUME ~refused', NEW x \in Procs,
                    proc'[x].pc \in {"rules", "wait"},
                    NEW r \in proc'[x].event.match \ Broken,
                    r < Place(x)'[2]
             PROVE  HasRun(proc[x].event.id, r)'
  BY DEF DoneInv
<1>6. x # q
  BY <1>3
<1>7. CASE x = p
  <2>1. /\ Place(p)[2] = proc[p].rule /\ Place(p)'[2] = proc[p].rule + 1
    BY <1>3 DEF Place
  <2>2. r \in Int
    BY <1>3, <1>7 DEF TypeOK, Records, Events
  <2>3. r < proc[p].rule \/ r = proc[p].rule
    BY <1>3, <1>7, <2>1, <2>2
  <2>4. CASE r < proc[p].rule
    <3>1. HasRun(proc[p].event.id, r)
      BY <1>1, <1>3, <1>7, <2>1, <2>4 DEF DoneInv
    <3> QED
      BY <1>3, <1>4, <1>7, <3>1
  <2> QED
    BY <1>3, <1>5, <1>7, <2>3, <2>4
<1>8. CASE x # p
  <2>1. proc'[x] = proc[x] /\ Place(x)' = Place(x)
    BY <1>3, <1>6, <1>8 DEF Place
  <2>2. HasRun(proc[x].event.id, r)
    BY <1>1, <2>1 DEF DoneInv
  <2> QED
    BY <1>4, <2>1, <2>2
<1> QED
  BY <1>7, <1>8

-------------------------------------------------------------------------------
(* The inductive invariant *)

(* One process goes on, with the same rule or past one that needs no       *)
(* handler.                                                                *)
LEMMA MoveStep ==
    ASSUME CdevdInv, TypeOK', NEW p \in Procs,
           proc[p].pc \in {"loop", "select", "rules"},
           proc'[p].pc \in {"loop", "select", "rules"},
           \A x \in Procs \ {p} : proc'[x] = proc[x],
           UNCHANGED <<arrived, queue, ran, returned>>,
           ~refused' => ~refused,
           proc'[p].event.id = 0 \/ proc'[p].event = proc[p].event,
           proc'[p].pc = "rules" =>
             /\ proc[p].pc = "rules" /\ proc'[p].event = proc[p].event
             /\ proc'[p].rule = proc[p].rule + 1
             /\ ~refused' => proc[p].rule \notin proc[p].event.match \ Broken
    PROVE  CdevdInv'
<1>1. ChainInv'
  BY ChainMove DEF CdevdInv
<1>2. \A x \in Procs \ {p} : /\ Place(x)' = Place(x)
                             /\ GoesOn(x)' => GoesOn(x)
  BY DEF Place, GoesOn
<1>3. \A x \in Procs : proc[x].rule \in Int /\ proc[x].event.id \in Int
  BY CdevdAssumption DEF CdevdInv, TypeOK, Records, Events, Ids
<1>4. proc'[p].pc = "rules" =>
        /\ Place(p)'[1] = Place(p)[1] /\ Place(p)'[2] = Place(p)[2] + 1
        /\ Place(p)[2] = proc[p].rule /\ GoesOn(p)
  BY DEF Place, GoesOn
<1>5. \A x \in Procs : Place(x)[2] \in Int
  BY <1>3 DEF Place
<1>6. OrderInv'
  <2>1. \A x \in Procs : \/ proc'[x].event.id = 0
                         \/ \E y \in Procs : proc'[x].event.id = proc[y].event.id
    OBVIOUS
  <2>2. ASSUME NEW x \in Procs, GoesOn(x)'
        PROVE  /\ GoesOn(x)
               /\ Place(x)'[1] = Place(x)[1] /\ Place(x)'[2] >= Place(x)[2]
    <3>1. CASE x = p
      BY <1>4, <1>5, <2>2, <3>1 DEF GoesOn
    <3>2. CASE x # p
      BY <1>2, <1>5, <2>2, <3>2
    <3> QED
      BY <3>1, <3>2
  <2> QED
    BY <2>1, <2>2, OrderMove DEF CdevdInv
<1>7. DoneInv'
  <2>1. ASSUME ~refused', NEW x \in Procs, proc'[x].pc \in {"rules", "wait"}
        PROVE  /\ proc[x].pc \in {"rules", "wait"}
               /\ proc'[x].event = proc[x].event
               /\ \/ Place(x)'[2] = Place(x)[2]
                  \/ /\ Place(x)'[2] = Place(x)[2] + 1
                     /\ Place(x)[2] \notin proc[x].event.match \ Broken
    <3>1. CASE x = p
      BY <1>4, <2>1, <3>1
    <3>2. CASE x # p
      BY <1>2, <2>1, <3>2
    <3> QED
      BY <3>1, <3>2
  <2> QED
    BY <2>1, DoneMove DEF CdevdInv
<1> QED
  BY <1>1, <1>6, <1>7 DEF CdevdInv

(* One process leaves, and perhaps another takes its place in the loop.    *)
LEMMA LeaveStep ==
    ASSUME CdevdInv, TypeOK', ChainInv',
           UNCHANGED <<arrived, queue, ran, returned, refused>>,
           \A x \in Procs :
             \/ proc'[x] = proc[x]
             \/ /\ proc'[x].pc \notin {"rules", "wait"}
                /\ \/ proc'[x].event.id = 0
                   \/ \E y \in Procs : proc'[x].event.id = proc[y].event.id
    PROVE  CdevdInv'
<1>1. \A x \in Procs : proc'[x].pc \in {"rules", "wait"} =>
        proc'[x] = proc[x] /\ Place(x)' = Place(x)
  BY DEF Place
<1>2. \A x \in Procs : Place(x)[2] \in Int
  BY CdevdAssumption DEF Place, CdevdInv, TypeOK, Records
<1>3. OrderInv'
  <2>1. \A x \in Procs : \/ proc'[x].event.id = 0
                         \/ \E y \in Procs : proc'[x].event.id = proc[y].event.id
    OBVIOUS
  <2>2. \A x \in Procs : GoesOn(x)' =>
          /\ GoesOn(x)
          /\ Place(x)'[1] = Place(x)[1] /\ Place(x)'[2] >= Place(x)[2]
    BY <1>1, <1>2 DEF GoesOn
  <2> QED
    BY <2>1, <2>2, OrderMove DEF CdevdInv
<1>4. DoneInv'
  BY <1>1, DoneMove DEF CdevdInv
<1> QED
  BY <1>3, <1>4 DEF CdevdInv

(* Initially there is one process in the loop and nothing has run.         *)
LEMMA CdevdInit == Init => CdevdInv
<1> SUFFICES ASSUME Init PROVE CdevdInv
  OBVIOUS
<1>1. TypeOK
  BY TypeInit
<1>2. /\ proc[First].pc = "loop"
      /\ \A p \in Procs : /\ proc[p].event.id = 0
                          /\ p # First => proc[p].pc = "free"
                          /\ proc[p].pc \in {"loop", "free"}
  BY FreeType, CdevdAssumption DEF Init, Records
<1>3. DOMAIN queue = {} /\ DOMAIN ran = {} /\ arrived = 0
  BY DEF Init
<1>4. ChainInv
  <2>1. \A p \in Procs : proc[p].pc # "wait" /\ (Actor(p) => p = First)
    BY <1>2 DEF Actor, Active
  <2> QED
    BY <2>1 DEF ChainInv
<1>5. OrderInv
  <2>1. \A p \in Procs : proc[p].event.id <= arrived
    BY <1>2, <1>3
  <2> QED
    BY <1>3, <2>1 DEF OrderInv, InOrderOnce
<1>6. DoneInv
  <2>1. \A p \in Procs : proc[p].pc \notin {"rules", "wait"}
    BY <1>2
  <2> QED
    BY <2>1 DEF DoneInv
<1> QED
  BY <1>1, <1>4, <1>5, <1>6 DEF CdevdInv

(* Every action keeps the invariant.                                       *)
LEMMA CdevdStep == CdevdInv /\ [Next]_vars => CdevdInv'
<1> SUFFICES ASSUME CdevdInv, [Next]_vars PROVE CdevdInv'
  OBVIOUS
<1> USE CdevdAssumption
<1>0. /\ TypeOK /\ ChainInv /\ OrderInv /\ DoneInv
      /\ proc \in [Procs -> Records]
      /\ \A x \in Procs : proc[x] \in Records
  BY DEF CdevdInv, TypeOK
<1>t. TypeOK'
  BY <1>0, TypeStep
<1>1. ASSUME NEW match \in SUBSET (1..Rules), Arrive(match) PROVE CdevdInv'
  <2>1. ChainInv' /\ DoneInv'
    BY <1>0, <1>1 DEF Arrive, ChainInv, Actor, Active, DoneInv, Place, HasRun
  <2> QED
    BY <1>0, <1>t, <1>1, <2>1, OrderArrive DEF CdevdInv
<1>2. ASSUME NEW p \in Procs, Signal(p) PROVE CdevdInv'
  <2>1. \A x \in Procs : /\ proc'[x].pc = proc[x].pc
                         /\ proc'[x].rule = proc[x].rule
                         /\ proc'[x].child = proc[x].child
                         /\ proc'[x].event = proc[x].event
    BY <1>0, <1>2 DEF Signal, Records
  <2>2. UNCHANGED <<arrived, queue, ran, returned, refused>>
    BY <1>2 DEF Signal
  <2>3. ChainInv'
    BY <1>0, <2>1, <2>2, ChainSame
  <2>4. OrderInv' /\ DoneInv'
    BY <1>0, <2>1, <2>2 DEF OrderInv, InOrderOnce, GoesOn, Place, DoneInv, HasRun
  <2> QED
    BY <1>t, <2>3, <2>4 DEF CdevdInv
<1>3. ASSUME NEW p \in Procs, Quit(p) PROVE CdevdInv'
  <2>1. ChainInv'
    BY <1>0, <1>3, ChainExit DEF Quit, Active
  <2>2. \A x \in Procs : proc'[x] = IF x = p THEN Left(p) ELSE proc[x]
    BY <1>0, <1>3 DEF Quit
  <2> QED
    BY <1>t, <1>3, <2>1, <2>2, LeftType, LeaveStep DEF Quit
<1>16. ASSUME NEW p \in Procs, ReadFails(p) PROVE CdevdInv'
  <2>1. ChainInv'
    BY <1>0, <1>16, ChainExit DEF ReadFails, Active
  <2>2. \A x \in Procs : proc'[x] = IF x = p THEN Left(p) ELSE proc[x]
    BY <1>0, <1>16 DEF ReadFails
  <2> QED
    BY <1>t, <1>16, <2>1, <2>2, LeftType, LeaveStep DEF ReadFails
<1>4. ASSUME NEW p \in Procs, Select(p) PROVE CdevdInv'
  <2>1. /\ proc[p].pc = "loop" /\ proc'[p].pc = "select"
        /\ proc'[p].event = proc[p].event
        /\ \A x \in Procs \ {p} : proc'[x] = proc[x]
    BY <1>0, <1>4 DEF Select, Records
  <2> QED
    BY <1>t, <1>4, <2>1, MoveStep DEF Select
<1>5. ASSUME NEW p \in Procs, Interrupted(p) PROVE CdevdInv'
  <2>1. /\ proc[p].pc = "select" /\ proc'[p].pc = "loop"
        /\ proc'[p].event = proc[p].event
        /\ \A x \in Procs \ {p} : proc'[x] = proc[x]
    BY <1>0, <1>5 DEF Interrupted, Records
  <2> QED
    BY <1>t, <1>5, <2>1, MoveStep DEF Interrupted
<1>6. ASSUME NEW p \in Procs, Read(p) PROVE CdevdInv'
  <2>1. /\ proc[p].pc = "select" /\ proc'[p].pc = "rules" /\ proc'[p].rule = 1
        /\ \A x \in Procs \ {p} : proc'[x] = proc[x]
    BY <1>0, <1>6 DEF Read, Records
  <2>2. ChainInv'
    BY <1>0, <1>6, <2>1, ChainMove DEF Read
  <2>3. Place(p)'[2] <= 1
    BY <2>1 DEF Place
  <2>4. \A x \in Procs \ {p} : Place(x)' = Place(x)
    BY <2>1 DEF Place
  <2>5. DoneInv'
    BY <1>0, <1>t, <1>6, <2>1, <2>3, <2>4, DoneMove DEF Read
  <2> QED
    BY <1>0, <1>t, <1>6, <2>2, <2>5, OrderRead DEF CdevdInv
<1>7. ASSUME NEW p \in Procs, NoMatch(p) PROVE CdevdInv'
  <2>1. /\ proc[p].pc = "rules" /\ proc[p].rule <= Rules
        /\ proc[p].rule \notin proc[p].event.match
        /\ proc'[p] = NextRule(proc[p])
        /\ \A x \in Procs \ {p} : proc'[x] = proc[x]
        /\ UNCHANGED <<arrived, queue, ran, returned, refused>>
    BY <1>0, <1>7 DEF NoMatch
  <2>2. /\ proc'[p].pc = "rules" /\ proc'[p].event = proc[p].event
        /\ proc'[p].rule = proc[p].rule + 1
    BY <1>0, <2>1, NextRuleType
  <2> QED
    BY <1>t, <2>1, <2>2, MoveStep
<1>8. ASSUME NEW p \in Procs, EndOfRules(p) PROVE CdevdInv'
  <2>1. /\ proc[p].pc = "rules" /\ proc'[p].pc = "loop"
        /\ proc'[p].event = NoEvent
        /\ \A x \in Procs \ {p} : proc'[x] = proc[x]
    BY <1>0, <1>8 DEF EndOfRules, Records
  <2>2. NoEvent.id = 0
    BY DEF NoEvent
  <2> QED
    BY <1>t, <1>8, <2>1, <2>2, MoveStep DEF EndOfRules
<1>9. ASSUME NEW p \in Procs, ForkFails(p) PROVE CdevdInv'
  <2>1. /\ proc[p].pc = "rules" /\ proc[p].rule <= Rules
        /\ proc'[p] = NextRule(proc[p]) /\ refused'
        /\ \A x \in Procs \ {p} : proc'[x] = proc[x]
        /\ UNCHANGED <<arrived, queue, ran, returned>>
    BY <1>0, <1>9 DEF ForkFails, Matching
  <2>2. /\ proc'[p].pc = "rules" /\ proc'[p].event = proc[p].event
        /\ proc'[p].rule = proc[p].rule + 1
    BY <1>0, <2>1, NextRuleType
  <2> QED
    BY <1>t, <2>1, <2>2, MoveStep
<1>10. ASSUME NEW p \in Procs, HandlerEnds(p) PROVE CdevdInv'
  <2>1. ChainInv'
    BY <1>0, <1>10, ChainExit DEF HandlerEnds, Active
  <2>2. \A x \in Procs : proc'[x] = IF x = p THEN Left(p) ELSE proc[x]
    BY <1>0, <1>10 DEF HandlerEnds
  <2> QED
    BY <1>t, <1>10, <2>1, <2>2, LeftType, LeaveStep DEF HandlerEnds
<1>11. ASSUME NEW p \in Procs, WaitReturns(p) PROVE CdevdInv'
  <2> DEFINE q == proc[p].child
  <2>1. /\ proc[p].pc = "wait" /\ proc[q].pc = "zombie" /\ q \in Procs
        /\ p # q /\ proc[p].rule <= Rules
        /\ UNCHANGED <<arrived, queue, ran, refused>>
    BY <1>0, <1>11 DEF WaitReturns, TypeOK
  <2>2. ~returned' => ~returned /\ proc[p].rule \notin Broken
    BY <1>11 DEF WaitReturns
  <2>3. /\ proc'[p] = NextRule(proc[p]) /\ proc'[q] = Free
        /\ \A x \in Procs \ {p, q} : proc'[x] = proc[x]
    BY <1>0, <1>11, <2>1 DEF WaitReturns
  <2>4. /\ proc'[p].pc = "rules" /\ proc'[p].event = proc[p].event
        /\ proc'[p].rule = proc[p].rule + 1
        /\ proc'[q].pc = "free" /\ proc'[q].event.id = 0
    BY <1>0, <2>1, <2>3, NextRuleType, FreeType
  <2>5. ChainInv'
    <3> HIDE DEF q
    <3>1. proc[p].child = q
      BY DEF q
    <3> QED
      BY <1>0, <2>1, <2>2, <2>3, <2>4, <3>1, ChainWaited
  <2> HIDE DEF q
  <2>6. Place(p)' = Place(p) /\ \A x \in Procs \ {p, q} : Place(x)' = Place(x)
    BY <2>1, <2>3, <2>4 DEF Place
  <2>7. \A x \in Procs : Place(x)[2] \in Int
    BY <1>0 DEF Place, Records
  <2>8. OrderInv'
    <3>1. \A x \in Procs : \/ proc'[x].event.id = 0
                           \/ \E y \in Procs : proc'[x].event.id = proc[y].event.id
      BY <2>3, <2>4
    <3>2. ~returned' => \A x \in Procs : GoesOn(x)' =>
            /\ GoesOn(x)
            /\ Place(x)'[1] = Place(x)[1] /\ Place(x)'[2] >= Place(x)[2]
      BY <2>1, <2>2, <2>3, <2>4, <2>6, <2>7 DEF GoesOn
    <3> QED
      BY <1>0, <1>t, <2>1, <2>2, <3>1, <3>2, OrderMove
  <2>9. DoneInv'
    <3>1. \A x \in Procs : proc'[x].pc \in {"rules", "wait"} =>
            /\ proc[x].pc \in {"rules", "wait"}
            /\ proc'[x].event = proc[x].event
            /\ Place(x)'[2] = Place(x)[2]
      BY <2>1, <2>3, <2>4, <2>6
    <3> QED
      BY <1>0, <1>t, <2>1, <3>1, DoneMove
  <2> QED
    BY <1>t, <2>5, <2>8, <2>9 DEF CdevdInv
<1>12. ASSUME NEW p \in Procs, NEW q \in Procs, Daemonise(p, q) PROVE CdevdInv'
  <2> DEFINE d == [proc[p] EXCEPT !.once = 1, !.pc = "select"]
  <2>1. d.pc = "select" /\ d.event = proc[p].event
    BY <1>0 DEF Records
  <2>2. /\ proc[p].pc = "loop"
        /\ UNCHANGED <<arrived, queue, ran, returned, refused>>
    BY <1>12 DEF Daemonise
  <2>3. \/ proc[q].pc = "free" /\ proc' = [proc EXCEPT ![q] = d, ![p] = Left(p)]
        \/ proc' = [proc EXCEPT ![p] = d]
    BY <1>12, Zenon DEF Daemonise
  <2> HIDE DEF d
  <2>4. CASE proc' = [proc EXCEPT ![p] = d]
    <3>1. proc'[p] = d /\ \A x \in Procs \ {p} : proc'[x] = proc[x]
      BY <1>0, <2>4
    <3> QED
      BY <1>t, <2>1, <2>2, <3>1, MoveStep
  <2>5. CASE /\ proc[q].pc = "free"
             /\ proc' = [proc EXCEPT ![q] = d, ![p] = Left(p)]
    <3>1. /\ p # q /\ proc'[p] = Left(p) /\ proc'[q] = d
          /\ \A x \in Procs \ {p, q} : proc'[x] = proc[x]
      BY <1>0, <2>2, <2>5
    <3>2. ChainInv'
      BY <1>0, <2>1, <2>2, <2>5, <3>1, ChainDaemon
    <3> QED
      BY <1>t, <2>1, <2>2, <3>1, <3>2, LeftType, LeaveStep
  <2> QED
    BY <2>3, <2>4, <2>5
<1>13. ASSUME NEW p \in Procs, NEW q \in Procs, RunHandler(p, q) PROVE CdevdInv'
  <2> DEFINE child == [Free EXCEPT !.pc = "handler"]
  <2>1. Fork(p, q, child) /\ returned' = returned
    BY <1>13 DEF RunHandler
  <2>2. child.pc = "handler"
    BY HandlerRecord
  <2> HIDE DEF child
  <2>3. ChainInv'
    BY <1>0, <2>1, <2>2, ForkEffect, ChainFork
  <2> QED
    BY <1>0, <1>t, <1>13, <2>3, OrderRunHandler, DoneRunHandler DEF CdevdInv
<1>14. ASSUME NEW p \in Procs, NEW q \in Procs, ExecFails(p, q) PROVE CdevdInv'
  <2> DEFINE child == NextRule(proc[p])
  <2>1. /\ Fork(p, q, child) /\ proc[p].rule \in Broken
        /\ UNCHANGED <<arrived, queue, ran, returned, refused>>
    BY <1>14 DEF ExecFails
  <2>2. /\ proc[p].pc = "rules" /\ proc[q].pc = "free" /\ p # q
        /\ proc[p].rule \in 1..Rules
        /\ proc'[p].pc = "wait" /\ proc'[p].child = q
        /\ proc'[p].rule = proc[p].rule /\ proc'[p].event = proc[p].event
        /\ proc'[q] = child
        /\ \A x \in Procs \ {p, q} : proc'[x] = proc[x]
    BY <1>0, <2>1, ForkEffect
  <2>3. /\ child.pc = "rules" /\ child.event = proc[p].event
        /\ child.rule = proc[p].rule + 1
    BY <1>0, <2>2, NextRuleType
  <2> HIDE DEF child
  <2>4. ChainInv'
    BY <1>0, <2>1, <2>2, <2>3, ChainFork
  <2>5. /\ Place(p)[1] = Place(q)'[1] /\ Place(p)'[2] = Place(p)[2] + 1
        /\ Place(q)'[2] = Place(p)[2] + 1 /\ Place(p)[2] \in Broken
        /\ \A x \in Procs \ {p, q} : Place(x)' = Place(x)
    BY <2>1, <2>2, <2>3 DEF Place
  <2>6. \A x \in Procs : Place(x)[2] \in Int
    BY <1>0 DEF Place, Records
  <2>7. OrderInv'
    <3>1. \A x \in Procs : \/ proc'[x].event.id = 0
                           \/ \E y \in Procs : proc'[x].event.id = proc[y].event.id
      BY <2>2, <2>3
    <3>2. ASSUME NEW x \in Procs, GoesOn(x)'
          PROVE  \E y \in Procs :
                   /\ GoesOn(y) /\ Place(x)'[1] = Place(y)[1]
                   /\ Place(x)'[2] >= Place(y)[2]
      <4>1. x # p
        BY <2>1, <2>2, <3>2 DEF GoesOn
      <4>2. CASE x = q
        BY <2>2, <2>5, <2>6, <4>2 DEF GoesOn
      <4>3. CASE x # q
        BY <2>2, <2>5, <2>6, <3>2, <4>1, <4>3 DEF GoesOn
      <4> QED
        BY <4>2, <4>3
    <3> QED
      BY <1>0, <1>t, <2>1, <3>1, <3>2, OrderMove
  <2>8. DoneInv'
    <3>1. ASSUME NEW x \in Procs, proc'[x].pc \in {"rules", "wait"}
          PROVE  \E y \in Procs :
                   /\ proc[y].pc \in {"rules", "wait"}
                   /\ proc'[x].event = proc[y].event
                   /\ \/ Place(x)'[2] = Place(y)[2]
                      \/ /\ Place(x)'[2] = Place(y)[2] + 1
                         /\ Place(y)[2] \notin proc[y].event.match \ Broken
      <4>1. CASE x \in {p, q}
        BY <2>2, <2>3, <2>5, <4>1
      <4>2. CASE x \notin {p, q}
        BY <2>2, <2>5, <3>1, <4>2
      <4> QED
        BY <4>1, <4>2
    <3> QED
      BY <1>0, <1>t, <2>1, <3>1, DoneMove
  <2> QED
    BY <1>t, <2>4, <2>7, <2>8 DEF CdevdInv
<1>15. ASSUME UNCHANGED vars PROVE CdevdInv'
  BY <1>0, <1>t, <1>15 DEF vars, CdevdInv, ChainInv, Actor, Active, OrderInv,
     InOrderOnce, GoesOn, Place, DoneInv, HasRun
<1> QED
  BY <1>1, <1>2, <1>3, <1>4, <1>5, <1>6, <1>7, <1>8, <1>9, <1>10, <1>11,
     <1>12, <1>13, <1>14, <1>15, <1>16 DEF Next, Step

-------------------------------------------------------------------------------
(* The results *)

(* The invariant of the chain of processes holds in every reachable state, *)
(* for any number of processes, rules and events (cdevd.c:192).            *)
THEOREM CdevdInvariance == Spec => []CdevdInv
BY CdevdInit, CdevdStep, PTL DEF Spec

(* Type correctness of the processes and the device queue.                 *)
THEOREM CdevdTypeCorrect == Spec => []TypeOK
<1>1. CdevdInv => TypeOK
  BY DEF CdevdInv
<1> QED
  BY <1>1, CdevdInvariance, PTL

(* However many handlers cannot be executed, one process at a time acts    *)
(* until a process of the chain ends (cdevd.c:209).                        *)
THEOREM OneActorAtATime == Spec => []OneActor
<1>1. CdevdInv => OneActor
  BY DEF CdevdInv, ChainInv, OneActor, Actor
<1> QED
  BY <1>1, CdevdInvariance, PTL

(* ... and the chain as a whole runs the handlers in order, each once      *)
(* (cdevd.c:235).                                                          *)
THEOREM HandlersInOrder == Spec => []InOrderOnce
<1>1. CdevdInv => InOrderOnce
  BY DEF CdevdInv, OrderInv
<1> QED
  BY <1>1, CdevdInvariance, PTL

(* Without a failed fork no matching rule is passed over (cdevd.c:206).    *)
THEOREM NoHandlerMissed == Spec => []AllRun
<1>1. CdevdInv => AllRun
  <2> SUFFICES ASSUME CdevdInv, ~refused, NEW p \in Procs,
                      proc[p].pc = "rules",
                      NEW r \in proc[p].event.match \ Broken,
                      r < proc[p].rule
               PROVE  HasRun(proc[p].event.id, r)
    BY DEF AllRun
  <2>1. Place(p)[2] = proc[p].rule
    BY DEF Place
  <2> QED
    BY <2>1 DEF CdevdInv, DoneInv
<1> QED
  BY <1>1, CdevdInvariance, PTL
===============================================================================
