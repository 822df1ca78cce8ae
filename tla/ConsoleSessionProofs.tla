-------------------------- MODULE ConsoleSessionProofs --------------------------
(***************************************************************************)
(* ConsoleSession for any surfaces, entries, results and any number of     *)
(* events in flight and starts: the compositor keeps no surface that is    *)
(* gone, orders to execute come back in order, and what the user submitted *)
(* is what is executed unless the window was drawn before it was sent.     *)
(***************************************************************************)
EXTENDS ConsoleSession, SequenceTheorems, TLAPS

(***************************************************************************)
(* The surface                                                             *)
(***************************************************************************)

(* The console's surface is shown, and the listener is in its list. *)
SurfaceInv == ~fault /\ surface # None => surface \in shown /\ surface \in listens

LEMMA SurfaceStep == SurfaceInv /\ [Next]_vars => SurfaceInv'
<1> SUFFICES ASSUME SurfaceInv, [Next]_vars PROVE SurfaceInv'
  OBVIOUS
<1>1. CASE UNCHANGED <<surface, listens, shown, fault>>
  BY <1>1 DEF SurfaceInv
<1>2. CASE ~fault /\ LaunchClient
  BY <1>2 DEF LaunchClient, SurfaceInv
<1>3. CASE ~fault /\ StartConsole
  BY <1>3 DEF StartConsole, server, SurfaceInv
<1>4. CASE ~fault /\ Receive
  <2> DEFINE s == Head(toServer).arg
  <2>1. CASE SetConsole(s)
    BY <1>4, <2>1 DEF SetConsole, SurfaceInv
  <2>2. CASE CloseConsole(s)
    BY <1>4, <2>2 DEF CloseConsole, server, SurfaceInv
  <2>3. CASE CloseWidget
    BY <1>4, <2>3 DEF CloseWidget, SurfaceInv
  <2>4. CASE DestroySurface(s)
    BY <1>4, <2>4 DEF DestroySurface, SurfaceInv
  <2> QED BY <1>4, <2>1, <2>2, <2>3, <2>4 DEF Receive
<1>5. CASE ~fault /\ Hangup
  BY <1>5 DEF Hangup, SurfaceInv
<1>6. CASE ~fault /\ PostInit
  BY <1>6 DEF PostInit, server, SurfaceInv
<1>7. CASE Bind \/ ClickElsewhere \/ Input \/ Dispatch \/ RunIdle \/ Exit
  BY <1>1, <1>7 DEF Bind, ClickElsewhere, Input, Dispatch, RunIdle, Exit, server
<1>8. CASE UNCHANGED vars
  BY <1>1, <1>8 DEF vars, server
<1> QED BY <1>2, <1>3, <1>4, <1>5, <1>6, <1>7, <1>8 DEF Next

(* The compositor's pointer to the console's surface never outlives it. *)
THEOREM SurfaceIsKnown == Spec => []SurfaceKnown
<1>1. Init => SurfaceInv
  BY DEF Init, SurfaceInv
<1>2. SurfaceInv => SurfaceKnown
  BY DEF SurfaceInv, SurfaceKnown
<1> QED BY <1>1, <1>2, SurfaceStep, PTL DEF Spec

(***************************************************************************)
(* What waits for the client                                               *)
(***************************************************************************)
IsQueue(q) == \E S : q \in Seq(S)

(* One start and one order to execute at most, the order first and with    *)
(* the number the client counts.                                           *)
Ordered(q, id) ==
  /\ IsQueue(q)
  /\ \A j \in 1..Len(q) : q[j].type = "exec" => q[j].arg = id
  /\ \A j, k \in 1..Len(q) :
       /\ q[j].type = "exec" /\ q[k].type = "exec" => j = k
       /\ q[j].type = "start" /\ q[k].type = "start" => j = k
       /\ q[j].type = "exec" /\ q[k].type = "start" => j < k

LEMMA Appended ==
  ASSUME NEW q, IsQueue(q), NEW e
  PROVE  /\ IsQueue(Append(q, e)) /\ Len(q) \in Nat /\ Len(Append(q, e)) = Len(q) + 1
         /\ \A k \in 1..Len(q) : Append(q, e)[k] = q[k]
         /\ Append(q, e)[Len(q) + 1] = e
<1>1. PICK A : q \in Seq(A)
  BY DEF IsQueue
<1>2. q \in Seq(A \cup {e}) /\ e \in A \cup {e}
  <2>1. A \subseteq A \cup {e}
    OBVIOUS
  <2> QED BY <1>1, <2>1, SeqMonotonic
<1>3. Append(q, e) \in Seq(A \cup {e})
  BY <1>2, AppendProperties
<1> QED BY <1>2, <1>3, AppendProperties, LenProperties DEF IsQueue

LEMMA HasAppended ==
  ASSUME NEW q, IsQueue(q), NEW e, NEW t
  PROVE  Has(Append(q, e), t) <=> Has(q, t) \/ e.type = t
<1> DEFINE r == Append(q, e)
           n == Len(q)
<1>1. /\ n \in Nat /\ Len(r) = n + 1 /\ \A k \in 1..n : r[k] = q[k]
      /\ r[n + 1] = e
  BY Appended
<1> HIDE DEF r
<1>2. ASSUME Has(r, t) PROVE Has(q, t) \/ e.type = t
  BY <1>1, <1>2 DEF Has
<1>3. ASSUME Has(q, t) PROVE Has(r, t)
  BY <1>1, <1>3 DEF Has
<1>4. ASSUME e.type = t PROVE Has(r, t)
  BY <1>1, <1>4 DEF Has
<1> QED BY <1>2, <1>3, <1>4 DEF r

(* What may join the queue. *)
LEMMA OrderedAppended ==
  ASSUME NEW id, NEW q, Ordered(q, id), NEW e,
         e.type = "exec" => e.arg = id /\ ~Has(q, "exec") /\ ~Has(q, "start"),
         e.type = "start" => ~Has(q, "start")
  PROVE  Ordered(Append(q, e), id)
<1> DEFINE r == Append(q, e)
           n == Len(q)
<1>1. /\ IsQueue(r) /\ n \in Nat /\ Len(r) = n + 1 /\ \A k \in 1..n : r[k] = q[k]
      /\ r[n + 1] = e
  BY Appended DEF Ordered
<1> HIDE DEF r
<1>2. \A k \in 1..Len(r) : k \in 1..n \/ k = n + 1
  BY <1>1
<1>3. \A k \in 1..n : /\ e.type = "exec" => q[k].type # "exec" /\ q[k].type # "start"
                      /\ e.type = "start" => q[k].type # "start"
  BY DEF Has
<1>4. \A j \in 1..Len(r) : r[j].type = "exec" => r[j].arg = id
  BY <1>1, <1>2 DEF Ordered
<1>5. ASSUME NEW j \in 1..Len(r), NEW k \in 1..Len(r)
      PROVE  /\ r[j].type = "exec" /\ r[k].type = "exec" => j = k
             /\ r[j].type = "start" /\ r[k].type = "start" => j = k
             /\ r[j].type = "exec" /\ r[k].type = "start" => j < k
  <2>1. CASE j \in 1..n /\ k \in 1..n
    BY <1>1, <2>1 DEF Ordered
  <2>2. CASE j \in 1..n /\ k = n + 1
    BY <1>1, <1>3, <2>2
  <2>3. CASE j = n + 1 /\ k \in 1..n
    BY <1>1, <1>3, <2>3
  <2>4. CASE j = n + 1 /\ k = n + 1
    BY <1>1, <2>4
  <2> QED BY <1>2, <2>1, <2>2, <2>3, <2>4
<1> QED BY <1>1, <1>4, <1>5 DEF Ordered, r

(* What the first in the queue says about the rest. *)
LEMMA OrderedTail ==
  ASSUME NEW id, NEW q, Ordered(q, id), q # <<>>
  PROVE  /\ Ordered(Tail(q), id)
         /\ \A t : Has(q, t) <=> Head(q).type = t \/ Has(Tail(q), t)
         /\ Head(q).type = "start" => ~Has(q, "exec") /\ ~Has(Tail(q), "start")
         /\ Head(q).type = "exec" => Head(q).arg = id /\ ~Has(Tail(q), "exec")
<1> DEFINE r == Tail(q)
           n == Len(r)
<1>1. PICK A : q \in Seq(A)
  BY DEF Ordered, IsQueue
<1>2. /\ r \in Seq(A) /\ n \in Nat /\ Len(q) = n + 1
      /\ Head(q) = q[1] /\ \A k \in 1..n : r[k] = q[k + 1]
  BY <1>1
<1>3. \A k \in 1..n : k + 1 \in 1..Len(q) /\ k + 1 # 1
  BY <1>2
<1>4. 1 \in 1..Len(q) /\ \A k \in 1..Len(q) : k = 1 \/ (k - 1 \in 1..n /\ (k - 1) + 1 = k)
  BY <1>2
<1> HIDE DEF r, n
<1>5. \A j \in 1..n : r[j].type = "exec" => r[j].arg = id
  BY <1>2, <1>3 DEF Ordered
<1>6. ASSUME NEW j \in 1..n, NEW k \in 1..n
      PROVE  /\ r[j].type = "exec" /\ r[k].type = "exec" => j = k
             /\ r[j].type = "start" /\ r[k].type = "start" => j = k
             /\ r[j].type = "exec" /\ r[k].type = "start" => j < k
  <2>1. r[j] = q[j + 1] /\ r[k] = q[k + 1] /\ j + 1 \in 1..Len(q) /\ k + 1 \in 1..Len(q)
    BY <1>2, <1>3
  <2>2. /\ q[j + 1].type = "exec" /\ q[k + 1].type = "exec" => j + 1 = k + 1
        /\ q[j + 1].type = "start" /\ q[k + 1].type = "start" => j + 1 = k + 1
        /\ q[j + 1].type = "exec" /\ q[k + 1].type = "start" => j + 1 < k + 1
    BY <2>1 DEF Ordered
  <2> QED BY <1>2, <2>1, <2>2
<1>7. Ordered(r, id)
  BY <1>2, <1>5, <1>6 DEF Ordered, IsQueue, n
<1>8. ASSUME NEW t PROVE Has(q, t) <=> Head(q).type = t \/ Has(r, t)
  <2>1. ASSUME Has(q, t) PROVE Head(q).type = t \/ Has(r, t)
    <3>1. PICK k \in 1..Len(q) : q[k].type = t
      BY <2>1 DEF Has
    <3>2. CASE k = 1
      BY <1>2, <3>1, <3>2
    <3>3. CASE k # 1
      <4>1. k - 1 \in 1..n /\ r[k - 1] = q[k]
        BY <1>2, <1>4, <3>3
      <4> QED BY <3>1, <4>1 DEF Has, n
    <3> QED BY <3>2, <3>3
  <2>2. ASSUME Head(q).type = t PROVE Has(q, t)
    BY <1>2, <1>4, <2>2 DEF Has
  <2>3. ASSUME Has(r, t) PROVE Has(q, t)
    <3>1. PICK k \in 1..n : r[k].type = t
      BY <2>3 DEF Has, n
    <3> QED BY <1>2, <1>3, <3>1 DEF Has
  <2> QED BY <2>1, <2>2, <2>3
<1>9. ASSUME Head(q).type = "start" PROVE ~Has(q, "exec") /\ ~Has(r, "start")
  <2>1. \A k \in 1..Len(q) : /\ q[k].type = "exec" => k < 1
                             /\ q[k].type = "start" => k = 1
    BY <1>2, <1>4, <1>9 DEF Ordered
  <2>2. ~Has(q, "exec")
    BY <1>2, <2>1 DEF Has
  <2>3. ~Has(r, "start")
    BY <1>2, <1>3, <2>1 DEF Has, n
  <2> QED BY <2>2, <2>3
<1>10. ASSUME Head(q).type = "exec" PROVE Head(q).arg = id /\ ~Has(r, "exec")
  <2>1. \A k \in 1..Len(q) : q[k].type = "exec" => k = 1
    BY <1>2, <1>4, <1>10 DEF Ordered
  <2>2. ~Has(r, "exec")
    BY <1>2, <1>3, <2>1 DEF Has, n
  <2> QED BY <1>2, <1>4, <1>10, <2>2 DEF Ordered
<1> QED BY <1>7, <1>8, <1>9, <1>10 DEF r

(* Without an order any number fits. *)
LEMMA OrderedWithout ==
  ASSUME NEW id, NEW q, Ordered(q, id), ~Has(q, "exec"), NEW n
  PROVE  Ordered(q, n)
  BY DEF Ordered, Has

(***************************************************************************)
(* The stages of a session, while the user asks for one at a time          *)
(***************************************************************************)

(* No window on either side; an order or a start may be on its way. *)
Away ==
  /\ toServer = <<>> /\ surface = None /\ listens = {}
  /\ open = None \/ phase = "dead"
  /\ awaiting => Has(toClient, "exec")

(* The client has asked for the window, and may have closed it again. *)
Asked(s) ==
  /\ surface = None /\ listens = {} /\ ~Has(toClient, "start") /\ ~Has(toClient, "exec")
  /\ \/ toServer = <<Event("launch", s)>> /\ open = s /\ ~awaiting
     \/ /\ toServer = <<Event("launch", s), Event("submit", exec_id), Event("ui", s),
                       Event("surface", s)>>
        /\ open = None

(* The compositor has the window: it is open, submitted or on its way out. *)
There(s) ==
  /\ surface = s /\ listens = {s} /\ s \in shown /\ ~Has(toClient, "start")
  /\ \/ toServer = <<>> /\ open = s /\ ~awaiting /\ ~Has(toClient, "exec")
     \/ /\ toServer = <<Event("submit", exec_id), Event("ui", s), Event("surface", s)>>
        /\ open = None /\ ~Has(toClient, "exec")
     \/ /\ toServer \in {<<Event("ui", s), Event("surface", s)>>, <<Event("surface", s)>>}
        /\ open = None /\ (awaiting => Has(toClient, "exec"))

Stages == Away \/ \E s \in Surface : Asked(s) \/ There(s)

Contains(q, e) == \E k \in 1..Len(q) : q[k] = e

(* What the user submitted is selected until it is executed.  A submit that *)
(* is queued is the user's, or comes after the one that closed the window,  *)
(* and is run before anything is read.                                      *)
ChoiceHeld ==
  /\ submitting \/ awaiting => phase \in {"running", "dead"}
  /\ (submitting \/ awaiting) /\ phase = "running" /\ ~redrawn => selected = chosen
  /\ IsQueue(idle)
  /\ Contains(idle, "submit") => submitting \/ (open = None /\ draining)

StageInv ==
  /\ Ordered(toClient, exec_id) /\ Stages
  /\ client = "unlaunched" => phase = "none"
  /\ ChoiceHeld

IInv == again \/ StageInv

(* A step that leaves the window and its requests alone stays in the stage. *)
LEMMA SameStage ==
  ASSUME Stages, UNCHANGED <<toServer, surface, listens, open, awaiting, exec_id>>,
         surface \in shown => surface \in shown',
         Has(toClient', "start") => Has(toClient, "start"),
         Has(toClient', "exec") <=> Has(toClient, "exec"),
         phase = "dead" => phase' = "dead"
  PROVE  Stages'
<1>1. CASE Away
  BY <1>1 DEF Away, Stages
<1>2. ASSUME NEW s \in Surface, Asked(s) PROVE Stages'
  <2>1. Asked(s)'
    BY <1>2 DEF Asked
  <2> QED BY <2>1 DEF Stages
<1>3. ASSUME NEW s \in Surface, There(s) PROVE Stages'
  <2>1. There(s)'
    BY <1>3 DEF There
  <2> QED BY <2>1 DEF Stages
<1> QED BY <1>1, <1>2, <1>3 DEF Stages

(* A step that leaves the selection alone leaves the choice. *)
LEMMA SameChoice ==
  ASSUME ChoiceHeld, UNCHANGED <<selected, history, idle, open, draining>>,
         phase' \in {phase, "dead"}
  PROVE  ChoiceHeld'
  BY DEF ChoiceHeld, history

(* Idle events and those added to them. *)
LEMMA ContainsConcat ==
  ASSUME NEW p, IsQueue(p), NEW q, IsQueue(q), NEW e
  PROVE  IsQueue(p \o q) /\ (Contains(p \o q, e) => Contains(p, e) \/ Contains(q, e))
<1>1. PICK A, B : p \in Seq(A) /\ q \in Seq(B)
  BY DEF IsQueue
<1>2. p \in Seq(A \cup B) /\ q \in Seq(A \cup B)
  <2>1. A \subseteq A \cup B /\ B \subseteq A \cup B
    OBVIOUS
  <2> QED BY <1>1, <2>1, SeqMonotonic
<1>3. /\ p \o q \in Seq(A \cup B) /\ Len(p \o q) = Len(p) + Len(q)
      /\ \A i \in 1..(Len(p) + Len(q)) :
           (p \o q)[i] = IF i <= Len(p) THEN p[i] ELSE q[i - Len(p)]
      /\ Len(p) \in Nat /\ Len(q) \in Nat
  BY <1>2, ConcatProperties, LenProperties
<1>4. ASSUME Contains(p \o q, e) PROVE Contains(p, e) \/ Contains(q, e)
  <2>1. PICK i \in 1..(Len(p) + Len(q)) : (p \o q)[i] = e
    BY <1>3, <1>4 DEF Contains
  <2>2. CASE i <= Len(p)
    <3>1. i \in 1..Len(p) /\ p[i] = e
      BY <1>3, <2>1, <2>2
    <3> QED BY <3>1 DEF Contains
  <2>3. CASE ~(i <= Len(p))
    <3>1. i - Len(p) \in 1..Len(q) /\ q[i - Len(p)] = e
      BY <1>3, <2>1, <2>3
    <3> QED BY <3>1 DEF Contains
  <2> QED BY <2>2, <2>3
<1> QED BY <1>3, <1>4 DEF IsQueue

LEMMA ContainsTail ==
  ASSUME NEW q, IsQueue(q), q # <<>>, NEW e
  PROVE  IsQueue(Tail(q)) /\ (Contains(Tail(q), e) => Contains(q, e))
<1>1. PICK A : q \in Seq(A)
  BY DEF IsQueue
<1>2. /\ Tail(q) \in Seq(A) /\ Len(q) \in Nat /\ Len(Tail(q)) = Len(q) - 1
      /\ \A k \in 1..Len(Tail(q)) : Tail(q)[k] = q[k + 1]
  BY <1>1
<1>3. \A k \in 1..Len(Tail(q)) : k + 1 \in 1..Len(q)
  BY <1>2
<1> QED BY <1>2, <1>3 DEF IsQueue, Contains

LEMMA ContainsHead ==
  ASSUME NEW q, IsQueue(q), q # <<>>
  PROVE  Contains(q, Head(q))
<1>1. PICK A : q \in Seq(A)
  BY DEF IsQueue
<1>2. 1 \in 1..Len(q) /\ q[1] = Head(q)
  BY <1>1
<1> QED BY <1>2 DEF Contains

LEMMA ContainsNone ==
  ASSUME NEW q, Contains(q, "submit")
  PROVE  q # <<>>
<1>1. Len(<<>>) = 0
  OBVIOUS
<1> QED BY <1>1 DEF Contains

LEMMA NoEvent == IsQueue(<<>>) /\ ~Contains(<<>>, "submit")
<1>1. <<>> \in Seq({}) /\ Len(<<>>) = 0
  OBVIOUS
<1> QED BY <1>1 DEF IsQueue, Contains

LEMMA OneEvent ==
  ASSUME NEW e
  PROVE  IsQueue(<<e>>)
<1>1. <<e>> \in Seq({e})
  OBVIOUS
<1> QED BY <1>1 DEF IsQueue

LEMMA ResizingAdds ==
  ASSUME NEW res, NEW high
  PROVE  IsQueue(Resizing(res, high)) /\ ~Contains(Resizing(res, high), "submit")
<1>1. \A e \in {"grow", "shrink"} : IsQueue(<<e>>) /\ ~Contains(<<e>>, "submit")
  <2>1. ASSUME NEW e \in {"grow", "shrink"} PROVE IsQueue(<<e>>) /\ ~Contains(<<e>>, "submit")
    <3>1. IsQueue(<<e>>)
      BY OneEvent
    <3>2. \A k \in 1..Len(<<e>>) : <<e>>[k] = e
      OBVIOUS
    <3>3. e # "submit"
      OBVIOUS
    <3> QED BY <3>1, <3>2, <3>3 DEF Contains
  <2> QED BY <2>1
<1> QED BY <1>1, NoEvent DEF Resizing

(* The window is drawn in between: the selection may change, and that is    *)
(* on record.                                                               *)
LEMMA IdleSubmit ==
  ASSUME NEW q, IsQueue(q)
  PROVE  IsQueue(Append(q, "submit"))
  BY Appended

LEMMA PassingChoice ==
  ASSUME ChoiceHeld, Passing, ~awaiting, phase = "running", UNCHANGED phase,
         IsQueue(idle'), Contains(idle', "submit") => submitting \/ (open' = None /\ draining')
  PROVE  ChoiceHeld'
<1>1. /\ redrawn' <=> redrawn \/ submitting
      /\ submitting' <=> submitting
      /\ awaiting' <=> awaiting
  BY Zenon DEF Passing
<1> QED BY <1>1 DEF ChoiceHeld

(* While a window is open nothing is submitted. *)
LEMMA OpenStage ==
  ASSUME Stages, open # None, phase # "dead"
  PROVE  \E s \in Surface :
           /\ ~awaiting /\ open = s /\ ~Has(toClient, "start") /\ ~Has(toClient, "exec")
           /\ \/ toServer = <<Event("launch", s)>> /\ surface = None /\ listens = {}
              \/ toServer = <<>> /\ surface = s /\ listens = {s} /\ s \in shown
  BY DEF Stages, Away, Asked, There

LEMMA InputInv ==
  ASSUME StageInv, Input
  PROVE  StageInv'
<1>1. PICK e : /\ toClient' = Append(toClient, e) /\ e.type \notin {"start", "exec"}
  <2>1. CASE \E k \in Keys : toClient' = Append(toClient, Event(k, None))
    BY <2>1 DEF Keys, Event
  <2>2. CASE \E x \in Entry : toClient' = Append(toClient, Event("click", x))
    BY <2>2 DEF Event
  <2> QED BY <2>1, <2>2 DEF Input
<1>2. UNCHANGED <<server, phase, window, search, exec_id, toServer, history>>
  BY DEF Input
<1>3. Ordered(toClient', exec_id')
  BY <1>1, <1>2, OrderedAppended DEF StageInv
<1>4. \A t \in {"start", "exec"} : Has(toClient', t) <=> Has(toClient, t)
  BY <1>1, HasAppended DEF StageInv, Ordered
<1>5. Stages'
  BY <1>2, <1>4, SameStage DEF StageInv, server, window, history
<1> QED BY <1>2, <1>3, <1>5, SameChoice DEF StageInv, server, search, window

LEMMA StartConsoleInv ==
  ASSUME StageInv, StartConsole, ~again'
  PROVE  StageInv'
<1>1. UNCHANGED <<server, phase, window, search, exec_id, toServer, history>>
  BY DEF StartConsole
<1>2. CASE ~bound
  <2>1. UNCHANGED toClient
    BY <1>2 DEF StartConsole
  <2>2. Stages'
    BY <1>1, <2>1, SameStage DEF StageInv, server, window, history
  <2> QED BY <1>1, <2>1, <2>2, SameChoice DEF StageInv, server, search, window
<1>3. CASE bound
  <2> DEFINE e == Event("start", None)
  <2>1. /\ toClient' = Append(toClient, e) /\ surface \notin shown
        /\ ~Has(toClient, "start") /\ ~Has(toServer, "launch")
    BY <1>3 DEF StartConsole
  <2>2. e.type = "start"
    BY DEF Event
  <2> HIDE DEF e
  <2>3. Ordered(toClient', exec_id')
    BY <1>1, <2>1, <2>2, OrderedAppended DEF StageInv
  <2>4. Has(toClient', "exec") <=> Has(toClient, "exec")
    BY <2>1, <2>2, HasAppended DEF StageInv, Ordered
  <2>5. Away
    <3>1. \A s : ~There(s)
      BY <2>1 DEF There
    <3>2. \A s : ~Asked(s)
      <4>1. SUFFICES ASSUME NEW s, Asked(s) PROVE FALSE
        OBVIOUS
      <4>2. Len(toServer) >= 1 /\ Len(toServer) \in Nat /\ toServer[1] = Event("launch", s)
        BY <4>1 DEF Asked
      <4>3. 1 \in 1..Len(toServer) /\ toServer[1].type = "launch"
        BY <4>2 DEF Event
      <4> QED BY <2>1, <4>3 DEF Has
    <3> QED BY <3>1, <3>2 DEF StageInv, Stages
  <2>6. Away'
    BY <1>1, <2>4, <2>5 DEF Away, server, window, history
  <2> QED BY <1>1, <2>3, <2>6, SameChoice DEF StageInv, Stages, server, search, window
<1> QED BY <1>2, <1>3

LEMMA ReceiveInv ==
  ASSUME StageInv, Receive
  PROVE  StageInv'
<1> DEFINE r == Head(toServer)
<1>1. /\ toServer # <<>> /\ toServer' = Tail(toServer)
      /\ UNCHANGED <<phase, window, search, exec_id, history>>
      /\ UNCHANGED <<open, idle, draining, awaiting, selected>>
  BY DEF Receive, window, search, history
<1> SUFFICES /\ Ordered(toClient', exec_id') /\ client' = client
             /\ \E s \in Surface : Asked(s)' \/ There(s)' \/ Away'
  BY <1>1, SameChoice DEF StageInv, Stages
<1>2. PICK s \in Surface : Asked(s) \/ There(s)
  BY <1>1 DEF StageInv, Stages, Away
<1>3. s # None
  BY ConsoleSessionAssumption
<1>4. CASE Asked(s)
  <2>1. r = Event("launch", s) /\ r.type = "launch" /\ r.arg = s
    BY <1>4 DEF Asked, Event
  <2>2. SetConsole(s)
    BY <2>1 DEF Receive
  <2>3. /\ surface' = s /\ listens' = {s} /\ s \in shown' /\ UNCHANGED <<toClient, client>>
    BY <1>4, <2>2 DEF SetConsole, Asked
  <2>4. There(s)'
    <3>1. CASE toServer = <<Event("launch", s)>> /\ open = s /\ ~awaiting
      <4>1. toServer' = <<>>
        BY <1>1, <3>1
      <4> QED BY <1>1, <1>4, <2>3, <3>1, <4>1 DEF Asked, There
    <3>2. CASE /\ toServer = <<Event("launch", s), Event("submit", exec_id), Event("ui", s),
                               Event("surface", s)>>
               /\ open = None
      <4>1. toServer' = <<Event("submit", exec_id), Event("ui", s), Event("surface", s)>>
        BY <1>1, <3>2
      <4> QED BY <1>1, <1>4, <2>3, <3>2, <4>1 DEF Asked, There
    <3> QED BY <1>4, <3>1, <3>2 DEF Asked
  <2> QED BY <1>1, <2>3, <2>4 DEF StageInv
<1>5. CASE There(s) /\ toServer = <<Event("submit", exec_id), Event("ui", s), Event("surface", s)>>
  <2> DEFINE e == Event("exec", exec_id)
  <2>1. /\ r.type = "submit" /\ r.arg = exec_id
        /\ toServer' = <<Event("ui", s), Event("surface", s)>>
    BY <1>1, <1>5 DEF Event
  <2>2. CloseConsole(exec_id)
    BY <2>1 DEF Receive
  <2>3. toClient' = Append(toClient, e) /\ UNCHANGED <<client, surface, listens, shown>>
    BY <2>2 DEF CloseConsole, server
  <2>4. e.type = "exec" /\ e.arg = exec_id
    BY DEF Event
  <2>5. ~Has(toClient, "start") /\ ~Has(toClient, "exec") /\ open = None
    BY <1>5, <1>3 DEF There, Event
  <2> HIDE DEF e
  <2>6. Ordered(toClient', exec_id')
    BY <1>1, <2>3, <2>4, <2>5, OrderedAppended DEF StageInv
  <2>7. Has(toClient', "exec") /\ ~Has(toClient', "start")
    BY <2>3, <2>4, <2>5, HasAppended DEF StageInv, Ordered
  <2>8. There(s)'
    BY <1>1, <1>5, <2>1, <2>3, <2>5, <2>7 DEF There
  <2> QED BY <2>3, <2>6, <2>8
<1>6. CASE There(s) /\ toServer = <<Event("ui", s), Event("surface", s)>>
  <2>1. r.type = "ui" /\ toServer' = <<Event("surface", s)>>
    BY <1>1, <1>6 DEF Event
  <2>2. CloseWidget
    BY <2>1 DEF Receive
  <2>3. UNCHANGED <<client, surface, listens, shown, toClient>>
    BY <2>2 DEF CloseWidget
  <2>4. open = None /\ (awaiting => Has(toClient, "exec"))
    BY <1>6 DEF There, Event
  <2>5. There(s)'
    BY <1>1, <1>6, <2>1, <2>3, <2>4 DEF There
  <2> QED BY <1>1, <2>3, <2>5 DEF StageInv
<1>7. CASE There(s) /\ toServer = <<Event("surface", s)>>
  <2>1. r.type = "surface" /\ r.arg = s /\ toServer' = <<>>
    BY <1>1, <1>7 DEF Event
  <2>2. DestroySurface(s)
    BY <2>1 DEF Receive
  <2>3. surface' = None /\ listens' = {} /\ UNCHANGED <<client, toClient>>
    BY <1>7, <2>2 DEF DestroySurface, There
  <2>4. open = None /\ (awaiting => Has(toClient, "exec"))
    BY <1>7 DEF There, Event
  <2>5. Away'
    BY <1>1, <2>1, <2>3, <2>4 DEF Away
  <2> QED BY <1>1, <2>3, <2>5 DEF StageInv
<1> QED BY <1>1, <1>2, <1>4, <1>5, <1>6, <1>7 DEF There

LEMMA HangupInv ==
  ASSUME StageInv, Hangup
  PROVE  StageInv'
<1>1. /\ phase = "dead" /\ toServer = <<>> /\ surface' = None /\ listens' = {}
      /\ client' \in {"null", "dangling"}
      /\ UNCHANGED <<phase, exec_id, toClient, toServer, open, idle, draining, awaiting,
                     selected, history>>
  BY DEF Hangup, window, search, history
<1>2. awaiting => Has(toClient, "exec")
  BY <1>1 DEF StageInv, Stages, Away, Asked, There
<1> QED BY <1>1, <1>2, SameChoice DEF StageInv, Stages, Away

LEMMA StartInv ==
  ASSUME StageInv, Dispatch, Head(toClient).type = "start", Start
  PROVE  StageInv'
<1>1. PICK s \in Surface : /\ open' = s /\ toServer' = Append(toServer, Event("launch", s))
  BY DEF Start
<1>2. /\ UNCHANGED <<phase, exec_id, awaiting, client, surface, listens>> /\ Passing
      /\ toClient # <<>> /\ toClient' = Tail(toClient) /\ phase = "running"
  BY DEF Start, Dispatch, Passing, server
<1>3. /\ Ordered(toClient', exec_id') /\ Has(toClient, "start") /\ ~Has(toClient, "exec")
      /\ ~Has(toClient', "start") /\ ~Has(toClient', "exec")
  BY <1>2, OrderedTail DEF StageInv
<1>4. Away
  BY <1>3 DEF StageInv, Stages, Asked, There
<1>5. toServer' = <<Event("launch", s)>> /\ ~awaiting
  BY <1>1, <1>3, <1>4 DEF Away
<1>6. Asked(s)'
  BY <1>1, <1>2, <1>3, <1>4, <1>5 DEF Asked, Away
<1>7. ChoiceHeld'
  <2>1. PICK res \in UpdatedResults : idle' = idle \o Resizing(res, FALSE)
    BY DEF Start
  <2>2. ~draining /\ ~awaiting
    BY <1>5 DEF Dispatch
  <2>3. IsQueue(idle') /\ (Contains(idle', "submit") => Contains(idle, "submit"))
    BY <2>1, ResizingAdds, ContainsConcat DEF StageInv, ChoiceHeld
  <2>4. Contains(idle', "submit") => submitting
    BY <2>2, <2>3 DEF StageInv, ChoiceHeld
  <2> QED BY <1>2, <2>2, <2>3, <2>4, PassingChoice DEF StageInv
<1> QED BY <1>2, <1>3, <1>6, <1>7 DEF StageInv, Stages

LEMMA ExecInv ==
  ASSUME StageInv, Dispatch, Head(toClient).type = "exec", ExecApplication(Head(toClient).arg)
  PROVE  StageInv'
<1>1. /\ exec_id' = exec_id + 1 /\ ~awaiting' /\ toClient # <<>> /\ toClient' = Tail(toClient)
      /\ UNCHANGED <<phase, client, surface, listens, shown, open, toServer>>
  BY DEF ExecApplication, Dispatch, window, server
<1>2. /\ Ordered(toClient', exec_id) /\ Has(toClient, "exec") /\ ~Has(toClient', "exec")
      /\ Has(toClient', "start") => Has(toClient, "start")
  BY <1>1, OrderedTail DEF StageInv
<1>3. Ordered(toClient', exec_id')
  BY <1>2, OrderedWithout
<1>6. ChoiceHeld'
  <2>1. Head(toClient).arg = exec_id
    BY <1>1, OrderedTail DEF StageInv
  <2>2. selected' = None /\ chosen' = None
    BY <2>1 DEF ExecApplication
  <2>3. UNCHANGED <<idle, open, draining, submitting>>
    BY DEF ExecApplication, window
  <2> QED BY <1>1, <2>2, <2>3 DEF ChoiceHeld, StageInv
<1>4. CASE Away
  <2>1. Away'
    BY <1>1, <1>4 DEF Away
  <2> QED BY <1>1, <1>3, <1>6, <2>1 DEF StageInv, Stages
<1>5. CASE ~Away
  <2>1. PICK s \in Surface : There(s)
    BY <1>2, <1>5 DEF StageInv, Stages, Asked
  <2>2. /\ toServer \in {<<Event("ui", s), Event("surface", s)>>, <<Event("surface", s)>>}
        /\ open = None
    BY <1>2, <2>1 DEF There
  <2>3. There(s)'
    BY <1>1, <1>2, <2>1, <2>2 DEF There
  <2> QED BY <1>1, <1>3, <1>6, <2>3 DEF StageInv, Stages
<1> QED BY <1>4, <1>5

(* Input for the window: it submits what is selected, or it draws. *)
LEMMA WindowInv ==
  ASSUME StageInv, Dispatch, Head(toClient).type \notin {"start", "exec"},
         UNCHANGED <<open, exec_id, toServer, awaiting>>,
         \/ open # None /\ Passing /\ (Contains(idle', "submit") => Contains(idle, "submit"))
         \/ selected' = chosen' /\ submitting'
         \/ UNCHANGED <<selected, history, idle, draining>>,
         IsQueue(idle'),
         phase' \in {phase, "dead"}
  PROVE  StageInv'
<1>1. /\ phase = "running" /\ toClient # <<>> /\ toClient' = Tail(toClient)
      /\ UNCHANGED <<server, client, surface, listens, shown>>
  BY DEF Dispatch, server
<1>2. /\ Ordered(toClient', exec_id')
      /\ \A t \in {"start", "exec"} : Has(toClient', t) <=> Has(toClient, t)
  BY <1>1, OrderedTail DEF StageInv
<1>3. Stages'
  BY <1>1, <1>2, SameStage DEF StageInv
<1>4. ChoiceHeld'
  <2>1. CASE open # None /\ Passing /\ (Contains(idle', "submit") => Contains(idle, "submit"))
    <3>1. ~awaiting /\ ~draining
      BY <1>1, <2>1, OpenStage DEF StageInv, Dispatch
    <3>2. Contains(idle', "submit") => submitting
      BY <2>1, <3>1 DEF StageInv, ChoiceHeld
    <3>3. CASE phase' = phase
      BY <1>1, <2>1, <3>1, <3>2, <3>3, PassingChoice DEF StageInv
    <3>4. CASE phase' = "dead"
      BY <2>1, <3>2, <3>4, Zenon DEF ChoiceHeld, Passing
    <3> QED BY <3>3, <3>4
  <2>2. CASE selected' = chosen' /\ submitting'
    BY <1>1, <2>2 DEF ChoiceHeld
  <2>3. CASE UNCHANGED <<selected, history, idle, draining>>
    BY <1>1, <2>3, SameChoice DEF StageInv
  <2> QED BY <2>1, <2>2, <2>3
<1>5. client' # "unlaunched"
  BY <1>1 DEF StageInv
<1>6. phase' \in {"running", "dead"}
  BY <1>1
<1> QED BY <1>2, <1>3, <1>4, <1>5, <1>6 DEF StageInv

LEMMA DispatchInv ==
  ASSUME StageInv, Dispatch
  PROVE  StageInv'
<1> DEFINE e == Head(toClient)
<1>1. CASE e.type = "start" /\ Start
  BY <1>1, StartInv
<1>2. CASE e.type = "exec" /\ ExecApplication(e.arg)
  BY <1>2, ExecInv
<1>6. IsQueue(idle)
  BY DEF StageInv, ChoiceHeld
<1>3. CASE e.type = "esc" /\ open # None /\ SuspendOnEsc
  <2>1. /\ UNCHANGED <<phase, open, exec_id, toServer, awaiting>>
        /\ selected' = chosen' /\ submitting' /\ idle' = Append(idle, "submit")
    BY <1>3 DEF SuspendOnEsc
  <2>2. IsQueue(idle')
    BY <1>6, <2>1, IdleSubmit
  <2> QED BY <1>3, <2>1, <2>2, WindowInv
<1>4. CASE e.type \notin {"start", "exec", "esc"} /\ open # None /\ Draw(e.type, e.arg)
  <2>1. CASE Dead
    BY <1>4, <1>6, <2>1, WindowInv DEF Dead, window, search, history
  <2>2. CASE ~Dead
    <3>1. PICK res \in UpdatedResults, submits \in {<<>>, <<"submit">>} :
            /\ UNCHANGED <<phase, open, exec_id, toServer>>
            /\ idle' = idle \o submits \o Resizing(res, tall)
            /\ \/ Passing /\ submits = <<>>
               \/ \E r, t, x : Submits(r, t, x)
      BY <1>4, <2>2 DEF Draw
    <3>2. IsQueue(<<>>) /\ ~Contains(<<>>, "submit") /\ IsQueue(<<"submit">>)
      BY NoEvent, OneEvent
    <3>3. /\ IsQueue(idle \o submits)
          /\ Contains(idle \o submits, "submit") =>
               Contains(idle, "submit") \/ Contains(submits, "submit")
      BY <1>6, <3>2, ContainsConcat
    <3>4. /\ IsQueue(idle')
          /\ Contains(idle', "submit") => Contains(idle \o submits, "submit")
      BY <3>1, <3>3, ResizingAdds, ContainsConcat
    <3>5. CASE Passing /\ submits = <<>>
      <4>1. (Contains(idle', "submit") => Contains(idle, "submit")) /\ UNCHANGED awaiting
        BY <3>2, <3>3, <3>4, <3>5 DEF Passing
      <4> QED BY <1>4, <3>1, <3>4, <3>5, <4>1, WindowInv
    <3>6. CASE \E r, t, x : Submits(r, t, x)
      <4>1. selected' = chosen' /\ submitting' /\ UNCHANGED awaiting
        BY <3>6 DEF Submits
      <4> QED BY <1>4, <3>1, <3>4, <4>1, WindowInv
    <3> QED BY <3>1, <3>5, <3>6
  <2> QED BY <2>1, <2>2
<1>5. CASE /\ e.type \notin {"start", "exec"}
           /\ UNCHANGED <<phase, window, search, exec_id, toServer, world, history>>
  BY <1>5, <1>6, WindowInv DEF window, search, history
<1> QED BY <1>1, <1>2, <1>3, <1>4, <1>5 DEF Dispatch

LEMMA OneAndThree ==
  ASSUME NEW a, NEW b, NEW c, NEW d
  PROVE  <<a>> \o <<b, c, d>> = <<a, b, c, d>>
<1> DEFINE S == {a, b, c, d}
           p == <<a>>
           q == <<b, c, d>>
           r == <<a, b, c, d>>
<1>1. p \in Seq(S) /\ q \in Seq(S) /\ r \in Seq(S)
  OBVIOUS
<1>2. /\ Len(p) = 1 /\ p[1] = a /\ Len(q) = 3 /\ q[1] = b /\ q[2] = c /\ q[3] = d
      /\ Len(r) = 4 /\ r[1] = a /\ r[2] = b /\ r[3] = c /\ r[4] = d
  OBVIOUS
<1> HIDE DEF S, p, q, r
<1>3. /\ p \o q \in Seq(S) /\ Len(p \o q) = Len(p) + Len(q)
      /\ \A i \in 1..(Len(p) + Len(q)) :
           (p \o q)[i] = IF i <= Len(p) THEN p[i] ELSE q[i - Len(p)]
  BY <1>1, ConcatProperties
<1>4. \A i \in 1..4 : (p \o q)[i] = r[i]
  <2>1. \A i \in 1..4 : (p \o q)[i] = IF i <= 1 THEN p[i] ELSE q[i - 1]
    BY <1>2, <1>3
  <2>2. (p \o q)[1] = r[1]
    BY <1>2, <2>1
  <2>3. (p \o q)[2] = q[1] /\ (p \o q)[3] = q[2] /\ (p \o q)[4] = q[3]
    <3>1. 2 \in 1..4 /\ 3 \in 1..4 /\ 4 \in 1..4
      OBVIOUS
    <3>2. /\ (p \o q)[2] = IF 2 <= 1 THEN p[2] ELSE q[2 - 1]
          /\ (p \o q)[3] = IF 3 <= 1 THEN p[3] ELSE q[3 - 1]
          /\ (p \o q)[4] = IF 4 <= 1 THEN p[4] ELSE q[4 - 1]
      BY <2>1, <3>1, Zenon
    <3>3. /\ ~(2 <= 1) /\ ~(3 <= 1) /\ ~(4 <= 1)
          /\ 2 - 1 = 1 /\ 3 - 1 = 2 /\ 4 - 1 = 3
      OBVIOUS
    <3> QED BY <3>2, <3>3, Zenon
  <2>4. \A i \in 1..4 : i = 1 \/ i = 2 \/ i = 3 \/ i = 4
    OBVIOUS
  <2> QED BY <1>2, <2>2, <2>3, <2>4
<1>5. p \o q = r
  BY <1>1, <1>2, <1>3, <1>4, SeqEqual
<1> QED BY <1>5 DEF p, q, r

LEMMA SubmitInv ==
  ASSUME StageInv, DoSubmit, phase = "running", UNCHANGED <<server, toClient>>,
         idle # <<>>, Head(idle) = "submit", idle' = Tail(idle), draining' = (idle' # <<>>)
  PROVE  StageInv'
<1>1. UNCHANGED <<client, surface, listens, shown>>
  BY DEF server
<1>4. /\ Contains(idle, "submit") /\ IsQueue(idle')
      /\ Contains(idle', "submit") => draining'
  BY ContainsHead, ContainsTail, ContainsNone DEF StageInv, ChoiceHeld
<1>2. CASE open = None /\ phase' = "dead"
           /\ UNCHANGED <<open, owned, tall, search, exec_id, toServer, world, history>>
  <2>1. Stages'
    BY <1>1, <1>2, SameStage DEF StageInv, history
  <2>2. ChoiceHeld'
    BY <1>2, <1>4 DEF StageInv, ChoiceHeld, history
  <2> QED BY <1>1, <1>2, <2>1, <2>2 DEF StageInv, search
<1>3. CASE /\ open # None
           /\ toServer' = toServer \o <<Event("submit", exec_id), Event("ui", open),
                                        Event("surface", open)>>
           /\ open' = None /\ owned' = owned \ {open}
           /\ submitting' = FALSE /\ awaiting' = TRUE
           /\ UNCHANGED <<phase, tall, search, exec_id, world, chosen, redrawn>>
  <2>1. ChoiceHeld'
    <3>1. submitting
      BY <1>3, <1>4 DEF StageInv, ChoiceHeld
    <3> QED BY <1>3, <1>4, <3>1 DEF search, ChoiceHeld, StageInv
  <2>2. PICK s \in Surface :
           /\ ~awaiting /\ open = s /\ ~Has(toClient, "start") /\ ~Has(toClient, "exec")
           /\ \/ toServer = <<Event("launch", s)>> /\ surface = None /\ listens = {}
              \/ toServer = <<>> /\ surface = s /\ listens = {s} /\ s \in shown
    BY <1>3, OpenStage DEF StageInv
  <2>3. CASE toServer = <<Event("launch", s)>> /\ surface = None /\ listens = {}
    <3>1. toServer' = <<Event("launch", s), Event("submit", exec_id), Event("ui", s),
                        Event("surface", s)>>
      BY <1>3, <2>2, <2>3, OneAndThree
    <3>2. Asked(s)'
      BY <1>1, <1>3, <2>2, <2>3, <3>1 DEF Asked
    <3> QED BY <1>1, <1>3, <2>1, <3>2 DEF StageInv, Stages
  <2>4. CASE toServer = <<>> /\ surface = s /\ listens = {s} /\ s \in shown
    <3>1. toServer' = <<Event("submit", exec_id), Event("ui", s), Event("surface", s)>>
      BY <1>3, <2>2, <2>4
    <3>2. There(s)'
      BY <1>1, <1>3, <2>2, <2>4, <3>1 DEF There
    <3> QED BY <1>1, <1>3, <2>1, <3>2 DEF StageInv, Stages
  <2> QED BY <2>2, <2>3, <2>4
<1> QED BY <1>2, <1>3 DEF DoSubmit

LEMMA RunIdleInv ==
  ASSUME StageInv, RunIdle
  PROVE  StageInv'
<1>1. phase = "running" /\ UNCHANGED <<server, toClient>>
  BY DEF RunIdle
<1>5. idle # <<>> /\ draining' = (idle' # <<>>) /\ IsQueue(idle)
  BY DEF RunIdle, StageInv, ChoiceHeld
<1>2. CASE Head(idle) = "submit" /\ idle' = Tail(idle) /\ DoSubmit
  BY <1>1, <1>2, <1>5, SubmitInv
<1>3. ASSUME NEW high, DoResize(high) PROVE StageInv'
  <2>1. UNCHANGED <<phase, open, exec_id, toServer, awaiting, client, surface, listens, shown>>
    BY <1>1, <1>3 DEF DoResize, Passing, server, history
  <2>2. /\ IsQueue(idle') /\ (Contains(idle', "submit") => Contains(idle, "submit"))
        /\ (open # None /\ Passing) \/ (open = None /\ UNCHANGED <<selected, history>>)
    <3>1. IsQueue(Tail(idle)) /\ (Contains(Tail(idle), "submit") => Contains(idle, "submit"))
      BY <1>5, ContainsTail
    <3>2. CASE open # None
      <4>1. PICK res \in UpdatedResults : idle' = Tail(idle) \o Resizing(res, high)
        BY <1>3, <3>2 DEF DoResize
      <4>2. /\ IsQueue(idle') /\ (Contains(idle', "submit") => Contains(Tail(idle), "submit"))
        BY <3>1, <4>1, ResizingAdds, ContainsConcat
      <4> QED BY <1>3, <3>1, <3>2, <4>2 DEF DoResize
    <3>3. CASE open = None
      BY <1>3, <3>1, <3>3 DEF DoResize, search
    <3> QED BY <3>2, <3>3
  <2>3. Stages'
    BY <1>1, <2>1, SameStage DEF StageInv
  <2>4. ChoiceHeld'
    <3>1. Contains(idle', "submit") => draining'
      BY <1>5, ContainsNone
    <3>2. Contains(idle', "submit") => submitting \/ (open' = None /\ draining')
      BY <2>1, <2>2, <3>1 DEF StageInv, ChoiceHeld
    <3>3. CASE open # None /\ Passing
      <4>1. ~awaiting
        BY <1>1, <3>3, OpenStage DEF StageInv
      <4> QED BY <1>1, <2>1, <2>2, <3>2, <3>3, <4>1, PassingChoice DEF StageInv
    <3>4. CASE open = None /\ UNCHANGED <<selected, history>>
      BY <1>1, <2>1, <2>2, <3>2, <3>4 DEF StageInv, ChoiceHeld, history
    <3> QED BY <2>2, <3>3, <3>4
  <2> QED BY <1>1, <2>1, <2>3, <2>4 DEF StageInv
<1> QED BY <1>2, <1>3 DEF RunIdle

(* What only moves the client from one phase to the next. *)
LEMMA PhaseInv ==
  ASSUME StageInv,
         UNCHANGED <<client, surface, listens, shown, toServer, toClient, exec_id, open, idle,
                     draining, selected, history>>,
         phase \in {"starting", "bound", "running"}, phase' \in {"bound", "running", "dead"},
         phase = "running" => phase' # "bound"
  PROVE  StageInv'
<1>1. Stages'
  BY SameStage DEF StageInv, history
<1>2. ChoiceHeld'
  BY DEF StageInv, ChoiceHeld, history
<1> QED BY <1>1, <1>2 DEF StageInv

LEMMA LaunchClientInv ==
  ASSUME StageInv, LaunchClient
  PROVE  StageInv'
<1>1. /\ client = "unlaunched" /\ phase = "none" /\ ~awaiting /\ ~submitting
      /\ client' # "unlaunched" \/ phase' = phase
      /\ UNCHANGED <<surface, listens, shown, toServer, toClient, exec_id, open, awaiting,
                     submitting, idle, draining>>
  BY DEF LaunchClient, StageInv, ChoiceHeld, window, history
<1>2. Stages'
  BY <1>1, SameStage DEF StageInv
<1> QED BY <1>1, <1>2 DEF StageInv, ChoiceHeld

LEMMA StageStep ==
  ASSUME StageInv, [Next]_vars, ~again'
  PROVE  StageInv'
<1>1. CASE LaunchClient
  BY <1>1, LaunchClientInv
<1>2. CASE Bind
  BY <1>2, PhaseInv DEF Bind, window, search, history
<1>3. CASE PostInit
  <2>1. CASE phase' = "running"
    BY <1>3, <2>1, PhaseInv DEF PostInit, server, window, search, history
  <2>2. CASE phase' = phase
    BY <1>3, <2>2, PhaseInv DEF PostInit, server, window, search, history
  <2> QED BY <1>3, <2>1, <2>2 DEF PostInit
<1>4. CASE Exit
  BY <1>4, PhaseInv DEF Exit, Dead, server, window, search, history
<1>5. CASE StartConsole
  BY <1>5, StartConsoleInv
<1>6. CASE Receive
  BY <1>6, ReceiveInv
<1>7. CASE Hangup
  BY <1>7, HangupInv
<1>8. CASE Input
  BY <1>8, InputInv
<1>9. CASE Dispatch
  BY <1>9, DispatchInv
<1>10. CASE RunIdle
  BY <1>10, RunIdleInv
<1>11. CASE ClickElsewhere \/ UNCHANGED vars
  <2>1. UNCHANGED <<client, surface, listens, shown, phase, toServer, toClient, exec_id,
                    open, idle, draining, selected, awaiting, history>>
    BY <1>11 DEF ClickElsewhere, vars, server, window, search, history
  <2>2. Stages'
    BY <2>1, SameStage DEF StageInv
  <2> QED BY <2>1, <2>2, SameChoice DEF StageInv
<1> QED BY <1>1, <1>2, <1>3, <1>4, <1>5, <1>6, <1>7, <1>8, <1>9, <1>10, <1>11 DEF Next

(* A start that was asked for too early stays on record. *)
LEMMA AgainStays == [Next]_vars /\ again => again'
<1> SUFFICES ASSUME [Next]_vars, again PROVE again'
  OBVIOUS
<1>1. CASE StartConsole
  BY <1>1 DEF StartConsole
<1>2. CASE UNCHANGED world
  BY <1>2 DEF world
<1>3. CASE Dispatch
  <2>1. UNCHANGED world
    BY <1>3 DEF Dispatch, Start, ExecApplication, SuspendOnEsc, Draw, Dead
  <2> QED BY <1>2, <2>1
<1>4. CASE RunIdle
  <2>1. UNCHANGED world
    BY <1>4 DEF RunIdle, DoSubmit, DoResize
  <2> QED BY <1>2, <2>1
<1>5. CASE ~StartConsole /\ ~Dispatch /\ ~RunIdle
  <2>1. UNCHANGED world
    BY <1>5 DEF Next, vars, world, LaunchClient, Bind, Receive, Hangup, ClickElsewhere,
                Input, PostInit, Exit, Dead
  <2> QED BY <1>2, <2>1
<1> QED BY <1>1, <1>3, <1>4, <1>5

LEMMA InitInv == Init => IInv
<1> SUFFICES ASSUME Init PROVE StageInv
  BY DEF IInv
<1>1. Ordered(toClient, exec_id)
  <2>1. toClient = <<>> /\ <<>> \in Seq({}) /\ Len(<<>>) = 0
    BY DEF Init
  <2> QED BY <2>1 DEF Ordered, IsQueue
<1>2. ChoiceHeld
  BY NoEvent DEF Init, ChoiceHeld
<1> QED BY <1>1, <1>2 DEF Init, StageInv, Stages, Away

LEMMA NextInv == IInv /\ [Next]_vars => IInv'
<1> SUFFICES ASSUME IInv, [Next]_vars PROVE IInv'
  OBVIOUS
<1>1. CASE again
  BY <1>1, AgainStays DEF IInv
<1>2. CASE ~again
  <2>1. again' \/ (StageInv /\ ~again')
    BY <1>2 DEF IInv
  <2> QED BY <2>1, StageStep DEF IInv
<1> QED BY <1>1, <1>2

(* Unless the user asked for the console again while an earlier start was  *)
(* unanswered, the session is in one of its stages.                        *)
THEOREM Invariance == Spec => []IInv
  BY InitInv, NextInv, PTL DEF Spec

(* Every order to execute has the number exec_application expects. *)
THEOREM OrdersInOrder == Spec => []ExecInOrder
<1>1. IInv => ExecInOrder
  BY DEF IInv, StageInv, Ordered, ExecInOrder
<1> QED BY <1>1, Invariance, PTL

(* What the user submits is what is executed, but for a draw of the window  *)
(* before console_do_submit: nothing after it, and no other input, changes  *)
(* the selection (console_draw, console_do_submit, exec_application).       *)
THEOREM ChoiceIsLostOnlyByDraw == Spec => []ChoiceLostOnlyByDraw
<1>1. IInv => ChoiceLostOnlyByDraw
  BY DEF IInv, StageInv, ChoiceHeld, ChoiceLostOnlyByDraw
<1> QED BY <1>1, Invariance, PTL

================================================================================
