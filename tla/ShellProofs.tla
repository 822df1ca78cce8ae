------------------------------ MODULE ShellProofs ------------------------------
(***************************************************************************)
(* ShellSession for any screens, slots, widgets and any number of events   *)
(* and requests in flight: a request to close a widget is about the widget *)
(* that is open, and the bindings that close it go with its object; when   *)
(* nothing is in flight both sides agree; and the desktop knows the space  *)
(* of every panel, or is about to be told.                                 *)
(***************************************************************************)
EXTENDS ShellSession, FiniteSetTheorems, SequenceTheorems, WellFoundedInduction, TLAPS

(***************************************************************************)
(* Streams                                                                 *)
(***************************************************************************)
IsStream(q) == \E S : q \in Seq(S)
In(x, q) == \E k \in 1..Len(q) : q[k] = x

LEMMA JoinedStreams ==
  ASSUME NEW q, NEW r, IsStream(q), IsStream(r)
  PROVE  /\ IsStream(q \o r)
         /\ \A x : In(x, q \o r) => In(x, q) \/ In(x, r)
<1>1. PICK A : q \in Seq(A)
  BY DEF IsStream
<1>2. PICK B : r \in Seq(B)
  BY DEF IsStream
<1>3. q \in Seq(A \cup B) /\ r \in Seq(A \cup B)
  <2>1. A \subseteq A \cup B /\ B \subseteq A \cup B
    OBVIOUS
  <2> QED BY <1>1, <1>2, <2>1, SeqMonotonic
<1>4. /\ q \o r \in Seq(A \cup B) /\ Len(q \o r) = Len(q) + Len(r)
      /\ \A k \in 1..Len(q) + Len(r) :
           (q \o r)[k] = IF k <= Len(q) THEN q[k] ELSE r[k - Len(q)]
  BY <1>3, ConcatProperties
<1>5. Len(q) \in Nat /\ Len(r) \in Nat
  BY <1>3, LenProperties
<1>6. ASSUME NEW x, In(x, q \o r) PROVE In(x, q) \/ In(x, r)
  <2>1. PICK k \in 1..Len(q) + Len(r) : (q \o r)[k] = x
    BY <1>4, <1>6 DEF In
  <2>2. CASE k <= Len(q)
    <3>1. k \in 1..Len(q) /\ q[k] = x
      BY <1>4, <1>5, <2>1, <2>2
    <3> QED BY <3>1 DEF In
  <2>3. CASE ~(k <= Len(q))
    <3>1. k - Len(q) \in 1..Len(r) /\ r[k - Len(q)] = x
      BY <1>4, <1>5, <2>1, <2>3
    <3> QED BY <3>1 DEF In
  <2> QED BY <2>2, <2>3
<1> QED BY <1>4, <1>6 DEF IsStream

LEMMA RestOfStream ==
  ASSUME NEW q, IsStream(q), q # <<>>
  PROVE  /\ In(Head(q), q) /\ IsStream(Tail(q))
         /\ \A x : In(x, Tail(q)) => In(x, q)
<1>1. PICK A : q \in Seq(A)
  BY DEF IsStream
<1>2. /\ Tail(q) \in Seq(A) /\ Len(Tail(q)) = Len(q) - 1 /\ Len(q) \in Nat /\ Len(q) > 0
      /\ Head(q) = q[1] /\ \A k \in 1..Len(q) - 1 : Tail(q)[k] = q[k + 1]
  BY <1>1
<1>3. In(Head(q), q)
  <2>1. 1 \in 1..Len(q)
    BY <1>2
  <2> QED BY <1>2, <2>1 DEF In
<1>4. ASSUME NEW x, In(x, Tail(q)) PROVE In(x, q)
  <2>1. PICK k \in 1..Len(q) - 1 : Tail(q)[k] = x
    BY <1>2, <1>4 DEF In
  <2>2. k + 1 \in 1..Len(q) /\ q[k + 1] = x
    BY <1>2, <2>1
  <2> QED BY <2>2 DEF In
<1> QED BY <1>2, <1>3, <1>4 DEF IsStream

LEMMA ShortStreams ==
  /\ IsStream(<<>>) /\ \A x : ~In(x, <<>>)
  /\ \A a : IsStream(<<a>>) /\ \A x : In(x, <<a>>) => x = a
  /\ \A a, b : IsStream(<<a, b>>) /\ \A x : In(x, <<a, b>>) => x \in {a, b}
<1>1. \A x : ~In(x, <<>>)
  BY DEF In
<1>2. <<>> \in Seq({})
  OBVIOUS
<1>3. ASSUME NEW a PROVE IsStream(<<a>>) /\ \A x : In(x, <<a>>) => x = a
  <2>1. <<a>> \in Seq({a}) /\ Len(<<a>>) = 1 /\ <<a>>[1] = a
    OBVIOUS
  <2>2. \A x : In(x, <<a>>) => x = a
    BY <2>1 DEF In
  <2> QED BY <2>1, <2>2 DEF IsStream
<1>4. ASSUME NEW a, NEW b PROVE IsStream(<<a, b>>) /\ \A x : In(x, <<a, b>>) => x \in {a, b}
  <2>1. <<a, b>> \in Seq({a, b})
    OBVIOUS
  <2>2. Len(<<a, b>>) = 2 /\ <<a, b>>[1] = a /\ <<a, b>>[2] = b
    OBVIOUS
  <2>3. \A x : In(x, <<a, b>>) => x \in {a, b}
    BY <2>2 DEF In
  <2> QED BY <2>1, <2>3 DEF IsStream
<1> QED BY <1>1, <1>2, <1>3, <1>4 DEF IsStream

(***************************************************************************)
(* Numbers                                                                 *)
(***************************************************************************)
LEMMA LeastLemma ==
  ASSUME NEW S, S \subseteq Nat, S # {}
  PROVE  Least(S) \in S /\ \A j \in S : Least(S) <= j
<1>1. PICK m \in S : \A j \in S : ~(<<j, m>> \in OpToRel(<, Nat))
  BY WFMin, NatLessThanWellFounded
<1>2. \A j \in S : m <= j
  <2>1. OpToRel(<, Nat) = {ss \in Nat \X Nat : ss[1] < ss[2]}
    BY DEF OpToRel
  <2>2. ASSUME NEW j \in S PROVE ~(j < m)
    <3> DEFINE p == <<j, m>>
    <3>1. p \in Nat \X Nat /\ p[1] = j /\ p[2] = m
      OBVIOUS
    <3>2. p \notin OpToRel(<, Nat)
      BY <1>1
    <3> HIDE DEF p
    <3>3. ~(p[1] < p[2])
      BY <2>1, <3>1, <3>2
    <3> QED BY <3>1, <3>3
  <2> QED BY <2>2
<1> QED BY <1>2 DEF Least

(* The greatest of a set of slots. *)
LEMMA GreatestSlot ==
  ASSUME NEW S \in SUBSET Slot, S # {}
  PROVE  \E m \in S : \A i \in S : i <= m
<1> DEFINE U == {j \in Nat : \A i \in S : i <= j}
<1>1. S \subseteq Nat /\ Slots \in U
  BY ShellAssumption DEF Slot
<1>2. Least(U) \in U /\ \A j \in U : Least(U) <= j
  BY <1>1, LeastLemma
<1>3. Least(U) \in S
  <2> SUFFICES ASSUME Least(U) \notin S PROVE FALSE
    OBVIOUS
  <2> DEFINE m == Least(U)
  <2>1. m \in Nat /\ \A i \in S : i <= m /\ i # m
    BY <1>2
  <2> HIDE DEF m
  <2>2. \A i \in S : i <= m - 1
    BY <1>1, <2>1
  <2>3. m - 1 \in Nat
    <3>1. PICK i \in S : i \in Nat
      BY <1>1
    <3>2. i <= m /\ i # m
      BY <2>1
    <3> QED BY <2>1, <3>1, <3>2
  <2>4. m - 1 \in U
    BY <2>2, <2>3
  <2>5. m <= m - 1
    BY <1>2, <2>4 DEF m
  <2> QED BY <2>1, <2>5
<1> QED BY <1>2, <1>3

Ordered(S, n) == \E f \in [1..n -> S] : \A j, k \in 1..n : j < k => f[j] < f[k]

(* Any slots can be put in order: the least number of slots that could not  *)
(* has a greatest among them, without which they could.                     *)
LEMMA OrderedLemma ==
  ASSUME NEW S \in SUBSET Slot
  PROVE  /\ IsFiniteSet(S) /\ Cardinality(S) \in Nat
         /\ Ordered(S, Cardinality(S))
<1>1. \A T \in SUBSET Slot : IsFiniteSet(T) /\ Cardinality(T) \in Nat
  <2>1. IsFiniteSet(0..(Slots - 1))
    BY ShellAssumption, FS_Interval
  <2> QED BY <2>1, FS_Subset, FS_CardinalityType DEF Slot
<1> DEFINE Bad == {n \in Nat : \E T \in SUBSET Slot : Cardinality(T) = n /\ ~Ordered(T, n)}
<1>2. Bad = {}
  <2> SUFFICES ASSUME Bad # {} PROVE FALSE
    OBVIOUS
  <2>1. PICK n \in Bad : \A j \in Bad : n <= j
    BY LeastLemma
  <2>2. PICK T \in SUBSET Slot : Cardinality(T) = n /\ ~Ordered(T, n)
    BY <2>1
  <2>3. CASE n = 0
    <3>1. T = {}
      BY <1>1, <2>2, <2>3, FS_EmptySet
    <3>2. [k \in 1..0 |-> 0] \in [1..0 -> T]
      BY <3>1
    <3>3. \A j \in 1..0 : FALSE
      OBVIOUS
    <3>4. Ordered(T, 0)
      BY <3>2, <3>3 DEF Ordered
    <3> QED BY <2>2, <2>3, <3>4
  <2>4. CASE n # 0
    <3>1. n - 1 \in Nat /\ n - 1 \notin Bad
      BY <2>1, <2>4
    <3>2. T # {}
      BY <2>2, <2>4, FS_EmptySet
    <3>3. PICK m \in T : \A i \in T : i <= m
      BY <3>2, GreatestSlot
    <3>4. Cardinality(T \ {m}) = n - 1 /\ T \ {m} \in SUBSET Slot
      BY <1>1, <2>2, <3>3, FS_RemoveElement
    <3>5. Ordered(T \ {m}, n - 1)
      BY <3>1, <3>4
    <3>6. PICK g \in [1..n-1 -> T \ {m}] : \A j, k \in 1..n-1 : j < k => g[j] < g[k]
      BY <3>5 DEF Ordered
    <3> DEFINE f == [k \in 1..n |-> IF k < n THEN g[k] ELSE m]
    <3>7. \A k \in 1..n : k < n => k \in 1..n-1
      BY <2>1
    <3>8. f \in [1..n -> T]
      BY <3>3, <3>6, <3>7
    <3>9. ASSUME NEW j \in 1..n, NEW k \in 1..n, j < k PROVE f[j] < f[k]
      <4>1. j < n /\ j \in 1..n-1 /\ f[j] = g[j]
        BY <2>1, <3>9
      <4>2. CASE k < n
        BY <3>6, <3>7, <3>9, <4>1, <4>2
      <4>3. CASE ~(k < n)
        <5>1. f[k] = m /\ g[j] \in T \ {m}
          BY <3>6, <4>1, <4>3
        <5>2. g[j] \in Nat /\ m \in Nat /\ g[j] <= m /\ g[j] # m
          <6>1. T \subseteq Nat
            BY ShellAssumption DEF Slot
          <6> QED BY <3>3, <5>1, <6>1
        <5> QED BY <4>1, <5>1, <5>2
      <4> QED BY <4>2, <4>3
    <3> QED BY <2>2, <3>8, <3>9 DEF Ordered
  <2> QED BY <2>3, <2>4
<1> QED BY <1>1, <1>2

LEMMA InOrderLemma ==
  ASSUME NEW S \in SUBSET Slot
  PROVE  /\ InOrder(S) \in Seq(S) /\ Len(InOrder(S)) = Cardinality(S)
         /\ Cardinality(S) \in Nat
         /\ \A i \in S : \E k \in 1..Cardinality(S) : InOrder(S)[k] = i
<1> DEFINE n == Cardinality(S)
           f == InOrder(S)
<1>1. IsFiniteSet(S) /\ n \in Nat /\ S \subseteq Nat
  BY OrderedLemma, ShellAssumption DEF Slot
<1>2. f \in [1..n -> S] /\ \A j, k \in 1..n : j < k => f[j] < f[k]
  BY OrderedLemma DEF Ordered, InOrder
<1> HIDE DEF f
<1>3. IsFiniteSet(1..n) /\ Cardinality(1..n) = n
  <2> HIDE DEF n
  <2> QED BY <1>1, FS_Interval
<1>4. f \in Injection(1..n, S)
  <2>1. ASSUME NEW j \in 1..n, NEW k \in 1..n, f[j] = f[k] PROVE j = k
    <3>1. f[j] \in Nat
      BY <1>1, <1>2
    <3>2. ~(j < k) /\ ~(k < j)
      BY <1>2, <2>1, <3>1
    <3> QED BY <1>1, <3>2
  <2>2. IsInjective(f)
    BY <1>2, <2>1 DEF IsInjective
  <2> QED BY <1>2, <2>2 DEF Injection
<1>5. f \in Surjection(1..n, S)
  <2> HIDE DEF n
  <2> QED BY <1>1, <1>3, <1>4, FS_Injection DEF n
<1>6. \A i \in S : \E k \in 1..n : f[k] = i
  BY <1>5 DEF Surjection
<1>7. f \in Seq(S) /\ Len(f) = n
  <2> HIDE DEF n
  <2> QED BY <1>1, <1>2
<1> QED BY <1>1, <1>6, <1>7 DEF f

(* An object of a kind is one that was free. *)
LEMMA NewLemma ==
  ASSUME Supply, NEW kind \in Kind
  PROVE  /\ New(kind, Fresh) \in Ui /\ New(kind, Fresh)[1] = kind
         /\ New(kind, Fresh) \in Fresh
<1> DEFINE S == {u[2] : u \in {v \in Fresh : v[1] = kind}}
<1>1. Fresh \subseteq Kind \X (1..MaxUi)
  BY DEF Fresh, Ui
<1>2. S \subseteq 1..MaxUi /\ S # {}
  BY <1>1 DEF Supply
<1>3. Least(S) \in S
  <2> HIDE DEF S
  <2>1. S \subseteq Nat
    BY <1>2, ShellAssumption
  <2> QED BY <1>2, <2>1, LeastLemma
<1>4. New(kind, Fresh) = <<kind, Least(S)>>
  BY DEF New
<1>5. PICK u \in Fresh : u[1] = kind /\ u[2] = Least(S)
  BY <1>3
<1>6. New(kind, Fresh) = u
  BY <1>1, <1>4, <1>5
<1> QED BY <1>1, <1>4, <1>5, <1>6 DEF Ui

(***************************************************************************)
(* The invariant                                                           *)
(***************************************************************************)

(* The memory of an element and the object that uses it are of one kind.   *)
ServerKnown ==
  /\ DOMAIN elem = Elem /\ DOMAIN user = Ui
  /\ \A u \in Ui : user[u] # None => user[u][1] = u[1]

(* The only widget the client has not destroyed is the one that is open.   *)
ClientKnown ==
  /\ clicks \in Nat /\ (clicks > 0 => chosen \in Popup)
  /\ current \in Popup \cup {None} /\ DOMAIN proxy = Popup
  /\ \A u \in proxies : u[1] = "widget" => current # None /\ u = proxy[current]

Proper(r) == r.type \in Kind => r.ui \in Ui /\ r.ui[1] = r.type
RequestsProper == IsStream(toServer) /\ \A r : In(r, toServer) => Proper(r)

Widgets(e) == e.type = "close" => e.arg[1] = "widget"
ClosesWidgets == IsStream(toClient) /\ \A e : In(e, toClient) => Widgets(e)

IInv == /\ screens \subseteq Output /\ ServerKnown /\ ClientKnown
        /\ RequestsProper /\ ClosesWidgets /\ LosersLive

(***************************************************************************)
(* The client                                                              *)
(***************************************************************************)
LEMMA SendLemma ==
  ASSUME RequestsProper, NEW requests, IsStream(requests), Send(requests),
         \A r : In(r, requests) => Proper(r)
  PROVE  RequestsProper'
  BY JoinedStreams DEF RequestsProper, Send

(* What is left when the open widget was closed. *)
LEMMA ClosedLemma ==
  ASSUME ClientKnown
  PROVE  /\ \A u \in Remaining : u \in proxies /\ u[1] # "widget"
         /\ DOMAIN Closed = Popup
         /\ IsStream(Closing) /\ \A r : In(r, Closing) => Proper(r)
<1>1. /\ \A u \in Remaining : u \in proxies /\ u[1] # "widget"
      /\ DOMAIN Closed = Popup
  BY DEF ClientKnown, Remaining, Closed
<1>2. Proper(Request("destroy", proxy[current], 0))
  BY DEF Proper, Request, Kind
<1>3. IsStream(Closing) /\ \A r : In(r, Closing) => Proper(r)
  BY <1>2, ShortStreams DEF Closing
<1> QED BY <1>1, <1>3

(* Two requests that make an element and show it, after those of closing.   *)
LEMMA OpeningLemma ==
  ASSUME RequestsProper, ClientKnown, NEW kind \in Kind, NEW u \in Ui, u[1] = kind, NEW i,
         Send(Closing \o <<Request(kind, u, i), Request("commit", u, 0)>>)
  PROVE  RequestsProper'
<1> DEFINE a == Request(kind, u, i)
           b == Request("commit", u, 0)
<1>1. Proper(a) /\ Proper(b)
  BY DEF Proper, Request, Kind
<1>2. IsStream(Closing) /\ \A r : In(r, Closing) => Proper(r)
  BY ClosedLemma
<1> HIDE DEF a, b
<1>3. IsStream(<<a, b>>) /\ \A r : In(r, <<a, b>>) => Proper(r)
  BY <1>1, ShortStreams
<1>4. /\ IsStream(Closing \o <<a, b>>)
      /\ \A r : In(r, Closing \o <<a, b>>) => Proper(r)
  BY <1>2, <1>3, JoinedStreams
<1>5. Send(Closing \o <<a, b>>)
  BY DEF a, b
<1> QED BY <1>4, <1>5, SendLemma

LEMMA CrashLemma ==
  ASSUME Crash
  PROVE  ClientKnown'
<1>1. clicks' = 0 /\ current' = None /\ proxy' = [w \in Popup |-> None] /\ proxies' = {}
  BY DEF Crash
<1> QED BY <1>1 DEF ClientKnown

(* A widget takes the place of the open one. *)
LEMMA ReplacedLemma ==
  ASSUME ClientKnown, NEW w \in Popup, NEW u,
         current' = w, proxy' = [Closed EXCEPT ![w] = u], proxies' = Remaining \cup {u}
  PROVE  /\ current' \in Popup \cup {None} /\ DOMAIN proxy' = Popup
         /\ \A v \in proxies' : v[1] = "widget" => current' # None /\ v = proxy'[current']
<1>1. w # None
  BY ShellAssumption
<1>2. DOMAIN Closed = Popup /\ \A v \in Remaining : v[1] # "widget"
  BY ClosedLemma
<1> QED BY <1>1, <1>2

LEMMA LaunchLemma ==
  ASSUME ClientKnown, RequestsProper, Supply, NEW w \in Popup, NEW i, Launch(w, i, Fresh)
  PROVE  /\ RequestsProper'
         /\ current' \in Popup \cup {None} /\ DOMAIN proxy' = Popup
         /\ \A v \in proxies' : v[1] = "widget" => current' # None /\ v = proxy'[current']
<1> DEFINE u == New("widget", Fresh)
<1>1. u \in Ui /\ u[1] = "widget" /\ "widget" \in Kind
  BY NewLemma DEF Kind
<1> HIDE DEF u
<1>2. CASE current = w
  <2>1. UNCHANGED <<current, proxy, proxies, toServer>>
    BY <1>2 DEF Launch
  <2> QED BY <2>1 DEF ClientKnown, RequestsProper
<1>3. CASE current # w
  <2>1. /\ current' = w /\ proxy' = [Closed EXCEPT ![w] = u] /\ proxies' = Remaining \cup {u}
        /\ Send(Closing \o <<Request("widget", u, i), Request("commit", u, 0)>>)
    BY <1>3 DEF Launch, u
  <2> QED BY <1>1, <2>1, ReplacedLemma, OpeningLemma
<1> QED BY <1>2, <1>3

LEMMA PanelLaunchInv ==
  ASSUME ClientKnown, RequestsProper, Supply, PanelLaunchWidget(Fresh)
  PROVE  ClientKnown' /\ RequestsProper'
<1>1. clicks > 0 /\ clicks' = clicks - 1 /\ chosen \in Popup /\ clicks' \in Nat
  BY DEF PanelLaunchWidget, ClientKnown
<1>2. Launch(chosen, at, Fresh) /\ Choose(chosen, at, clicks - 1)
  BY DEF PanelLaunchWidget
<1>3. clicks' > 0 => chosen' \in Popup
  BY <1>1, <1>2 DEF Choose
<1> QED BY <1>1, <1>2, <1>3, LaunchLemma DEF ClientKnown

LEMMA NotifyInv ==
  ASSUME ClientKnown, RequestsProper, Supply, Notify(Fresh)
  PROVE  ClientKnown' /\ RequestsProper'
<1>1. CASE current # None
  BY <1>1 DEF Notify, clientVars, ClientKnown, RequestsProper
<1>2. CASE Crash
  BY <1>2, CrashLemma DEF Crash, RequestsProper
<1>3. CASE /\ Launch(Notification, 0, Fresh) /\ Choose(Notification, 0, clicks)
           /\ UNCHANGED clicks
  <2>1. Notification \in Popup
    BY DEF Popup
  <2>2. clicks' \in Nat /\ (clicks' > 0 => chosen' \in Popup)
    BY <1>3, <2>1 DEF Choose, ClientKnown
  <2> QED BY <1>3, <2>1, <2>2, LaunchLemma DEF ClientKnown
<1> QED BY <1>1, <1>2, <1>3 DEF Notify

LEMMA LaunchMenuInv ==
  ASSUME ClientKnown, RequestsProper, Supply, NEW i, LaunchMenu(i, Fresh)
  PROVE  ClientKnown' /\ RequestsProper'
<1> DEFINE u == New("widget", Fresh)
<1>1. u \in Ui /\ u[1] = "widget" /\ "widget" \in Kind /\ Menu \in Popup
  BY NewLemma DEF Kind, Popup
<1> HIDE DEF u
<1>2. /\ current' = Menu /\ proxy' = [Closed EXCEPT ![Menu] = u] /\ proxies' = Remaining \cup {u}
      /\ Send(Closing \o <<Request("widget", u, i), Request("commit", u, 0)>>)
      /\ Choose(Menu, i, clicks) /\ clicks' = clicks
  BY DEF LaunchMenu, u
<1>3. clicks' \in Nat /\ (clicks' > 0 => chosen' \in Popup)
  BY <1>1, <1>2 DEF Choose, ClientKnown
<1> QED BY <1>1, <1>2, <1>3, ReplacedLemma, OpeningLemma DEF ClientKnown

LEMMA LockInv ==
  ASSUME ClientKnown, RequestsProper, Supply, Lock(Fresh)
  PROVE  ClientKnown' /\ RequestsProper'
<1>1. CASE transient # None
  BY <1>1 DEF Lock, clientVars, ClientKnown, RequestsProper
<1>2. CASE Crash
  BY <1>2, CrashLemma DEF Crash, RequestsProper
<1>3. CASE SetupLocker(Fresh)
  <2> DEFINE u == New("locker", Fresh)
  <2>1. u \in Ui /\ u[1] = "locker" /\ "locker" \in Kind
    BY NewLemma DEF Kind
  <2> HIDE DEF u
  <2>2. /\ current' = None /\ proxy' = Closed /\ proxies' = Remaining \cup {u}
        /\ Send(Closing \o <<Request("locker", u, 0), Request("commit", u, 0)>>)
        /\ UNCHANGED <<clicks, chosen>>
    BY <1>3 DEF SetupLocker, u
  <2>3. DOMAIN Closed = Popup /\ \A v \in Remaining : v[1] # "widget"
    BY ClosedLemma
  <2>4. ClientKnown'
    BY <2>1, <2>2, <2>3 DEF ClientKnown
  <2> QED BY <2>1, <2>2, <2>4, OpeningLemma
<1> QED BY <1>1, <1>2, <1>3 DEF Lock

LEMMA ShouldCloseInv ==
  ASSUME ClientKnown, RequestsProper, NEW u, ShouldClose(u)
  PROVE  ClientKnown' /\ RequestsProper'
<1>1. CASE u \notin proxies
  BY <1>1 DEF ShouldClose, clientVars, ClientKnown, RequestsProper
<1>2. CASE Crash
  BY <1>2, CrashLemma DEF Crash, RequestsProper
<1>3. CASE /\ Send(Closing) /\ current' = None /\ proxy' = Closed /\ proxies' = Remaining
           /\ UNCHANGED <<clicks, chosen>>
  <2>1. /\ DOMAIN Closed = Popup /\ \A v \in Remaining : v[1] # "widget"
        /\ IsStream(Closing) /\ \A r : In(r, Closing) => Proper(r)
    BY ClosedLemma
  <2>2. ClientKnown'
    BY <1>3, <2>1 DEF ClientKnown
  <2> QED BY <1>3, <2>1, <2>2, SendLemma
<1> QED BY <1>1, <1>2, <1>3 DEF ShouldClose

LEMMA ConnectedInv ==
  ASSUME ClientKnown, RequestsProper, Supply, NEW i, Connected(i, Fresh)
  PROVE  ClientKnown' /\ RequestsProper'
<1> DEFINE b == New("background", Fresh)
           n == New("panel", Fresh)
           first == i = 0 /\ panel = None
           p == IF first THEN n ELSE panel
           q1 == <<NewBackground(b, i)>>
           q2 == IF first THEN <<NewPanel(p, i)>> ELSE <<>>
           q3 == IF i = 0 THEN <<Request("commit", p, 0)>> ELSE <<>>
           q4 == <<Request("commit", b, 0)>>
<1>1. b \in Ui /\ b[1] = "background" /\ n \in Ui /\ n[1] = "panel"
  BY NewLemma DEF Kind
<1>2. /\ proxies' = proxies \cup {b} \cup (IF first THEN {p} ELSE {})
      /\ Send(((q1 \o q2) \o q3) \o q4)
      /\ UNCHANGED <<popupVars, clicks>>
  BY DEF Connected
<1> HIDE DEF b, n
<1>3. first => p = n
  OBVIOUS
<1>4. Proper(NewBackground(b, i)) /\ (first => Proper(NewPanel(p, i)))
  BY <1>1, <1>3 DEF Proper, NewBackground, NewPanel, Request
<1>5. Proper(Request("commit", p, 0)) /\ Proper(Request("commit", b, 0))
  BY DEF Proper, Request, Kind
<1> HIDE DEF p, first
<1>6. /\ IsStream(q1) /\ \A r : In(r, q1) => Proper(r)
      /\ IsStream(q2) /\ \A r : In(r, q2) => Proper(r)
      /\ IsStream(q3) /\ \A r : In(r, q3) => Proper(r)
      /\ IsStream(q4) /\ \A r : In(r, q4) => Proper(r)
  BY <1>4, <1>5, ShortStreams
<1> HIDE DEF q1, q2, q3, q4
<1>7. IsStream(q1 \o q2) /\ \A r : In(r, q1 \o q2) => Proper(r)
  BY <1>6, JoinedStreams
<1>8. IsStream((q1 \o q2) \o q3) /\ \A r : In(r, (q1 \o q2) \o q3) => Proper(r)
  BY <1>6, <1>7, JoinedStreams
<1>9. /\ IsStream(((q1 \o q2) \o q3) \o q4)
      /\ \A r : In(r, ((q1 \o q2) \o q3) \o q4) => Proper(r)
  BY <1>6, <1>8, JoinedStreams
<1>10. RequestsProper'
  BY <1>2, <1>9, SendLemma
<1>11. ClientKnown'
  BY <1>1, <1>2, <1>3 DEF ClientKnown, popupVars
<1> QED BY <1>10, <1>11

LEMMA ChangedInv ==
  ASSUME ClientKnown, RequestsProper, NEW i, Changed(i)
  PROVE  ClientKnown' /\ RequestsProper'
<1> DEFINE q1 == <<Request("commit", background[i], 0)>>
           q2 == IF i = 0 THEN <<Request("commit", panel, 0)>> ELSE <<>>
<1>1. \A u : Proper(Request("commit", u, 0))
  BY DEF Proper, Request, Kind
<1>2. /\ IsStream(q1) /\ \A r : In(r, q1) => Proper(r)
      /\ IsStream(q2) /\ \A r : In(r, q2) => Proper(r)
  BY <1>1, ShortStreams
<1>3. Send(q1 \o q2) /\ UNCHANGED clientVars
  BY DEF Changed
<1> HIDE DEF q1, q2
<1>4. IsStream(q1 \o q2) /\ \A r : In(r, q1 \o q2) => Proper(r)
  BY <1>2, JoinedStreams
<1> QED BY <1>3, <1>4, SendLemma DEF ClientKnown, clientVars

LEMMA DispatchInv ==
  ASSUME ClientKnown, RequestsProper, ClosesWidgets, Supply, Dispatch(Fresh)
  PROVE  ClientKnown' /\ RequestsProper' /\ ClosesWidgets'
<1> DEFINE e == Head(toClient)
<1>1. toClient # <<>> /\ toClient' = Tail(toClient)
  BY DEF Dispatch
<1>2. ClosesWidgets'
  BY <1>1, RestOfStream DEF ClosesWidgets
<1>3. CASE Crash
  BY <1>2, <1>3, CrashLemma DEF Crash, RequestsProper
<1>4. CASE Connected(e.arg, Fresh)
  BY <1>2, <1>4, ConnectedInv
<1>5. CASE Changed(e.arg)
  BY <1>2, <1>5, ChangedInv
<1>6. CASE Lock(Fresh)
  BY <1>2, <1>6, LockInv
<1>7. CASE Notify(Fresh)
  BY <1>2, <1>7, NotifyInv
<1>8. CASE ShouldClose(e.arg)
  BY <1>2, <1>8, ShouldCloseInv
<1>9. CASE UNCHANGED <<running, background, panel, popupVars, clicks, enters,
                       transient, proxies, toServer>>
  BY <1>2, <1>9 DEF popupVars, ClientKnown, RequestsProper
<1> QED BY <1>3, <1>4, <1>5, <1>6, <1>7, <1>8, <1>9 DEF Dispatch

LEMMA RunPamInv ==
  ASSUME ClientKnown, RequestsProper, NEW b \in BOOLEAN, RunPam(b)
  PROVE  ClientKnown' /\ RequestsProper'
<1> DEFINE q == IF b THEN <<Request("destroy", transient, 0)>> ELSE <<>>
<1>1. CASE Crash
  BY <1>1, CrashLemma DEF Crash, RequestsProper
<1>2. CASE ~(b /\ transient = None)
  <2>1. Proper(Request("destroy", transient, 0))
    BY DEF Proper, Request, Kind
  <2>2. IsStream(q) /\ \A r : In(r, q) => Proper(r)
    BY <2>1, ShortStreams
  <2>3. /\ Send(q) /\ UNCHANGED <<popupVars, clicks>>
        /\ proxies' \subseteq proxies
    BY <1>2 DEF RunPam
  <2> HIDE DEF q
  <2>4. ClientKnown'
    BY <2>3 DEF ClientKnown, popupVars
  <2> QED BY <2>2, <2>3, <2>4, SendLemma
<1> QED BY <1>1, <1>2 DEF RunPam

LEMMA ClickPanelInv ==
  ASSUME ClientKnown, NEW w \in Widget, ClickPanel(w)
  PROVE  ClientKnown' /\ UNCHANGED <<toServer, toClient>>
<1>1. w \in Popup
  BY DEF Popup
<1>2. clicks' = clicks + 1 /\ Choose(w, 0, clicks + 1)
      /\ UNCHANGED <<current, proxy, proxies, toServer, toClient>>
  BY DEF ClickPanel
<1>3. clicks' \in Nat /\ (clicks' > 0 => chosen' \in Popup)
  BY <1>1, <1>2 DEF Choose, ClientKnown
<1> QED BY <1>2, <1>3 DEF ClientKnown

(***************************************************************************)
(* The compositor                                                          *)
(***************************************************************************)
LEMMA TellLemma ==
  ASSUME ClosesWidgets, NEW e, Widgets(e), Tell(<<e>>)
  PROVE  ClosesWidgets'
<1>1. IsStream(<<e>>) /\ \A x : In(x, <<e>>) => Widgets(x)
  BY ShortStreams
<1>2. toClient' = toClient \/ toClient' = toClient \o <<e>>
  BY DEF Tell
<1> QED BY <1>1, <1>2, JoinedStreams DEF ClosesWidgets

LEMMA CreateElementLemma ==
  ASSUME ServerKnown, LosersLive, NEW e, NEW u \in Ui, u[1] = e[1], NEW o,
         CreateElement(e, u, o), lose' = lose, e # TheWidget, e[1] # "widget"
  PROVE  ServerKnown' /\ LosersLive'
<1>1. /\ elem' = [elem EXCEPT ![e] = [shell |-> TRUE, resource |-> u, output |-> o]]
      /\ user' = [user EXCEPT ![u] = e]
  BY DEF CreateElement
<1>2. ServerKnown'
  BY <1>1 DEF ServerKnown
<1>3. ASSUME lose' # {} PROVE LosersLive'
  <2>1. PICK v \in Ui : user[v] = TheWidget /\ elem[TheWidget].resource = v
    BY <1>3 DEF LosersLive
  <2>2. TheWidget # None /\ TheWidget[1] = "widget" /\ TheWidget \in Elem
    <3>1. TheWidget[1] = "widget" /\ TheWidget \in Elem
      BY DEF TheWidget, Elem
    <3> QED BY <3>1, ElementAssumption
  <2>3. v[1] = "widget"
    BY <2>1, <2>2 DEF ServerKnown
  <2>4. v # u
    BY <2>3
  <2>5. user'[v] = TheWidget
    BY <1>1, <2>1, <2>4 DEF ServerKnown
  <2>6. elem'[TheWidget] = elem[TheWidget]
    BY <1>1, <2>2 DEF ServerKnown
  <2> QED BY <2>1, <2>5, <2>6 DEF LosersLive
<1> QED BY <1>2, <1>3 DEF LosersLive

LEMMA UnbindInv ==
  ASSUME ServerKnown, LosersLive, NEW us, Unbind(us)
  PROVE  ServerKnown' /\ LosersLive'
<1> DEFINE of == {user[u] : u \in us}
<1>1. /\ DOMAIN elem' = Elem
      /\ \A e \in Elem : e \notin of => elem'[e] = elem[e]
      /\ user' = [u \in Ui |-> IF u \in us THEN None ELSE user[u]]
      /\ lose' = IF TheWidget \in of THEN {} ELSE lose
  BY DEF Unbind
<1>2. ServerKnown'
  BY <1>1 DEF ServerKnown
<1>3. ASSUME lose' # {} PROVE LosersLive'
  <2>1. TheWidget \notin of /\ lose # {}
    BY <1>1, <1>3
  <2>2. PICK v \in Ui : user[v] = TheWidget /\ elem[TheWidget].resource = v
    BY <2>1 DEF LosersLive
  <2>3. v \notin us
    BY <2>1, <2>2
  <2>4. TheWidget \in Elem
    BY DEF TheWidget, Elem
  <2> HIDE DEF of
  <2>5. user'[v] = TheWidget /\ elem'[TheWidget] = elem[TheWidget]
    BY <1>1, <2>1, <2>2, <2>3, <2>4
  <2> QED BY <2>2, <2>5 DEF LosersLive
<1> QED BY <1>2, <1>3 DEF LosersLive

LEMMA ReceiveInv ==
  ASSUME ServerKnown, LosersLive, RequestsProper, Receive
  PROVE  ServerKnown' /\ LosersLive' /\ RequestsProper'
<1> DEFINE r == Head(toServer)
<1>1. toServer # <<>> /\ toServer' = Tail(toServer)
  BY DEF Receive
<1>2. Proper(r) /\ RequestsProper'
  BY <1>1, RestOfStream DEF RequestsProper
<1>3. CASE r.type = "panel" /\ CreatePanel(r.ui, r.slot)
  <2>1. r.ui \in Ui /\ r.ui[1] = "panel"
    BY <1>2, <1>3 DEF Proper, Kind
  <2>2. PanelOf(r.slot)[1] = "panel" /\ PanelOf(r.slot) # TheWidget
    BY DEF PanelOf, TheWidget
  <2> QED BY <1>2, <1>3, <2>1, <2>2, CreateElementLemma DEF CreatePanel
<1>4. CASE r.type = "background" /\ CreateBackground(r.ui, r.slot)
  <2>1. r.ui \in Ui /\ r.ui[1] = "background"
    BY <1>2, <1>4 DEF Proper, Kind
  <2>2. BackgroundOf(r.slot)[1] = "background" /\ BackgroundOf(r.slot) # TheWidget
    BY DEF BackgroundOf, TheWidget
  <2> QED BY <1>2, <1>4, <2>1, <2>2, CreateElementLemma DEF CreateBackground
<1>5. CASE r.type = "widget" /\ LaunchWidget(r.ui, r.slot)
  <2>1. r.ui \in Ui /\ r.ui[1] = "widget"
    BY <1>2, <1>5 DEF Proper, Kind
  <2>2. TheWidget[1] = "widget" /\ TheWidget \in Elem
    BY DEF TheWidget, Elem
  <2>3. PICK el : /\ elem' = [elem EXCEPT ![TheWidget] = el] /\ el.resource = r.ui
                  /\ user' = [user EXCEPT ![r.ui] = TheWidget]
    BY <1>5 DEF LaunchWidget, CreateElement
  <2>4. ServerKnown'
    BY <2>1, <2>2, <2>3 DEF ServerKnown
  <2>5. user'[r.ui] = TheWidget /\ elem'[TheWidget].resource = r.ui
    BY <2>1, <2>2, <2>3 DEF ServerKnown
  <2> QED BY <1>2, <2>1, <2>4, <2>5 DEF LosersLive
<1>6. CASE r.type = "locker" /\ CreateLocker(r.ui)
  <2>1. r.ui \in Ui /\ r.ui[1] = "locker"
    BY <1>2, <1>6 DEF Proper, Kind
  <2>2. TheLocker[1] = "locker" /\ TheLocker # TheWidget
    BY DEF TheLocker, TheWidget
  <2> QED BY <1>2, <1>6, <2>1, <2>2, CreateElementLemma DEF CreateLocker
<1>7. CASE r.type = "commit" /\ Commit(r.ui)
  <2>1. UNCHANGED <<elem, user, lose>>
    BY <1>7 DEF Commit
  <2> QED BY <1>2, <2>1 DEF ServerKnown, LosersLive
<1>8. CASE r.type = "destroy" /\ Unbind({r.ui})
  BY <1>2, <1>8, UnbindInv
<1> QED BY <1>3, <1>4, <1>5, <1>6, <1>7, <1>8 DEF Receive

LEMMA LoseFocusInv ==
  ASSUME ServerKnown, LosersLive, ClosesWidgets, NEW what, LoseFocus(what)
  PROVE  ServerKnown' /\ LosersLive' /\ ClosesWidgets'
<1> DEFINE e == Event("close", elem[TheWidget].resource)
<1>1. /\ lose # {} /\ lose' \subseteq lose /\ UNCHANGED <<elem, user>>
      /\ toClient' = Append(toClient, e)
  BY DEF LoseFocus
<1>2. PICK v \in Ui : user[v] = TheWidget /\ elem[TheWidget].resource = v
  BY <1>1 DEF LosersLive
<1>3. TheWidget # None /\ TheWidget[1] = "widget"
  BY ElementAssumption DEF Elem, TheWidget
<1>4. Widgets(e)
  BY <1>2, <1>3 DEF ServerKnown, Widgets, Event
<1> HIDE DEF e
<1>5. IsStream(<<e>>) /\ \A x : In(x, <<e>>) => Widgets(x)
  BY <1>4, ShortStreams
<1>6. toClient' = toClient \o <<e>>
  BY <1>1, AppendIsConcat DEF ClosesWidgets, IsStream
<1>7. ClosesWidgets'
  BY <1>5, <1>6, JoinedStreams DEF ClosesWidgets
<1>8. ServerKnown' /\ LosersLive'
  BY <1>1, <1>2 DEF ServerKnown, LosersLive
<1> QED BY <1>7, <1>8

LEMMA HangupInv ==
  ASSUME ServerKnown, LosersLive, Hangup
  PROVE  ServerKnown' /\ LosersLive' /\ RequestsProper' /\ ClosesWidgets'
<1>1. PICK us : Unbind(us)
  BY DEF Hangup
<1>2. ServerKnown' /\ LosersLive'
  BY <1>1, UnbindInv
<1>3. toClient' = <<>> /\ toServer' = <<>>
  BY DEF Hangup
<1> QED BY <1>2, <1>3, ShortStreams DEF RequestsProper, ClosesWidgets

(* A client that binds the shell is told of the screens, and nothing else. *)
LEMMA BindInv ==
  ASSUME screens \subseteq Output, Bind
  PROVE  ClosesWidgets'
<1> DEFINE used == {i \in Slot : slot[i] # None}
           n == Cardinality(used)
           slotted == InOrder(used)
           others == Cardinality(screens) - n
           q1 == [k \in 1..n |-> Event("connected", slotted[k])]
           q2 == [k \in 1..others |-> Event("connected", Beyond)]
           q3 == <<Event("panel_pos", top)>>
<1>1. IsFiniteSet(0..(Slots - 1)) /\ IsFiniteSet(Output)
  BY ShellAssumption, FS_Interval
<1>2. used \subseteq 0..(Slots - 1)
  BY DEF Slot
<1>3. n \in Nat
  <2> HIDE DEF used
  <2> QED BY <1>1, <1>2, FS_Subset, FS_CardinalityType
<1>4. others \in Int
  <2>1. Cardinality(screens) \in Nat
    BY <1>1, FS_Subset, FS_CardinalityType
  <2> HIDE DEF n
  <2> QED BY <1>3, <2>1
<1>5. \A a, b : a # "close" => Widgets(Event(a, b))
  BY DEF Widgets, Event
<1> HIDE DEF used, n, slotted, others
<1>6. IsStream(q1) /\ \A x : In(x, q1) => Widgets(x)
  <2>1. q1 \in Seq({Event("connected", slotted[k]) : k \in 1..n}) /\ Len(q1) = n
    BY <1>3
  <2>2. \A x : In(x, q1) => Widgets(x)
    BY <1>5, <2>1 DEF In
  <2> QED BY <2>1, <2>2 DEF IsStream
<1>7. IsStream(q2) /\ \A x : In(x, q2) => Widgets(x)
  <2> DEFINE m == IF others < 0 THEN 0 ELSE others
  <2>1. m \in Nat /\ 1..others = 1..m
    BY <1>4
  <2> HIDE DEF m
  <2> DEFINE c == Event("connected", Beyond)
  <2> HIDE DEF c
  <2>2. q2 = [k \in 1..m |-> c]
    BY <2>1 DEF c
  <2> HIDE DEF q2
  <2>3. q2 \in Seq({c}) /\ Len(q2) = m /\ \A k \in 1..m : q2[k] = c
    BY <2>1, <2>2
  <2>4. Widgets(c)
    BY <1>5 DEF c
  <2>5. \A x : In(x, q2) => Widgets(x)
    BY <2>3, <2>4 DEF In
  <2> QED BY <2>3, <2>5 DEF IsStream
<1>8. IsStream(q3) /\ \A x : In(x, q3) => Widgets(x)
  BY <1>5, ShortStreams
<1>9. toClient' = (q1 \o q2) \o q3
  BY DEF Bind, DefaultConfig, used, n, slotted, others
<1> HIDE DEF q1, q2, q3
<1>10. IsStream(q1 \o q2) /\ \A x : In(x, q1 \o q2) => Widgets(x)
  BY <1>6, <1>7, JoinedStreams
<1>11. IsStream((q1 \o q2) \o q3) /\ \A x : In(x, (q1 \o q2) \o q3) => Widgets(x)
  BY <1>8, <1>10, JoinedStreams
<1> QED BY <1>9, <1>11 DEF ClosesWidgets

(***************************************************************************)
(* The session                                                             *)
(***************************************************************************)
LEMMA TurnInv ==
  ASSUME IInv, Turn, UNCHANGED clientVars
  PROVE  IInv'
<1>1. ClientKnown /\ ClientKnown'
  BY DEF IInv, ClientKnown, clientVars
<1>2. \A a, b : a # "close" => Widgets(Event(a, b))
  BY DEF Widgets, Event
<1> SUFFICES /\ screens' \subseteq Output /\ ClosesWidgets'
             /\ UNCHANGED <<elem, user, lose, toServer>>
  BY <1>1 DEF IInv, ServerKnown, RequestsProper, LosersLive
<1>3. ASSUME NEW o \in Output, Plug(o)
      PROVE  screens' \subseteq Output /\ ClosesWidgets' /\ UNCHANGED <<elem, user, lose, toServer>>
  <2>1. screens' = screens \cup {o} /\ UNCHANGED <<elem, user, lose, toServer>>
    BY <1>3 DEF Plug
  <2>2. toClient' = toClient \/ Tell(<<Event("connected", NOutputs)>>)
    BY <1>3 DEF Plug
  <2>3. ClosesWidgets'
    BY <1>2, <2>2, TellLemma DEF IInv, ClosesWidgets
  <2> QED BY <2>1, <2>3 DEF IInv
<1>4. ASSUME NEW o \in Output, Unplug(o)
      PROVE  screens' \subseteq Output /\ ClosesWidgets' /\ UNCHANGED <<elem, user, lose, toServer>>
  BY <1>4 DEF Unplug, IInv, ClosesWidgets
<1>5. CASE PostNotification
  BY <1>2, <1>5, TellLemma DEF PostNotification, outputVars, uiVars, IInv
<1>6. CASE SetPanelPos
  BY <1>2, <1>6, TellLemma DEF SetPanelPos, uiVars, IInv
<1>7. ASSUME NEW o \in Output, Resize(o)
      PROVE  screens' \subseteq Output /\ ClosesWidgets' /\ UNCHANGED <<elem, user, lose, toServer>>
  <2>1. /\ UNCHANGED <<screens, elem, user, lose, toServer>>
        /\ toClient' = toClient \/ Tell(<<Event("change", IthOutput(o))>>)
    BY <1>7 DEF Resize, uiVars
  <2>2. ClosesWidgets'
    BY <1>2, <2>1, TellLemma DEF IInv, ClosesWidgets
  <2> QED BY <2>1, <2>2 DEF IInv
<1> QED BY <1>3, <1>4, <1>5, <1>6, <1>7 DEF Turn

LEMMA MessageInv ==
  ASSUME IInv, MessageNext, UNCHANGED clientVars
  PROVE  IInv'
<1>1. ClientKnown'
  BY DEF IInv, ClientKnown, clientVars
<1>2. CASE CompositorIdle
  <2>1. Widgets(Event("lock", None))
    BY DEF Widgets, Event
  <2>2. ClosesWidgets'
    BY <1>2, <2>1, TellLemma DEF CompositorIdle, IInv
  <2>3. UNCHANGED <<screens, elem, user, lose, toServer>>
    BY <1>2 DEF CompositorIdle, outputVars, uiVars
  <2> QED BY <1>1, <2>2, <2>3 DEF IInv, ServerKnown, RequestsProper, LosersLive
<1>3. ASSUME NEW what \in Loss, LoseFocus(what) PROVE IInv'
  <2>1. UNCHANGED <<screens, toServer>>
    BY <1>3 DEF LoseFocus, outputVars
  <2> QED BY <1>1, <1>3, <2>1, LoseFocusInv DEF IInv, RequestsProper
<1> QED BY <1>2, <1>3 DEF MessageNext

LEMMA UserInv ==
  ASSUME IInv, UserNext, UNCHANGED serverVars
  PROVE  IInv'
<1>1. screens' \subseteq Output /\ ServerKnown' /\ LosersLive'
  BY DEF serverVars, IInv, ServerKnown, LosersLive
<1>2. ASSUME NEW w \in Widget, ClickPanel(w) PROVE IInv'
  BY <1>1, <1>2, ClickPanelInv DEF IInv, RequestsProper, ClosesWidgets
<1>3. ASSUME NEW i \in Slot, Supply, LaunchMenu(i, Fresh) PROVE IInv'
  <2>1. UNCHANGED toClient
    BY <1>3 DEF LaunchMenu
  <2> QED BY <1>1, <1>3, <2>1, LaunchMenuInv DEF IInv, ClosesWidgets
<1>4. CASE Enter
  BY <1>1, <1>4 DEF Enter, popupVars, IInv, ClientKnown, RequestsProper, ClosesWidgets
<1>5. CASE Exit
  <2>1. UNCHANGED <<toClient, toServer>>
    BY <1>5 DEF Exit, Crash
  <2> QED BY <1>1, <1>5, <2>1, CrashLemma DEF Exit, IInv, RequestsProper, ClosesWidgets
<1> QED BY <1>2, <1>3, <1>4, <1>5 DEF UserNext

LEMMA ClientInv ==
  ASSUME IInv, ClientNext, UNCHANGED serverVars
  PROVE  IInv'
<1>1. screens' \subseteq Output /\ ServerKnown' /\ LosersLive'
  BY DEF serverVars, IInv, ServerKnown, LosersLive
<1>2. CASE Supply /\ Dispatch(Fresh)
  BY <1>1, <1>2, DispatchInv DEF IInv
<1>3. CASE Supply /\ PanelLaunchWidget(Fresh)
  <2>1. UNCHANGED toClient
    BY <1>3 DEF PanelLaunchWidget
  <2> QED BY <1>1, <1>3, <2>1, PanelLaunchInv DEF IInv, ClosesWidgets
<1>4. ASSUME NEW b \in BOOLEAN, RunPam(b) PROVE IInv'
  <2>1. UNCHANGED toClient
    BY <1>4 DEF RunPam
  <2> QED BY <1>1, <1>4, <2>1, RunPamInv DEF IInv, ClosesWidgets
<1> QED BY <1>2, <1>3, <1>4 DEF ClientNext

LEMMA ServerInv ==
  ASSUME IInv, ServerNext
  PROVE  IInv'
<1>1. ClientKnown'
  BY DEF ServerNext, IInv, ClientKnown, clientVars
<1>2. CASE Bind
  <2>1. UNCHANGED <<screens, elem, user, lose, toServer>>
    BY <1>2 DEF Bind, outputVars, uiVars
  <2> QED BY <1>1, <1>2, <2>1, BindInv DEF IInv, ServerKnown, RequestsProper, LosersLive
<1>3. CASE Receive
  <2>1. UNCHANGED <<screens, toClient>>
    BY <1>3 DEF Receive, outputVars
  <2> QED BY <1>1, <1>3, <2>1, ReceiveInv DEF IInv, ClosesWidgets
<1>4. CASE RunIdle
  <2>1. UNCHANGED <<screens, elem, user, lose, toClient, toServer>>
    BY <1>4 DEF RunIdle, uiVars
  <2> QED BY <1>1, <2>1 DEF IInv, ServerKnown, RequestsProper, ClosesWidgets, LosersLive
<1>5. CASE Hangup
  <2>1. UNCHANGED screens
    BY <1>5 DEF Hangup, outputVars
  <2> QED BY <1>1, <1>5, <2>1, HangupInv DEF IInv
<1> QED BY <1>2, <1>3, <1>4, <1>5 DEF ServerNext

LEMMA InitInv == Init => IInv
<1> SUFFICES ASSUME Init PROVE IInv
  OBVIOUS
<1>1. screens \subseteq Output
  <2>1. PICK start \in Starts : screens = {start[k] : k \in 1..Len(start)}
    BY DEF Init, InitServer
  <2>2. start \in Seq(Output)
    BY StartsAssumption
  <2> QED BY <2>1, <2>2
<1>2. ServerKnown /\ LosersLive
  BY DEF Init, InitServer, ServerKnown, LosersLive
<1>3. ClientKnown
  BY DEF Init, InitClient, ClientKnown
<1>4. RequestsProper /\ ClosesWidgets
  BY ShortStreams DEF Init, RequestsProper, ClosesWidgets
<1> QED BY <1>1, <1>2, <1>3, <1>4 DEF IInv

LEMMA NextInv == IInv /\ [Next]_vars => IInv'
<1> SUFFICES ASSUME IInv, [Next]_vars PROVE IInv'
  OBVIOUS
<1>1. CASE Turn /\ UNCHANGED clientVars
  BY <1>1, TurnInv
<1>2. CASE MessageNext /\ UNCHANGED <<clientVars, turns>>
  BY <1>2, MessageInv
<1>3. CASE BindAgain /\ UNCHANGED <<clientVars, turns>>
  BY <1>3 DEF BindAgain, outputVars, uiVars, clientVars, IInv, ServerKnown, ClientKnown,
              RequestsProper, ClosesWidgets, LosersLive
<1>4. CASE UserNext /\ UNCHANGED <<serverVars, turns>>
  BY <1>4, UserInv
<1>5. CASE ClientNext /\ UNCHANGED <<serverVars, turns>>
  BY <1>5, ClientInv
<1>6. CASE ServerNext /\ UNCHANGED turns
  BY <1>6, ServerInv
<1>7. CASE UNCHANGED vars
  BY <1>7 DEF vars, serverVars, clientVars, IInv, ServerKnown, ClientKnown,
              RequestsProper, ClosesWidgets, LosersLive
<1> QED BY <1>1, <1>2, <1>3, <1>4, <1>5, <1>6, <1>7 DEF Next

(* Memory and objects, requests and events fit one another in every state. *)
THEOREM Invariance == Spec => []IInv
  BY InitInv, NextInv, PTL DEF Spec

(* A request to close that the client still acts on is about the widget    *)
(* that widget_should_close will close.                                    *)
THEOREM WidgetClosesItsOwn == Spec => []ClosesItsOwn
<1>1. IInv => ClosesItsOwn
  BY DEF IInv, ClosesWidgets, In, Widgets, ClientKnown, ClosesItsOwn
<1> QED BY <1>1, Invariance, PTL

(* The bindings that close a widget live no longer than its object.        *)
THEOREM LosersAreLive == Spec => []LosersLive
<1>1. IInv => LosersLive
  BY DEF IInv
<1> QED BY <1>1, Invariance, PTL

(***************************************************************************)
(* What is in flight                                                       *)
(***************************************************************************)

(* What a request does to the set of the objects that are there: an object  *)
(* is made once, of widgets and lockers there is one at a time, and only    *)
(* those are destroyed.                                                     *)
Lawful(S, r, T) ==
  \/ /\ r.type \in Kind /\ r.slot \in Slot
     /\ r.ui \in Ui /\ r.ui[1] = r.type /\ r.ui \notin S
     /\ r.type \in {"widget", "locker"} => \A u \in S : u[1] # r.type
     /\ T = S \cup {r.ui}
  \/ r.type = "commit" /\ r.ui \in S /\ T = S
  \/ /\ r.type = "destroy" /\ r.ui \in S /\ r.ui[1] \in {"widget", "locker"}
     /\ T = S \ {r.ui}

(* The requests q, one after the other, take S to T. *)
Leads(q, S, T) ==
  /\ IsStream(q)
  /\ \E f \in [0..Len(q) -> SUBSET Ui] :
       /\ f[0] = S /\ f[Len(q)] = T
       /\ \A k \in 1..Len(q) : Lawful(f[k - 1], q[k], f[k])

LEMMA LenOfStream == ASSUME NEW q, IsStream(q) PROVE Len(q) \in Nat
<1>1. PICK A : q \in Seq(A)
  BY DEF IsStream
<1> QED BY <1>1, LenProperties

LEMMA NoRequests ==
  ASSUME NEW S, NEW T
  PROVE  Leads(<<>>, S, T) <=> S = T /\ S \in SUBSET Ui
<1>1. Len(<<>>) = 0 /\ IsStream(<<>>)
  BY ShortStreams
<1>2. ASSUME Leads(<<>>, S, T) PROVE S = T /\ S \in SUBSET Ui
  BY <1>1, <1>2 DEF Leads
<1>3. ASSUME S = T, S \in SUBSET Ui PROVE Leads(<<>>, S, T)
  <2> DEFINE f == [k \in 0..0 |-> S]
  <2>1. f \in [0..0 -> SUBSET Ui] /\ f[0] = S
    BY <1>3
  <2> HIDE DEF f
  <2>2. \A k \in 1..0 : FALSE
    OBVIOUS
  <2> QED BY <1>1, <1>3, <2>1, <2>2 DEF Leads
<1> QED BY <1>2, <1>3

LEMMA OneRequest ==
  ASSUME NEW r, NEW S \in SUBSET Ui, NEW T \in SUBSET Ui, Lawful(S, r, T)
  PROVE  Leads(<<r>>, S, T)
<1> DEFINE f == [k \in 0..1 |-> IF k = 0 THEN S ELSE T]
<1>1. Len(<<r>>) = 1 /\ <<r>>[1] = r /\ IsStream(<<r>>)
  BY ShortStreams
<1>2. f \in [0..1 -> SUBSET Ui] /\ f[0] = S /\ f[1] = T
  OBVIOUS
<1> HIDE DEF f
<1>3. \A k \in 1..1 : k = 1
  OBVIOUS
<1>4. 1 - 1 = 0
  OBVIOUS
<1>5. \A k \in 1..1 : Lawful(f[k - 1], <<r>>[k], f[k])
  BY <1>1, <1>2, <1>3, <1>4
<1> QED BY <1>1, <1>2, <1>5 DEF Leads

LEMMA MoreRequests ==
  ASSUME NEW q, NEW r, NEW S, NEW T, NEW U, Leads(q, S, T), Leads(r, T, U)
  PROVE  Leads(q \o r, S, U)
<1> DEFINE m == Len(q)
           n == Len(r)
<1>1. IsStream(q) /\ IsStream(r) /\ m \in Nat /\ n \in Nat
  BY LenOfStream DEF Leads
<1>2. IsStream(q \o r) /\ Len(q \o r) = m + n
      /\ \A k \in 1..m + n : (q \o r)[k] = IF k <= m THEN q[k] ELSE r[k - m]
  <2>1. PICK A : q \in Seq(A)
    BY <1>1 DEF IsStream
  <2>2. PICK B : r \in Seq(B)
    BY <1>1 DEF IsStream
  <2>3. A \subseteq A \cup B /\ B \subseteq A \cup B
    OBVIOUS
  <2>4. q \in Seq(A \cup B) /\ r \in Seq(A \cup B)
    BY <2>1, <2>2, <2>3, SeqMonotonic
  <2> QED BY <1>1, <2>4, ConcatProperties, JoinedStreams
<1>3. PICK f \in [0..m -> SUBSET Ui] :
        f[0] = S /\ f[m] = T /\ \A k \in 1..m : Lawful(f[k - 1], q[k], f[k])
  BY DEF Leads
<1>4. PICK g \in [0..n -> SUBSET Ui] :
        g[0] = T /\ g[n] = U /\ \A k \in 1..n : Lawful(g[k - 1], r[k], g[k])
  BY DEF Leads
<1> DEFINE h == [k \in 0..m + n |-> IF k <= m THEN f[k] ELSE g[k - m]]
<1> HIDE DEF m, n
<1>5. h \in [0..m + n -> SUBSET Ui]
  <2>1. \A k \in 0..m + n : IF k <= m THEN k \in 0..m ELSE k - m \in 0..n
    BY <1>1
  <2> QED BY <1>3, <1>4, <2>1
<1>6. h[0] = S
  BY <1>1, <1>3
<1>7. h[m + n] = U
  <2>1. CASE n = 0
    <3>1. m + n = m /\ m + n \in 0..m + n /\ m + n <= m
      BY <1>1, <2>1
    <3>2. h[m + n] = f[m]
      BY <3>1
    <3> QED BY <1>3, <1>4, <2>1, <3>2
  <2>2. CASE n # 0
    <3>1. m + n \in 0..m + n /\ ~(m + n <= m) /\ (m + n) - m = n
      BY <1>1, <2>2
    <3> QED BY <1>4, <3>1
  <2> QED BY <2>1, <2>2
<1>8. ASSUME NEW k \in 1..m + n PROVE Lawful(h[k - 1], (q \o r)[k], h[k])
  <2>1. CASE k <= m
    <3>1. k \in 1..m /\ k \in 0..m + n /\ k - 1 \in 0..m + n /\ k - 1 <= m
      BY <1>1, <2>1
    <3>2. h[k] = f[k] /\ h[k - 1] = f[k - 1] /\ (q \o r)[k] = q[k]
      BY <1>2, <2>1, <3>1
    <3>3. Lawful(f[k - 1], q[k], f[k])
      BY <1>3, <3>1
    <3> QED BY <3>2, <3>3
  <2>2. CASE ~(k <= m)
    <3> DEFINE j == k - m
    <3>1. /\ j \in 1..n /\ k \in 0..m + n /\ k - 1 \in 0..m + n /\ (k - 1) - m = j - 1
          /\ (k - 1 <= m => k - 1 = m /\ j - 1 = 0)
      BY <1>1, <2>2
    <3>2. h[k] = g[j] /\ (q \o r)[k] = r[j]
      BY <1>2, <2>2, <3>1
    <3>3. h[k - 1] = g[j - 1]
      <4>1. CASE k - 1 <= m
        <5>1. h[k - 1] = f[m] /\ g[j - 1] = g[0]
          BY <3>1, <4>1
        <5> QED BY <1>3, <1>4, <5>1
      <4>2. CASE ~(k - 1 <= m)
        BY <3>1, <4>2
      <4> QED BY <4>1, <4>2
    <3>4. Lawful(g[j - 1], r[j], g[j])
      BY <1>4, <3>1
    <3> QED BY <3>2, <3>3, <3>4
  <2> QED BY <2>1, <2>2
<1> HIDE DEF h
<1> QED BY <1>2, <1>5, <1>6, <1>7, <1>8 DEF Leads

LEMMA FirstRequest ==
  ASSUME NEW q, NEW S, NEW U, Leads(q, S, U), q # <<>>
  PROVE  \E T \in SUBSET Ui : Lawful(S, Head(q), T) /\ Leads(Tail(q), T, U)
<1> DEFINE n == Len(q)
<1>1. IsStream(q) /\ n \in Nat /\ n # 0 /\ IsStream(Tail(q)) /\ Len(Tail(q)) = n - 1
      /\ Head(q) = q[1] /\ \A k \in 1..n - 1 : Tail(q)[k] = q[k + 1]
  <2>1. PICK A : q \in Seq(A)
    BY DEF Leads, IsStream
  <2>2. IsStream(q) /\ IsStream(Tail(q))
    BY RestOfStream DEF Leads
  <2> QED BY <2>1, <2>2
<1>2. PICK f \in [0..n -> SUBSET Ui] :
        f[0] = S /\ f[n] = U /\ \A k \in 1..n : Lawful(f[k - 1], q[k], f[k])
  BY DEF Leads
<1> HIDE DEF n
<1>3. 1 \in 1..n /\ 1 \in 0..n /\ 1 - 1 = 0
  BY <1>1
<1>4. f[1] \in SUBSET Ui /\ Lawful(S, Head(q), f[1])
  BY <1>1, <1>2, <1>3
<1> DEFINE g == [k \in 0..n - 1 |-> f[k + 1]]
<1>5. g \in [0..n - 1 -> SUBSET Ui]
  <2>1. \A k \in 0..n - 1 : k + 1 \in 0..n
    BY <1>1
  <2> QED BY <1>2, <2>1
<1>6. g[0] = f[1] /\ g[n - 1] = U
  <2>1. 0 \in 0..n - 1 /\ n - 1 \in 0..n - 1 /\ (n - 1) + 1 = n
    BY <1>1
  <2> QED BY <1>2, <2>1
<1>7. ASSUME NEW k \in 1..n - 1 PROVE Lawful(g[k - 1], Tail(q)[k], g[k])
  <2>1. k + 1 \in 1..n /\ (k + 1) - 1 = k /\ (k - 1) + 1 = k /\ k \in 0..n - 1 /\ k - 1 \in 0..n - 1
    BY <1>1
  <2>2. Lawful(f[(k + 1) - 1], q[k + 1], f[k + 1])
    BY <1>2, <2>1
  <2>3. g[k - 1] = f[k] /\ g[k] = f[k + 1]
    BY <2>1
  <2> QED BY <1>1, <2>1, <2>2, <2>3
<1> HIDE DEF g
<1>8. Leads(Tail(q), f[1], U)
  BY <1>1, <1>5, <1>6, <1>7 DEF Leads
<1> QED BY <1>4, <1>8

(***************************************************************************)
(* The second invariant                                                    *)
(***************************************************************************)

Alive == {u \in Ui : user[u] # None}

(* What is on its way to the compositor makes its objects those of the     *)
(* client, one request after the other.                                    *)
RequestsLead ==
  \E T \in SUBSET Ui : Leads(toServer, Alive, T) /\ (running => T = proxies)

ElementType == [shell : BOOLEAN, resource : Ui \cup {None}, output : Output \cup {None}]

(* The widget and the locker have one object at most, which they name.     *)
Sole(e) ==
  /\ \A u \in Ui : user[u] = e => elem[e].resource = u
  /\ elem[e].resource # None => user[elem[e].resource] = e

ElementsKnown ==
  /\ elem \in [Elem -> ElementType] /\ user \in [Ui -> Elem \cup {None}]
  /\ \A u \in Alive : user[u][1] = u[1] /\ elem[user[u]].resource # None
  /\ Sole(TheWidget) /\ Sole(TheLocker)

(* A screen is in one slot at most. *)
Part == {"whole", "below", "above"}
SlotsKnown ==
  /\ slot \in [Slot -> Output \cup {None}] /\ height \in [Slot -> BOOLEAN]
  /\ area \in [Output -> Part] /\ moved \subseteq Output /\ idle \in Seq(Slot)
  /\ \A i \in Slot : slot[i] # None => slot[i] \in screens
  /\ \A i, j \in Slot : slot[i] # None /\ slot[i] = slot[j] => i = j

(* A height is that of a panel. *)
HeightsKnown ==
  shell # "freed" => \A i \in Slot : height[i] => elem[PanelOf(i)].resource # None

SpaceTold ==
  ~fault /\ shell # "freed" =>
    \A i \in Slot : slot[i] # None => Heard(i) \/ In(i, idle)

ServerHalf ==
  screens \subseteq Output /\ ElementsKnown /\ SlotsKnown /\ HeightsKnown /\ SpaceTold

(* The client's records are of objects it has, of their kinds.  No locker   *)
(* and no widget is without a record, and where there is a background the  *)
(* first panel was made.                                                   *)
ClientHalf ==
  running =>
    /\ proxies \subseteq Ui /\ background \in [Slot -> Ui \cup {None}] /\ at \in Slot
    /\ current # None => proxy[current] \in proxies /\ proxy[current][1] = "widget"
    /\ transient # None => transient \in proxies /\ transient[1] = "locker"
    /\ \A u \in proxies : u[1] = "locker" => u = transient
    /\ panel # None => panel \in proxies /\ panel[1] = "panel"
    /\ \A i \in Slot : background[i] # None =>
         background[i] \in proxies /\ background[i][1] = "background"
    /\ background[0] # None => panel # None

(* Is the client with backgrounds bg told of slot i by the first n events  *)
(* of q, or was it?                                                        *)
Told(bg, q, i, n) == bg[i] # None \/ \E k \in 1..n : q[k] = Event("connected", i)

(* It is told of every screen s has, and of no other's change.  Before it  *)
(* binds the shell it is to be told of none.                               *)
Announced(s, bg, q) ==
  /\ IsStream(q)
  /\ \A i \in Slot : s[i] # None => Told(bg, q, i, Len(q))
  /\ \A k \in 1..Len(q) :
       /\ q[k].type = "connected" => q[k].arg \in Slot \cup {Beyond}
       /\ q[k].type = "change" => q[k].arg \in Slot /\ Told(bg, q, q[k].arg, k - 1)
Shown == IF shell = "bound" THEN slot ELSE [i \in Slot |-> None]
ScreensAnnounced == running => Announced(Shown, background, toClient)

(* The last the client hears of the panel's place is where it is.          *)
Decided(known, q, place) ==
  \/ known = place /\ \A k \in 1..Len(q) : q[k].type # "panel_pos"
  \/ \E k \in 1..Len(q) :
       /\ q[k].type = "panel_pos" /\ q[k].arg = place
       /\ \A j \in 1..Len(q) : k < j => q[j].type # "panel_pos"
PlaceAnnounced == shell = "bound" /\ running => Decided(clientTop, toClient, top)

SInv == ServerHalf /\ ClientHalf /\ RequestsLead /\ ScreensAnnounced /\ PlaceAnnounced

(***************************************************************************)
(* Elements and slots                                                      *)
(***************************************************************************)
LEMMA Elements ==
  /\ \A i \in Slot : /\ PanelOf(i) \in Elem /\ BackgroundOf(i) \in Elem
                     /\ PanelOf(i)[1] = "panel" /\ PanelOf(i)[2] = i
                     /\ BackgroundOf(i)[1] = "background"
  /\ TheWidget \in Elem /\ TheWidget[1] = "widget"
  /\ TheLocker \in Elem /\ TheLocker[1] = "locker"
  /\ \A e \in Elem : /\ e[1] = "widget" => e = TheWidget
                     /\ e[1] = "locker" => e = TheLocker
                     /\ e[1] = "panel" => e[2] \in Slot /\ e = PanelOf(e[2])
                     /\ e # None
<1>1. \A e \in Elem : e # None
  BY ElementAssumption
<1>2. ASSUME NEW e \in {"panel", "background"} \X Slot
      PROVE  /\ e[1] = "panel" => e[2] \in Slot /\ e = PanelOf(e[2])
             /\ e[1] \notin {"widget", "locker"}
  BY DEF PanelOf
<1> QED BY <1>1, <1>2 DEF Elem, PanelOf, BackgroundOf, TheWidget, TheLocker

LEMMA Holes ==
  /\ NOutputs \in Slot \cup {Slots}
  /\ NOutputs \in Slot => slot[NOutputs] = None
<1> DEFINE S == {i \in Slot : slot[i] = None} \cup {Slots}
<1>1. S \subseteq Nat /\ S # {} /\ Slots \notin Slot
  BY ShellAssumption DEF Slot
<1>2. Least(S) \in S
  <2> HIDE DEF S
  <2> QED BY <1>1, LeastLemma
<1> QED BY <1>1, <1>2 DEF NOutputs

LEMMA SlotOf ==
  ASSUME SlotsKnown, NEW o \in Output
  PROVE  /\ IthOutput(o) < 0 => \A i \in Slot : slot[i] # o
         /\ ~(IthOutput(o) < 0) => /\ IthOutput(o) \in Slot /\ slot[IthOutput(o)] = o
                                   /\ \A i \in Slot : slot[i] = o => i = IthOutput(o)
<1> DEFINE S == {i \in Slot : slot[i] = o}
<1>1. o # None
  BY ShellAssumption
<1>2. CASE S = {}
  BY <1>2 DEF IthOutput
<1>3. CASE S # {}
  <2>1. S \subseteq Nat
    BY ShellAssumption DEF Slot
  <2>2. Least(S) \in S
    <3> HIDE DEF S
    <3> QED BY <1>3, <2>1, LeastLemma
  <2>3. IthOutput(o) = Least(S)
    BY <1>3 DEF IthOutput
  <2>4. IthOutput(o) \in Nat /\ IthOutput(o) \in Slot /\ slot[IthOutput(o)] = o
    BY <2>1, <2>2, <2>3
  <2> QED BY <1>1, <2>4 DEF SlotsKnown
<1> QED BY <1>2, <1>3

(* The memory e is used for a new object: those of the other elements stay  *)
(* as they are.                                                            *)
LEMMA CreateHalf ==
  ASSUME ServerHalf, NEW e \in Elem, NEW u \in Ui, u \notin Alive, u[1] = e[1],
         NEW o \in Output \cup {None}, CreateElement(e, u, o),
         e[1] \in {"widget", "locker"} => \A v \in Alive : v[1] # e[1],
         UNCHANGED outputVars, UNCHANGED shell
  PROVE  ServerHalf' /\ Alive' = Alive \cup {u}
<1> DEFINE r == [shell |-> TRUE, resource |-> u, output |-> o]
<1>1. /\ elem' = [elem EXCEPT ![e] = r]
      /\ user' = [user EXCEPT ![u] = e]
      /\ UNCHANGED <<height, idle, fault, screens, slot, area, moved, top, shell>>
  BY DEF CreateElement, outputVars
<1>2. r \in ElementType /\ r.resource = u /\ u # None /\ e # None
  BY ShellAssumption, Elements DEF ElementType
<1> HIDE DEF r
<1>3. elem' \in [Elem -> ElementType] /\ user' \in [Ui -> Elem \cup {None}]
  BY <1>1, <1>2 DEF ServerHalf, ElementsKnown
<1>4. \A d \in Elem : elem'[d] = IF d = e THEN r ELSE elem[d]
  BY <1>1 DEF ServerHalf, ElementsKnown
<1>5. \A v \in Ui : user'[v] = IF v = u THEN e ELSE user[v]
  BY <1>1 DEF ServerHalf, ElementsKnown
<1>6. Alive' = Alive \cup {u}
  BY <1>2, <1>5 DEF Alive
<1>7. ASSUME NEW v \in Alive'
      PROVE  user'[v][1] = v[1] /\ elem'[user'[v]].resource # None
  <2>1. CASE v = u
    BY <1>2, <1>4, <1>5, <2>1
  <2>2. CASE v # u
    <3>1. v \in Alive /\ user'[v] = user[v] /\ user[v] \in Elem
      BY <1>5, <1>6, <2>2 DEF Alive, ServerHalf, ElementsKnown
    <3>2. user[v][1] = v[1] /\ elem[user[v]].resource # None
      BY <3>1 DEF ServerHalf, ElementsKnown
    <3> QED BY <1>2, <1>4, <3>1, <3>2
  <2> QED BY <2>1, <2>2
<1>8. ASSUME NEW d \in {TheWidget, TheLocker}, Sole(d)
      PROVE  Sole(d)'
  <2>1. d \in Elem /\ d[1] \in {"widget", "locker"} /\ d # None
    BY Elements
  <2>2. CASE d = e
    <3>1. \A v \in Ui : user[v] # d
      <4> SUFFICES ASSUME NEW v \in Ui, user[v] = d PROVE FALSE
        OBVIOUS
      <4>1. v \in Alive /\ v[1] = d[1]
        BY <2>1 DEF Alive, ServerHalf, ElementsKnown
      <4> QED BY <2>1, <2>2, <4>1
    <3>2. elem'[d].resource = u /\ user'[u] = d /\ \A v \in Ui : user'[v] = d => v = u
      BY <1>2, <1>4, <1>5, <2>2, <3>1
    <3> QED BY <3>2 DEF Sole
  <2>3. CASE d # e
    <3>1. elem'[d] = elem[d] /\ elem[d].resource \in Ui \cup {None}
      BY <1>4, <2>1, <2>3 DEF ServerHalf, ElementsKnown, ElementType
    <3>2. \A v \in Ui : user'[v] = d <=> user[v] = d
      BY <1>5, <2>1, <2>3 DEF Alive
    <3> QED BY <1>8, <3>1, <3>2 DEF Sole
  <2> QED BY <2>2, <2>3
<1>9. ElementsKnown'
  BY <1>3, <1>7, <1>8 DEF ServerHalf, ElementsKnown
<1>10. ASSUME NEW i \in Slot, shell # "freed", height[i]
       PROVE  elem[PanelOf(i)].resource # None /\ elem'[PanelOf(i)].resource # None
  BY <1>2, <1>4, <1>10, Elements DEF ServerHalf, HeightsKnown
<1>11. HeightsKnown'
  BY <1>1, <1>10 DEF HeightsKnown
<1>12. ASSUME shell # "freed", NEW i \in Slot PROVE Space(i)' = Space(i)
  <2>1. CASE height[i]
    BY <1>1, <1>10, <1>12, <2>1 DEF Space
  <2>2. CASE ~height[i]
    BY <1>1, <2>2 DEF Space
  <2> QED BY <2>1, <2>2
<1>13. SpaceTold'
  BY <1>1, <1>12 DEF ServerHalf, SpaceTold, Heard
<1> QED BY <1>1, <1>6, <1>9, <1>11, <1>13 DEF ServerHalf, SlotsKnown

LEMMA CommitHalf ==
  ASSUME ServerHalf, ~fault, NEW u \in Alive, Commit(u), UNCHANGED outputVars, UNCHANGED shell
  PROVE  ServerHalf' /\ Alive' = Alive
<1> DEFINE e == user[u]
           grows == e[1] = "panel" /\ ~height[e[2]]
<1>1. /\ height' = IF grows THEN [height EXCEPT ![e[2]] = TRUE] ELSE height
      /\ idle' = IF grows THEN Append(idle, e[2]) ELSE idle
      /\ UNCHANGED <<elem, user, screens, slot, area, moved, top, shell>>
  BY DEF Commit, outputVars
<1>2. e \in Elem /\ elem[e].resource # None
  BY DEF Alive, ServerHalf, ElementsKnown
<1>3. grows => e[2] \in Slot /\ e = PanelOf(e[2])
  BY <1>2, Elements
<1> HIDE DEF e
<1>4. CASE grows
  <2> DEFINE n == e[2]
  <2>1. n \in Slot /\ elem[PanelOf(n)].resource # None
    BY <1>2, <1>3, <1>4
  <2> HIDE DEF n
  <2>2. idle \in Seq(Slot) /\ height' = [height EXCEPT ![n] = TRUE] /\ idle' = Append(idle, n)
    BY <1>1, <1>4 DEF ServerHalf, SlotsKnown, n
  <2>3. idle' \in Seq(Slot) /\ In(n, idle') /\ \A i : In(i, idle) => In(i, idle')
    <3>1. /\ idle' \in Seq(Slot) /\ Len(idle') = Len(idle) + 1 /\ idle'[Len(idle) + 1] = n
          /\ \A k \in 1..Len(idle) : idle'[k] = idle[k]
          /\ Len(idle) \in Nat
      BY <2>1, <2>2
    <3>2. Len(idle) + 1 \in 1..Len(idle') /\ \A k \in 1..Len(idle) : k \in 1..Len(idle')
      BY <3>1
    <3> QED BY <3>1, <3>2 DEF In
  <2>4. height' \in [Slot -> BOOLEAN] /\ \A i \in Slot : i # n => height'[i] = height[i]
    BY <2>1, <2>2 DEF ServerHalf, SlotsKnown
  <2>5. SlotsKnown'
    BY <1>1, <2>3, <2>4 DEF ServerHalf, SlotsKnown
  <2>6. HeightsKnown'
    BY <1>1, <2>1, <2>4 DEF ServerHalf, HeightsKnown
  <2>7. \A i \in Slot : i # n => Space(i)' = Space(i)
    BY <1>1, <2>4 DEF Space
  <2>8. SpaceTold'
    BY <1>1, <2>3, <2>7 DEF ServerHalf, SpaceTold, Heard
  <2>9. ElementsKnown' /\ Alive' = Alive
    BY <1>1 DEF ServerHalf, ElementsKnown, Sole, Alive
  <2> QED BY <1>1, <2>5, <2>6, <2>8, <2>9 DEF ServerHalf
<1>5. CASE ~grows
  <2>1. UNCHANGED <<height, idle>>
    BY <1>1, <1>5
  <2>2. ElementsKnown' /\ Alive' = Alive
    BY <1>1 DEF ServerHalf, ElementsKnown, Sole, Alive
  <2>3. SlotsKnown' /\ HeightsKnown'
    BY <1>1, <2>1 DEF ServerHalf, SlotsKnown, HeightsKnown
  <2>4. SpaceTold'
    BY <1>1, <2>1 DEF ServerHalf, SpaceTold, Heard, Space
  <2> QED BY <1>1, <2>2, <2>3, <2>4 DEF ServerHalf
<1> QED BY <1>4, <1>5

(* The end of a widget or of the locker leaves the slots alone. *)
LEMMA DestroyHalf ==
  ASSUME ServerHalf, NEW u \in Alive, u[1] \in {"widget", "locker"}, ~fault, Unbind({u}),
         UNCHANGED outputVars, UNCHANGED shell
  PROVE  ServerHalf' /\ Alive' = Alive \ {u}
<1> DEFINE e == user[u]
           of == {user[v] : v \in {u}}
           closed == {i \in Slot : PanelOf(i) \in of /\ Placed(PanelOf(i))}
<1>1. /\ elem' = [d \in Elem |-> IF d \notin of THEN elem[d]
                                 ELSE IF Placed(d) THEN Cleared
                                 ELSE [elem[d] EXCEPT !.resource = None]]
      /\ user' = [v \in Ui |-> IF v \in {u} THEN None ELSE user[v]]
      /\ height' = [i \in Slot |-> height[i] /\ i \notin closed]
      /\ idle' = idle \o InOrder(closed)
      /\ UNCHANGED <<screens, slot, area, moved, top, shell>>
  BY DEF Unbind, outputVars
<1>2. e \in Elem /\ e[1] = u[1] /\ e \in {TheWidget, TheLocker} /\ e # None
  BY Elements DEF Alive, ServerHalf, ElementsKnown
<1>3. elem[e].resource = u /\ Sole(e)
  BY <1>2 DEF Alive, ServerHalf, ElementsKnown, Sole
<1>4. of = {e} /\ ~Placed(e) /\ \A i \in Slot : PanelOf(i) # e
  BY <1>2, Elements DEF Placed
<1>5. closed = {}
  BY <1>4
<1>6. idle' \in Seq(Slot) /\ \A i : In(i, idle) => In(i, idle')
  <2>1. {} \in SUBSET Slot /\ Cardinality({}) = 0
    BY FS_EmptySet
  <2>2. InOrder({}) \in Seq({}) /\ Len(InOrder({})) = 0
    BY <2>1, InOrderLemma
  <2>3. InOrder({}) = <<>>
    BY <2>2
  <2>4. idle' = idle
    BY <1>1, <1>5, <2>3, ConcatEmptySeq DEF ServerHalf, SlotsKnown
  <2> QED BY <2>4 DEF ServerHalf, SlotsKnown
<1>7. height' = height
  BY <1>1, <1>5 DEF ServerHalf, SlotsKnown
<1> HIDE DEF e, of, closed
<1>8. /\ \A d \in Elem : d # e => elem'[d] = elem[d]
      /\ elem'[e] = [elem[e] EXCEPT !.resource = None]
  BY <1>1, <1>2, <1>4
<1>9. elem' \in [Elem -> ElementType] /\ elem'[e].resource = None
  <2>1. elem[e] \in ElementType
    BY <1>2 DEF ServerHalf, ElementsKnown
  <2>2. elem'[e] \in ElementType /\ elem'[e].resource = None
    BY <1>8, <2>1 DEF ElementType
  <2>3. \A d \in Elem : elem'[d] \in ElementType
    BY <1>8, <2>2 DEF ServerHalf, ElementsKnown
  <2> QED BY <1>1, <2>2, <2>3
<1>10. user' \in [Ui -> Elem \cup {None}] /\ \A v \in Ui : user'[v] = IF v = u THEN None ELSE user[v]
  BY <1>1 DEF ServerHalf, ElementsKnown
<1>11. Alive' = Alive \ {u}
  BY <1>10 DEF Alive
<1>12. ASSUME NEW v \in Alive'
       PROVE  user'[v][1] = v[1] /\ elem'[user'[v]].resource # None
  <2>1. v \in Alive /\ v # u /\ v \in Ui /\ user'[v] = user[v]
    BY <1>10, <1>11 DEF Alive
  <2>2. user[v] # e
    BY <1>3, <2>1 DEF Sole
  <2>3. user[v] \in Elem /\ user[v][1] = v[1] /\ elem[user[v]].resource # None
    BY <2>1 DEF Alive, ServerHalf, ElementsKnown
  <2> QED BY <1>8, <2>1, <2>2, <2>3
<1>13. ASSUME NEW d \in {TheWidget, TheLocker}, Sole(d)
       PROVE  Sole(d)'
  <2>1. d \in Elem /\ d # None
    BY Elements
  <2>2. CASE d = e
    <3>1. \A v \in Ui : user'[v] # d
      BY <1>3, <1>10, <2>1, <2>2 DEF Sole
    <3> QED BY <1>9, <2>2, <3>1 DEF Sole
  <2>3. CASE d # e
    <3>1. elem'[d] = elem[d] /\ elem[d].resource \in Ui \cup {None}
      BY <1>8, <2>1, <2>3 DEF ServerHalf, ElementsKnown, ElementType
    <3>2. user[u] # d
      BY <2>3 DEF e
    <3>3. \A v \in Ui : user'[v] = d <=> user[v] = d
      BY <1>10, <2>1, <3>2
    <3> QED BY <1>13, <3>1, <3>3 DEF Sole
  <2> QED BY <2>2, <2>3
<1>14. ElementsKnown'
  BY <1>9, <1>10, <1>12, <1>13 DEF ServerHalf, ElementsKnown
<1>15. \A i \in Slot : elem'[PanelOf(i)] = elem[PanelOf(i)]
  BY <1>4, <1>8, Elements
<1>16. HeightsKnown' /\ \A i \in Slot : Space(i)' = Space(i)
  BY <1>1, <1>7, <1>15 DEF ServerHalf, HeightsKnown, Space
<1>17. SpaceTold'
  BY <1>1, <1>6, <1>16 DEF ServerHalf, SpaceTold, Heard
<1>18. SlotsKnown'
  BY <1>1, <1>6, <1>7 DEF ServerHalf, SlotsKnown
<1> QED BY <1>1, <1>11, <1>14, <1>16, <1>17, <1>18 DEF ServerHalf

LEMMA ReceiveHalf ==
  ASSUME ServerHalf, ~fault, RequestsLead, Receive, UNCHANGED clientVars
  PROVE  ServerHalf' /\ RequestsLead'
<1> DEFINE r == Head(toServer)
<1>1. toServer # <<>> /\ toServer' = Tail(toServer) /\ UNCHANGED <<outputVars, shell>>
      /\ UNCHANGED <<running, proxies>>
  BY DEF Receive, clientVars
<1>2. PICK U \in SUBSET Ui : Leads(toServer, Alive, U) /\ (running => U = proxies)
  BY DEF RequestsLead
<1>3. PICK T \in SUBSET Ui : Lawful(Alive, r, T) /\ Leads(toServer', T, U)
  BY <1>1, <1>2, FirstRequest
<1> SUFFICES ServerHalf' /\ Alive' = T
  BY <1>1, <1>2, <1>3 DEF RequestsLead
<1>4. \A i \in Slot : slot[i] \in Output \cup {None}
  BY DEF ServerHalf, SlotsKnown
<1>5. 0 \in Slot
  BY ShellAssumption DEF Slot
<1>6. CASE r.type = "panel" /\ CreatePanel(r.ui, r.slot)
  <2>1. /\ r.ui \in Ui /\ r.ui[1] = "panel" /\ r.ui \notin Alive /\ r.slot \in Slot
        /\ T = Alive \cup {r.ui}
    BY <1>3, <1>6 DEF Lawful
  <2>2. PanelOf(r.slot) \in Elem /\ PanelOf(r.slot)[1] = "panel"
    BY <2>1, Elements
  <2>3. CreateElement(PanelOf(r.slot), r.ui, slot[r.slot])
    BY <1>6 DEF CreatePanel
  <2> QED BY <1>1, <1>4, <2>1, <2>2, <2>3, CreateHalf
<1>7. CASE r.type = "background" /\ CreateBackground(r.ui, r.slot)
  <2>1. /\ r.ui \in Ui /\ r.ui[1] = "background" /\ r.ui \notin Alive /\ r.slot \in Slot
        /\ T = Alive \cup {r.ui}
    BY <1>3, <1>7 DEF Lawful
  <2>2. BackgroundOf(r.slot) \in Elem /\ BackgroundOf(r.slot)[1] = "background"
    BY <2>1, Elements
  <2>3. CreateElement(BackgroundOf(r.slot), r.ui, slot[r.slot])
    BY <1>7 DEF CreateBackground
  <2> QED BY <1>1, <1>4, <2>1, <2>2, <2>3, CreateHalf
<1>8. CASE r.type = "widget" /\ LaunchWidget(r.ui, r.slot)
  <2>1. /\ r.ui \in Ui /\ r.ui[1] = "widget" /\ r.ui \notin Alive
        /\ \A v \in Alive : v[1] # "widget"
        /\ r.slot \in Slot /\ T = Alive \cup {r.ui}
    BY <1>3, <1>8 DEF Lawful
  <2>2. CreateElement(TheWidget, r.ui, slot[r.slot])
    BY <1>8 DEF LaunchWidget
  <2>3. slot[r.slot] \in Output \cup {None}
    BY <1>4, <2>1
  <2> QED BY <1>1, <2>1, <2>2, <2>3, Elements, CreateHalf
<1>9. CASE r.type = "locker" /\ CreateLocker(r.ui)
  <2>1. /\ r.ui \in Ui /\ r.ui[1] = "locker" /\ r.ui \notin Alive
        /\ \A v \in Alive : v[1] # "locker"
        /\ T = Alive \cup {r.ui}
    BY <1>3, <1>9 DEF Lawful
  <2>2. CreateElement(TheLocker, r.ui, slot[0])
    BY <1>9 DEF CreateLocker
  <2> QED BY <1>1, <1>4, <1>5, <2>1, <2>2, Elements, CreateHalf
<1>10. CASE r.type = "commit" /\ Commit(r.ui)
  <2>1. r.ui \in Alive /\ T = Alive
    BY <1>3, <1>10 DEF Lawful, Kind
  <2> QED BY <1>1, <1>10, <2>1, CommitHalf
<1>11. CASE r.type = "destroy" /\ Unbind({r.ui})
  <2>1. r.ui \in Alive /\ r.ui[1] \in {"widget", "locker"} /\ T = Alive \ {r.ui}
    BY <1>3, <1>11 DEF Lawful, Kind
  <2> QED BY <1>1, <1>11, <2>1, DestroyHalf
<1> QED BY <1>6, <1>7, <1>8, <1>9, <1>10, <1>11 DEF Receive

(* The client's end takes all objects with it. *)
LEMMA HangupHalf ==
  ASSUME ServerHalf, ~running, Hangup, UNCHANGED clientVars
  PROVE  ServerHalf' /\ RequestsLead'
<1> DEFINE us == {u \in Ui : user[u] # None}
           of == {user[u] : u \in us}
           closed == {i \in Slot : PanelOf(i) \in of /\ Placed(PanelOf(i))}
<1>1. /\ elem' = [e \in Elem |-> IF e \notin of THEN elem[e]
                                 ELSE IF Placed(e) THEN Cleared
                                 ELSE [elem[e] EXCEPT !.resource = None]]
      /\ user' = [u \in Ui |-> IF u \in us THEN None ELSE user[u]]
      /\ height' = [i \in Slot |-> height[i] /\ i \notin closed]
      /\ idle' = idle \o InOrder(closed)
      /\ shell' = "freed" /\ toServer' = <<>>
      /\ UNCHANGED <<screens, slot, area, moved, running>>
  BY DEF Hangup, Unbind, outputVars, clientVars
<1>2. idle' \in Seq(Slot)
  <2>1. closed \in SUBSET Slot
    OBVIOUS
  <2> HIDE DEF closed
  <2>2. InOrder(closed) \in Seq(Slot)
    BY <2>1, InOrderLemma, SeqMonotonic
  <2> QED BY <1>1, <2>2, ConcatProperties DEF ServerHalf, SlotsKnown
<1>3. height' \in [Slot -> BOOLEAN]
  BY <1>1 DEF ServerHalf, SlotsKnown
<1>4. \A u \in Ui : user'[u] = None
  BY <1>1 DEF ServerHalf, ElementsKnown
<1>5. Alive' = {}
  BY <1>4 DEF Alive
<1>6. ASSUME NEW e \in Elem
      PROVE  /\ elem'[e] \in ElementType
             /\ e \in of => elem'[e].resource = None
             /\ e \notin of => elem'[e] = elem[e]
  <2>1. elem[e] \in ElementType /\ Cleared \in ElementType /\ Cleared.resource = None
    BY DEF ServerHalf, ElementsKnown, ElementType, Cleared
  <2>2. [elem[e] EXCEPT !.resource = None] \in ElementType
        /\ [elem[e] EXCEPT !.resource = None].resource = None
    BY <2>1 DEF ElementType
  <2> HIDE DEF of
  <2> QED BY <1>1, <2>1, <2>2
<1>7. ASSUME NEW d \in {TheWidget, TheLocker}, Sole(d)
      PROVE  Sole(d)'
  <2>1. d \in Elem /\ d # None
    BY Elements
  <2>2. d \notin of => elem[d].resource = None
    <3>1. elem[d].resource \in Ui \cup {None}
      BY <2>1 DEF ServerHalf, ElementsKnown, ElementType
    <3> QED BY <1>7, <2>1, <3>1 DEF Sole
  <2>3. elem'[d].resource = None
    BY <1>6, <2>1, <2>2
  <2> QED BY <1>4, <2>1, <2>3 DEF Sole
<1>8. elem' \in [Elem -> ElementType] /\ user' \in [Ui -> Elem \cup {None}]
  <2> HIDE DEF of
  <2> QED BY <1>1, <1>4, <1>6
<1> HIDE DEF us, of, closed
<1>9. ElementsKnown'
  BY <1>5, <1>7, <1>8 DEF ServerHalf, ElementsKnown
<1>10. HeightsKnown' /\ SpaceTold'
  BY <1>1 DEF HeightsKnown, SpaceTold
<1>11. SlotsKnown'
  BY <1>1, <1>2, <1>3 DEF ServerHalf, SlotsKnown
<1>12. RequestsLead'
  BY <1>1, <1>5, NoRequests DEF RequestsLead
<1> QED BY <1>1, <1>9, <1>10, <1>11, <1>12 DEF ServerHalf

(***************************************************************************)
(* Screens come, go and change                                             *)
(***************************************************************************)
(* The desktop asks for the space of one output. *)
LEMMA TellDesktopLemma ==
  ASSUME SlotsKnown, NEW o \in Output, NEW space \in Part, TellDesktop(o, space)
  PROVE  /\ area' \in [Output -> Part] /\ moved' \subseteq Output /\ area'[o] = space
         /\ \A p \in Output : p # o => /\ area'[p] = area[p]
                                       /\ p \in moved => p \in moved'
  BY DEF TellDesktop, SlotsKnown

LEMMA SpaceIsPart == \A i \in Slot : Space(i) \in Part
  BY DEF Space, Part

LEMMA PlugHalf ==
  ASSUME ServerHalf, ~fault, NEW o \in Output, Plug(o)
  PROVE  ServerHalf'
<1>1. /\ o \notin screens /\ screens' = screens \cup {o} /\ TellDesktop(o, "whole")
      /\ UNCHANGED <<elem, user, idle, shell, top>>
  BY DEF Plug
<1>2. /\ area' \in [Output -> Part] /\ moved' \subseteq Output /\ area'[o] = "whole"
      /\ \A p \in Output : p # o => /\ area'[p] = area[p]
                                    /\ p \in moved => p \in moved'
  <2>1. "whole" \in Part
    BY DEF Part
  <2> QED BY <1>1, <2>1, TellDesktopLemma DEF ServerHalf
<1>3. \A i \in Slot : slot[i] # o
  <2>1. o # None
    BY ShellAssumption
  <2> QED BY <1>1, <2>1 DEF ServerHalf, SlotsKnown
<1>4. ElementsKnown'
  BY <1>1 DEF ServerHalf, ElementsKnown, Sole, Alive
<1>5. \A i \in Slot : slot[i] # None => slot[i] \in Output /\ slot[i] # o
  BY <1>3 DEF ServerHalf, SlotsKnown
<1>6. CASE UNCHANGED <<slot, height, toClient, fault>>
  <2>1. SlotsKnown'
    BY <1>1, <1>2, <1>6 DEF ServerHalf, SlotsKnown
  <2>2. HeightsKnown'
    BY <1>1, <1>6 DEF ServerHalf, HeightsKnown
  <2>3. \A i \in Slot : Space(i)' = Space(i)
    BY <1>1, <1>6 DEF Space
  <2>4. SpaceTold'
    BY <1>1, <1>2, <1>5, <1>6, <2>3 DEF ServerHalf, SpaceTold, Heard
  <2> QED BY <1>1, <1>4, <2>1, <2>2, <2>4 DEF ServerHalf
<1>7. CASE /\ NOutputs # Slots
           /\ slot' = [slot EXCEPT ![NOutputs] = o]
           /\ height' = [height EXCEPT ![NOutputs] = FALSE]
           /\ Tell(<<Event("connected", NOutputs)>>)
  <2>1. PICK n \in Slot : n = NOutputs
    BY <1>7, Holes
  <2>2. slot' = [slot EXCEPT ![n] = o] /\ height' = [height EXCEPT ![n] = FALSE]
    BY <1>7, <2>1
  <2>3. /\ slot' \in [Slot -> Output \cup {None}] /\ height' \in [Slot -> BOOLEAN]
        /\ slot'[n] = o /\ height'[n] = FALSE
        /\ \A i \in Slot : i # n => slot'[i] = slot[i] /\ height'[i] = height[i]
    BY <2>1, <2>2 DEF ServerHalf, SlotsKnown
  <2>4. \A i \in Slot : slot'[i] # None => slot'[i] \in screens'
    BY <1>1, <2>3 DEF ServerHalf, SlotsKnown
  <2>5. \A i, j \in Slot : slot'[i] # None /\ slot'[i] = slot'[j] => i = j
    <3> SUFFICES ASSUME NEW i \in Slot, NEW j \in Slot, slot'[i] # None, slot'[i] = slot'[j]
                 PROVE  i = j
      OBVIOUS
    <3>1. CASE i = n
      BY <1>5, <2>3, <3>1
    <3>2. CASE j = n
      BY <1>5, <2>3, <3>2
    <3>3. CASE i # n /\ j # n
      BY <2>3, <3>3 DEF ServerHalf, SlotsKnown
    <3> QED BY <3>1, <3>2, <3>3
  <2>6. SlotsKnown'
    BY <1>1, <1>2, <2>3, <2>4, <2>5 DEF ServerHalf, SlotsKnown
  <2>7. HeightsKnown'
    BY <1>1, <2>3 DEF ServerHalf, HeightsKnown
  <2>8. /\ Space(n)' = "whole"
        /\ \A i \in Slot : i # n => Space(i)' = Space(i)
    BY <1>1, <2>3 DEF Space
  <2>9. ASSUME shell # "freed"
        PROVE  \A i \in Slot : slot'[i] # None => Heard(i)' \/ In(i, idle')
    <3> SUFFICES ASSUME NEW i \in Slot, slot'[i] # None
                 PROVE  Heard(i)' \/ In(i, idle')
      OBVIOUS
    <3>1. CASE i = n
      BY <1>2, <2>3, <2>8, <3>1 DEF Heard
    <3>2. CASE i # n
      <4>1. Heard(i) \/ In(i, idle)
        BY <2>3, <2>9, <3>2 DEF ServerHalf, SpaceTold
      <4>2. /\ slot'[i] = slot[i] /\ area'[slot[i]] = area[slot[i]]
            /\ slot[i] \in moved => slot[i] \in moved'
        BY <1>2, <1>5, <2>3, <3>2
      <4> QED BY <1>1, <2>8, <3>2, <4>1, <4>2 DEF Heard
    <3> QED BY <3>1, <3>2
  <2>10. SpaceTold'
    BY <1>1, <2>9 DEF SpaceTold
  <2> QED BY <1>1, <1>4, <2>6, <2>7, <2>10 DEF ServerHalf
<1> QED BY <1>6, <1>7 DEF Plug

LEMMA UnplugHalf ==
  ASSUME ServerHalf, NEW o \in Output, Unplug(o)
  PROVE  ServerHalf'
<1> DEFINE i == IthOutput(o)
<1>1. /\ screens' = screens \ {o}
      /\ slot' = IF i < 0 THEN slot ELSE [slot EXCEPT ![i] = None]
      /\ UNCHANGED <<elem, user, height, idle, shell, area, moved, top, fault>>
  BY DEF Unplug
<1>2. /\ i < 0 => \A j \in Slot : slot[j] # o
      /\ ~(i < 0) => i \in Slot /\ \A j \in Slot : slot[j] = o => j = i
  BY SlotOf DEF ServerHalf
<1> HIDE DEF i
<1>3. /\ slot' \in [Slot -> Output \cup {None}]
      /\ \A j \in Slot : slot'[j] # None => slot'[j] = slot[j] /\ slot[j] # o
  BY <1>1, <1>2 DEF ServerHalf, SlotsKnown
<1>4. SlotsKnown'
  BY <1>1, <1>3 DEF ServerHalf, SlotsKnown
<1>5. ElementsKnown'
  BY <1>1 DEF ServerHalf, ElementsKnown, Sole, Alive
<1>6. HeightsKnown' /\ \A j \in Slot : Space(j)' = Space(j)
  BY <1>1 DEF ServerHalf, HeightsKnown, Space
<1>7. SpaceTold'
  BY <1>1, <1>3, <1>6 DEF ServerHalf, SpaceTold, Heard
<1> QED BY <1>1, <1>4, <1>5, <1>6, <1>7 DEF ServerHalf

LEMMA ResizeHalf ==
  ASSUME ServerHalf, ~fault, NEW o \in Output, Resize(o)
  PROVE  ServerHalf'
<1> DEFINE i == IthOutput(o)
           space == IF i < 0 THEN "whole" ELSE Space(i)
<1>1. /\ TellDesktop(o, space)
      /\ UNCHANGED <<elem, user, height, idle, shell, screens, slot, top>>
  BY DEF Resize, uiVars
<1>2. \A j \in Slot : slot[j] = o => j = i /\ i \in Slot /\ i >= 0
  <2>1. \A j \in Slot : slot[j] = o => j = i /\ i \in Slot
    BY SlotOf DEF ServerHalf
  <2>2. \A j \in Slot : j >= 0
    BY ShellAssumption DEF Slot
  <2> QED BY <2>1, <2>2
<1>3. space \in Part
  <2>1. i < 0 \/ i \in Slot
    BY SlotOf DEF ServerHalf
  <2>2. "whole" \in Part
    BY DEF Part
  <2> QED BY <2>1, <2>2, SpaceIsPart
<1>4. /\ area' \in [Output -> Part] /\ moved' \subseteq Output /\ area'[o] = space
      /\ \A p \in Output : p # o => /\ area'[p] = area[p]
                                    /\ p \in moved => p \in moved'
  <2> HIDE DEF space
  <2> QED BY <1>1, <1>3, TellDesktopLemma DEF ServerHalf
<1> HIDE DEF i
<1>5. SlotsKnown'
  BY <1>1, <1>4 DEF ServerHalf, SlotsKnown
<1>6. ElementsKnown'
  BY <1>1 DEF ServerHalf, ElementsKnown, Sole, Alive
<1>7. HeightsKnown' /\ \A j \in Slot : Space(j)' = Space(j)
  BY <1>1 DEF ServerHalf, HeightsKnown, Space
<1>8. ASSUME shell # "freed", NEW j \in Slot, slot[j] # None
      PROVE  Heard(j)' \/ In(j, idle)
  <2>1. slot[j] \in Output /\ (Heard(j) \/ In(j, idle))
    BY <1>8 DEF ServerHalf, SlotsKnown, SpaceTold
  <2>2. CASE slot[j] = o
    <3>1. j = i /\ i >= 0 /\ i \in Int
      BY <1>2, <2>2, ShellAssumption DEF Slot
    <3>2. space = Space(j)
      BY <3>1
    <3> QED BY <1>1, <1>4, <1>7, <2>2, <3>2 DEF Heard
  <2>3. CASE slot[j] # o
    BY <1>1, <1>4, <1>7, <2>1, <2>3 DEF Heard
  <2> QED BY <2>2, <2>3
<1>9. SpaceTold'
  BY <1>1, <1>7, <1>8 DEF SpaceTold
<1> QED BY <1>1, <1>5, <1>6, <1>7, <1>9 DEF ServerHalf

(* The callback that comes first has told what it was for. *)
LEMMA RunIdleHalf ==
  ASSUME ServerHalf, ~fault, RunIdle
  PROVE  ServerHalf'
<1> DEFINE i == Head(idle)
<1>1. /\ idle # <<>> /\ idle' = Tail(idle)
      /\ UNCHANGED <<elem, user, height, shell, screens, slot, top>>
  BY DEF RunIdle, uiVars
<1>2. /\ idle' \in Seq(Slot) /\ i \in Slot
      /\ \A j : In(j, idle) => j = i \/ In(j, idle')
  <2>1. idle \in Seq(Slot)
    BY DEF ServerHalf, SlotsKnown
  <2>2. /\ i = idle[1] /\ i \in Slot /\ idle' \in Seq(Slot) /\ Len(idle) \in Nat
        /\ Len(idle') = Len(idle) - 1 /\ \A k \in 1..Len(idle) - 1 : idle'[k] = idle[k + 1]
    BY <1>1, <2>1
  <2>3. ASSUME NEW j, In(j, idle), j # i PROVE In(j, idle')
    <3>1. PICK k \in 1..Len(idle) : idle[k] = j
      BY <2>3 DEF In
    <3>2. k # 1
      BY <2>2, <2>3, <3>1
    <3>3. k - 1 \in 1..Len(idle) - 1 /\ (k - 1) + 1 = k
      BY <2>2, <3>1, <3>2
    <3>4. idle'[k - 1] = idle[(k - 1) + 1]
      BY <2>2, <3>3
    <3> QED BY <2>2, <3>1, <3>3, <3>4 DEF In
  <2> QED BY <2>2, <2>3
<1>3. ElementsKnown'
  BY <1>1 DEF ServerHalf, ElementsKnown, Sole, Alive
<1>4. HeightsKnown' /\ \A j \in Slot : Space(j)' = Space(j)
  BY <1>1 DEF ServerHalf, HeightsKnown, Space
<1>5. CASE slot[i] = None /\ fault' = TRUE /\ UNCHANGED <<area, moved>>
  BY <1>1, <1>2, <1>3, <1>4, <1>5 DEF ServerHalf, SlotsKnown, SpaceTold
<1>6. CASE slot[i] # None /\ TellDesktop(slot[i], Space(i))
  <2>1. slot[i] \in Output /\ Space(i) \in Part
    BY <1>2, <1>6, SpaceIsPart DEF ServerHalf, SlotsKnown
  <2>2. /\ area' \in [Output -> Part] /\ moved' \subseteq Output /\ area'[slot[i]] = Space(i)
        /\ \A p \in Output : p # slot[i] => /\ area'[p] = area[p]
                                            /\ p \in moved => p \in moved'
    BY <1>6, <2>1, TellDesktopLemma DEF ServerHalf
  <2> HIDE DEF i
  <2>3. SlotsKnown'
    BY <1>1, <1>2, <2>2 DEF ServerHalf, SlotsKnown
  <2>4. ASSUME shell # "freed", NEW j \in Slot, slot[j] # None
        PROVE  Heard(j)' \/ In(j, idle')
    <3>1. /\ slot[j] \in Output /\ (Heard(j) \/ In(j, idle))
          /\ slot[j] = slot[i] => j = i
      BY <1>2, <2>4 DEF ServerHalf, SlotsKnown, SpaceTold
    <3>2. CASE j = i
      BY <1>1, <1>4, <2>2, <3>2 DEF Heard
    <3>3. CASE j # i
      BY <1>1, <1>2, <1>4, <2>2, <3>1, <3>3 DEF Heard
    <3> QED BY <3>2, <3>3
  <2>5. SpaceTold'
    BY <1>1, <1>4, <2>4 DEF SpaceTold
  <2> QED BY <1>1, <1>3, <1>4, <2>3, <2>5 DEF ServerHalf
<1> QED BY <1>5, <1>6 DEF RunIdle

(***************************************************************************)
(* Events on their way                                                     *)
(***************************************************************************)
LEMMA OneMoreEvent ==
  ASSUME NEW q, NEW e, IsStream(q)
  PROVE  /\ IsStream(q \o <<e>>) /\ Len(q) \in Nat /\ Len(q \o <<e>>) = Len(q) + 1
         /\ \A k \in 1..Len(q) : (q \o <<e>>)[k] = q[k]
         /\ (q \o <<e>>)[Len(q) + 1] = e
<1>1. PICK A : q \in Seq(A)
  BY DEF IsStream
<1>2. A \subseteq A \cup {e} /\ <<e>> \in Seq(A \cup {e}) /\ Len(<<e>>) = 1 /\ <<e>>[1] = e
  OBVIOUS
<1>3. q \in Seq(A \cup {e})
  BY <1>1, <1>2, SeqMonotonic
<1>4. /\ q \o <<e>> \in Seq(A \cup {e}) /\ Len(q \o <<e>>) = Len(q) + 1 /\ Len(q) \in Nat
      /\ \A k \in 1..Len(q) + 1 : (q \o <<e>>)[k] = IF k <= Len(q) THEN q[k] ELSE <<e>>[k - Len(q)]
  BY <1>2, <1>3, ConcatProperties, LenProperties
<1>5. \A k \in 1..Len(q) : k \in 1..Len(q) + 1 /\ k <= Len(q)
  BY <1>4
<1>6. Len(q) + 1 \in 1..Len(q) + 1 /\ ~(Len(q) + 1 <= Len(q)) /\ (Len(q) + 1) - Len(q) = 1
  BY <1>4
<1> QED BY <1>2, <1>4, <1>5, <1>6 DEF IsStream

LEMMA OneEventLess ==
  ASSUME NEW q, IsStream(q), q # <<>>
  PROVE  /\ IsStream(Tail(q)) /\ Len(q) \in Nat \ {0} /\ Len(Tail(q)) = Len(q) - 1
         /\ Head(q) = q[1] /\ \A k \in 1..Len(q) - 1 : Tail(q)[k] = q[k + 1]
<1>1. PICK A : q \in Seq(A)
  BY DEF IsStream
<1> QED BY <1>1, RestOfStream

(* A further event is of a screen that is there, or announces it. *)
LEMMA AnnouncedMore ==
  ASSUME NEW s, NEW t, NEW bg, NEW q, NEW e, Announced(s, bg, q),
         e.type = "connected" => e.arg \in Slot \cup {Beyond},
         e.type = "change" => e.arg \in Slot /\ s[e.arg] # None,
         \A i \in Slot : t[i] # None => s[i] # None \/ e = Event("connected", i)
  PROVE  Announced(t, bg, q \o <<e>>)
<1> DEFINE w == q \o <<e>>
           n == Len(q)
<1>1. /\ IsStream(w) /\ n \in Nat /\ Len(w) = n + 1 /\ w[n + 1] = e
      /\ \A k \in 1..n : w[k] = q[k]
  BY OneMoreEvent DEF Announced
<1> HIDE DEF w
<1>2. \A i, m : m \in 0..n /\ Told(bg, q, i, m) => Told(bg, w, i, m)
  <2> SUFFICES ASSUME NEW i, NEW m \in 0..n, Told(bg, q, i, m) PROVE Told(bg, w, i, m)
    OBVIOUS
  <2>1. \A k \in 1..m : k \in 1..n
    BY <1>1
  <2> QED BY <1>1, <2>1 DEF Told
<1>3. n \in 0..n
  BY <1>1
<1>4. \A i \in Slot : s[i] # None => Told(bg, w, i, n)
  BY <1>2, <1>3 DEF Announced
<1>5. ASSUME NEW i \in Slot, t[i] # None PROVE Told(bg, w, i, Len(w))
  <2>1. CASE s[i] # None
    <3>1. Told(bg, w, i, n) /\ \A k \in 1..n : k \in 1..n + 1
      BY <1>1, <1>4, <2>1
    <3> QED BY <1>1, <3>1 DEF Told
  <2>2. CASE e = Event("connected", i)
    <3>1. n + 1 \in 1..n + 1
      BY <1>1
    <3> QED BY <1>1, <2>2, <3>1 DEF Told
  <2> QED BY <1>5, <2>1, <2>2
<1>6. ASSUME NEW k \in 1..Len(w)
      PROVE  /\ w[k].type = "connected" => w[k].arg \in Slot \cup {Beyond}
             /\ w[k].type = "change" => w[k].arg \in Slot /\ Told(bg, w, w[k].arg, k - 1)
  <2>1. CASE k \in 1..n
    <3>1. w[k] = q[k] /\ k - 1 \in 0..n
      BY <1>1, <2>1
    <3> QED BY <1>2, <2>1, <3>1 DEF Announced
  <2>2. CASE k \notin 1..n
    <3>1. k = n + 1 /\ k - 1 = n
      BY <1>1, <2>2
    <3> QED BY <1>1, <1>4, <3>1
  <2> QED BY <2>1, <2>2
<1> QED BY <1>1, <1>5, <1>6 DEF Announced, w

(* The client acts on the first event: of a screen it makes the background.*)
LEMMA AnnouncedLess ==
  ASSUME NEW s, NEW bg, NEW cg, NEW q, Announced(s, bg, q), q # <<>>,
         \A i \in Slot : bg[i] # None \/ Head(q) = Event("connected", i) => cg[i] # None
  PROVE  Announced(s, cg, Tail(q))
<1> DEFINE w == Tail(q)
           n == Len(q)
<1>1. /\ IsStream(w) /\ n \in Nat /\ n # 0 /\ Len(w) = n - 1 /\ Head(q) = q[1]
      /\ \A k \in 1..n - 1 : w[k] = q[k + 1]
  BY OneEventLess DEF Announced
<1> HIDE DEF w
<1>2. ASSUME NEW i \in Slot, NEW m \in 1..n, Told(bg, q, i, m)
      PROVE  Told(cg, w, i, m - 1)
  <2>1. CASE bg[i] # None
    BY <2>1 DEF Told
  <2>2. ASSUME NEW k \in 1..m, q[k] = Event("connected", i) PROVE Told(cg, w, i, m - 1)
    <3>1. CASE k = 1
      <4>1. Head(q) = Event("connected", i)
        BY <1>1, <2>2, <3>1
      <4> QED BY <4>1 DEF Told
    <3>2. CASE k # 1
      <4>1. k - 1 \in 1..m - 1 /\ k - 1 \in 1..n - 1 /\ (k - 1) + 1 = k
        BY <1>1, <3>2
      <4>2. w[k - 1] = q[(k - 1) + 1]
        BY <1>1, <4>1
      <4>3. w[k - 1] = Event("connected", i)
        BY <2>2, <4>1, <4>2
      <4> QED BY <4>1, <4>3 DEF Told
    <3> QED BY <3>1, <3>2
  <2> QED BY <1>2, <2>1, <2>2 DEF Told
<1>3. ASSUME NEW i \in Slot, s[i] # None PROVE Told(cg, w, i, Len(w))
  <2>1. Told(bg, q, i, n) /\ n \in 1..n
    BY <1>1, <1>3 DEF Announced
  <2> QED BY <1>1, <1>2, <2>1
<1>4. ASSUME NEW k \in 1..Len(w)
      PROVE  /\ w[k].type = "connected" => w[k].arg \in Slot \cup {Beyond}
             /\ w[k].type = "change" => w[k].arg \in Slot /\ Told(cg, w, w[k].arg, k - 1)
  <2>1. w[k] = q[k + 1] /\ k + 1 \in 1..n /\ (k + 1) - 1 = k /\ k \in 1..n
    BY <1>1
  <2>2. /\ w[k].type = "connected" => w[k].arg \in Slot \cup {Beyond}
        /\ w[k].type = "change" => w[k].arg \in Slot /\ Told(bg, q, w[k].arg, k)
    <3> DEFINE j == k + 1
    <3>1. j \in 1..n /\ w[k] = q[j] /\ j - 1 = k
      BY <2>1
    <3> HIDE DEF j
    <3> QED BY <3>1 DEF Announced
  <2> QED BY <1>2, <2>1, <2>2
<1> QED BY <1>1, <1>3, <1>4 DEF Announced, w

LEMMA DecidedMore ==
  ASSUME NEW known, NEW q, NEW place, NEW e, IsStream(q),
         \/ e.type # "panel_pos" /\ Decided(known, q, place)
         \/ e.type = "panel_pos" /\ e.arg = place
  PROVE  Decided(known, q \o <<e>>, place)
<1> DEFINE w == q \o <<e>>
           n == Len(q)
<1>1. n \in Nat /\ Len(w) = n + 1 /\ w[n + 1] = e /\ \A k \in 1..n : w[k] = q[k]
  BY OneMoreEvent
<1> HIDE DEF w
<1>2. n + 1 \in 1..Len(w) /\ \A k \in 1..Len(w) : k \in 1..n \/ k = n + 1
  BY <1>1
<1>3. CASE e.type = "panel_pos" /\ e.arg = place
  <2>1. \A j \in 1..Len(w) : ~(n + 1 < j)
    BY <1>1
  <2> QED BY <1>1, <1>2, <1>3, <2>1 DEF Decided, w
<1>4. CASE e.type # "panel_pos" /\ Decided(known, q, place)
  <2>1. CASE known = place /\ \A k \in 1..n : q[k].type # "panel_pos"
    <3>1. \A k \in 1..Len(w) : w[k].type # "panel_pos"
      BY <1>1, <1>2, <1>4, <2>1
    <3> QED BY <2>1, <3>1 DEF Decided, w
  <2>2. ASSUME NEW k \in 1..n, q[k].type = "panel_pos", q[k].arg = place,
               \A j \in 1..n : k < j => q[j].type # "panel_pos"
        PROVE  Decided(known, w, place)
    <3>1. k \in 1..Len(w) /\ w[k] = q[k]
      BY <1>1
    <3>2. \A j \in 1..Len(w) : k < j => w[j].type # "panel_pos"
      BY <1>1, <1>2, <1>4, <2>2
    <3> QED BY <2>2, <3>1, <3>2 DEF Decided
  <2> QED BY <1>4, <2>1, <2>2 DEF Decided, w
<1> QED BY <1>3, <1>4

LEMMA DecidedLess ==
  ASSUME NEW known, NEW q, NEW place, NEW next, IsStream(q), q # <<>>, Decided(known, q, place),
         next = IF Head(q).type = "panel_pos" THEN Head(q).arg ELSE known
  PROVE  Decided(next, Tail(q), place)
<1> DEFINE w == Tail(q)
           n == Len(q)
<1>1. /\ n \in Nat /\ n # 0 /\ Len(w) = n - 1 /\ Head(q) = q[1]
      /\ \A k \in 1..n - 1 : w[k] = q[k + 1]
  BY OneEventLess
<1> HIDE DEF w
<1>2. \A k \in 1..Len(w) : k + 1 \in 1..n /\ 1 < k + 1 /\ w[k] = q[k + 1]
  BY <1>1
<1>3. 1 \in 1..n
  BY <1>1
<1>4. CASE known = place /\ \A k \in 1..n : q[k].type # "panel_pos"
  <2>1. next = place
    BY <1>1, <1>3, <1>4
  <2>2. \A k \in 1..Len(w) : w[k].type # "panel_pos"
    BY <1>2, <1>4
  <2> QED BY <2>1, <2>2 DEF Decided, w
<1>5. ASSUME NEW k \in 1..n, q[k].type = "panel_pos", q[k].arg = place,
             \A j \in 1..n : k < j => q[j].type # "panel_pos"
      PROVE  Decided(next, w, place)
  <2>1. CASE k = 1
    <3>1. next = place
      BY <1>1, <1>5, <2>1
    <3>2. \A j \in 1..Len(w) : w[j].type # "panel_pos"
      BY <1>2, <1>5, <2>1
    <3> QED BY <3>1, <3>2 DEF Decided
  <2>2. CASE k # 1
    <3> DEFINE m == k - 1
    <3>1. m \in 1..Len(w) /\ m + 1 = k /\ \A j \in 1..Len(w) : m < j => k < j + 1
      BY <1>1, <2>2
    <3> HIDE DEF m
    <3>2. w[m] = q[k]
      BY <1>2, <3>1
    <3>3. \A j \in 1..Len(w) : m < j => w[j].type # "panel_pos"
      BY <1>2, <1>5, <3>1
    <3> QED BY <1>5, <3>1, <3>2, <3>3 DEF Decided
  <2> QED BY <2>1, <2>2
<1> QED BY <1>4, <1>5 DEF Decided, w

LEMMA AnnouncedFewer ==
  ASSUME NEW s, NEW t, NEW bg, NEW q, Announced(s, bg, q),
         \A i \in Slot : t[i] # None => s[i] # None
  PROVE  Announced(t, bg, q)
  BY DEF Announced

(* What a message adds: it is of no screen. *)
LEMMA OneMessage ==
  ASSUME ScreensAnnounced, PlaceAnnounced, UNCHANGED clientVars, UNCHANGED <<slot, shell>>,
         NEW t, NEW a, t \in {"lock", "notification", "close", "panel_pos"},
         toClient' = toClient \o <<Event(t, a)>>,
         IF t = "panel_pos" THEN a = top' ELSE top' = top
  PROVE  ScreensAnnounced' /\ PlaceAnnounced'
<1>0. Shown' = Shown
  BY DEF Shown
<1> SUFFICES ASSUME running
             PROVE  /\ Announced(Shown, background, toClient')
                    /\ shell = "bound" => Decided(clientTop, toClient', top')
  BY <1>0 DEF ScreensAnnounced, PlaceAnnounced, clientVars
<1> DEFINE e == Event(t, a)
<1>1. e.type = t /\ e.arg = a /\ \A i : e # Event("connected", i)
  <2>1. \A i : Event("connected", i).type = "connected"
    BY DEF Event
  <2> QED BY <2>1 DEF Event
<1> HIDE DEF e
<1>2. /\ Announced(Shown, background, toClient)
      /\ shell = "bound" => Decided(clientTop, toClient, top)
  BY DEF ScreensAnnounced, PlaceAnnounced
<1>3. toClient' = toClient \o <<e>> /\ IsStream(toClient)
  BY <1>2 DEF e, Announced
<1>4. Announced(Shown, background, toClient \o <<e>>)
  BY <1>1, <1>2, AnnouncedMore
<1>5. shell = "bound" => Decided(clientTop, toClient \o <<e>>, top')
  BY <1>1, <1>2, <1>3, DecidedMore
<1> QED BY <1>3, <1>4, <1>5

LEMMA TurnStreams ==
  ASSUME ServerHalf, ScreensAnnounced, PlaceAnnounced, Turn, UNCHANGED clientVars
  PROVE  ScreensAnnounced' /\ PlaceAnnounced'
<1>1. UNCHANGED <<running, background, clientTop, shell>>
  BY DEF clientVars, Turn, Plug, Unplug, PostNotification, SetPanelPos, Resize, outputVars
<1>a. CASE shell # "bound"
  <2>1. toClient' = toClient
    BY <1>a DEF Turn, Plug, Unplug, PostNotification, SetPanelPos, Resize, Tell
  <2>2. Shown' = Shown
    BY <1>1, <1>a DEF Shown
  <2> QED BY <1>1, <1>a, <2>1, <2>2 DEF ScreensAnnounced, PlaceAnnounced
<1> SUFFICES ASSUME shell = "bound" PROVE ScreensAnnounced' /\ PlaceAnnounced'
  BY <1>a
<1>b. Shown = slot /\ Shown' = slot'
  BY <1>1 DEF Shown
<1>2. ASSUME NEW o \in Output, Plug(o) PROVE ScreensAnnounced' /\ PlaceAnnounced'
  <2>1. UNCHANGED <<shell, top>>
    BY <1>2 DEF Plug
  <2>2. CASE UNCHANGED <<slot, toClient>>
    BY <1>1, <1>b, <2>1, <2>2 DEF ScreensAnnounced, PlaceAnnounced
  <2>3. CASE /\ NOutputs # Slots /\ slot' = [slot EXCEPT ![NOutputs] = o]
             /\ Tell(<<Event("connected", NOutputs)>>)
    <3> SUFFICES ASSUME running
                 PROVE  /\ Announced(slot', background, toClient')
                        /\ Decided(clientTop, toClient', top)
      BY <1>1, <1>b, <2>1 DEF ScreensAnnounced, PlaceAnnounced
    <3> DEFINE n == NOutputs
               e == Event("connected", n)
    <3>1. n \in Slot
      BY <2>3, Holes
    <3>2. e.type = "connected" /\ e.arg = n
      BY DEF Event
    <3>3. toClient' = toClient \o <<e>>
      BY <2>3 DEF Tell
    <3>4. \A i \in Slot : slot'[i] # None => slot[i] # None \/ e = Event("connected", i)
      BY <2>3 DEF ServerHalf, SlotsKnown
    <3>5. Announced(slot, background, toClient) /\ Decided(clientTop, toClient, top)
      BY <1>b DEF ScreensAnnounced, PlaceAnnounced
    <3> HIDE DEF n, e
    <3>6. Announced(slot', background, toClient')
      BY <3>1, <3>2, <3>3, <3>4, <3>5, AnnouncedMore
    <3>7. Decided(clientTop, toClient', top)
      BY <3>2, <3>3, <3>5, DecidedMore DEF Announced
    <3> QED BY <3>6, <3>7
  <2> QED BY <1>2, <2>2, <2>3 DEF Plug
<1>3. ASSUME NEW o \in Output, Unplug(o) PROVE ScreensAnnounced' /\ PlaceAnnounced'
  <2>1. UNCHANGED <<shell, top, toClient>> /\ \A i \in Slot : slot'[i] # None => slot[i] # None
    BY <1>3 DEF Unplug, ServerHalf, SlotsKnown
  <2> QED BY <1>1, <1>b, <2>1, AnnouncedFewer DEF ScreensAnnounced, PlaceAnnounced
<1>4. CASE PostNotification
  <2>1. UNCHANGED <<slot, shell, top>>
        /\ (toClient' = toClient \/ toClient' = toClient \o <<Event("notification", None)>>)
    BY <1>4 DEF PostNotification, Tell, outputVars
  <2>2. CASE toClient' = toClient
    BY <1>1, <1>b, <2>1, <2>2 DEF ScreensAnnounced, PlaceAnnounced
  <2> QED BY <2>1, <2>2, OneMessage
<1>5. CASE SetPanelPos
  <2>1. /\ UNCHANGED <<slot, shell>> /\ top' = ~top
        /\ toClient' = IF shell = "bound" THEN toClient \o <<Event("panel_pos", ~top)>>
                       ELSE toClient
    BY <1>5 DEF SetPanelPos, Tell
  <2>2. toClient' = toClient \o <<Event("panel_pos", ~top)>> /\ ~top = top'
    BY <2>1
  <2> QED BY <2>1, <2>2, OneMessage
<1>6. ASSUME NEW o \in Output, Resize(o) PROVE ScreensAnnounced' /\ PlaceAnnounced'
  <2>1. UNCHANGED <<shell, top, slot>>
    BY <1>6 DEF Resize
  <2>2. CASE UNCHANGED toClient
    BY <1>1, <1>b, <2>1, <2>2 DEF ScreensAnnounced, PlaceAnnounced
  <2>3. CASE ~(IthOutput(o) < 0) /\ Tell(<<Event("change", IthOutput(o))>>)
    <3> SUFFICES ASSUME running
                 PROVE  /\ Announced(slot, background, toClient')
                        /\ Decided(clientTop, toClient', top)
      BY <1>1, <1>b, <2>1 DEF ScreensAnnounced, PlaceAnnounced
    <3> DEFINE i == IthOutput(o)
               e == Event("change", i)
    <3>1. i \in Slot /\ slot[i] = o /\ o # None
      BY <2>3, SlotOf, ShellAssumption DEF ServerHalf
    <3>2. e.type = "change" /\ e.arg = i
      BY DEF Event
    <3>3. toClient' = toClient \o <<e>>
      BY <2>3 DEF Tell
    <3>5. Announced(slot, background, toClient) /\ Decided(clientTop, toClient, top)
      BY <1>b DEF ScreensAnnounced, PlaceAnnounced
    <3> HIDE DEF i, e
    <3>6. Announced(slot, background, toClient')
      BY <3>1, <3>2, <3>3, <3>5, AnnouncedMore
    <3>7. Decided(clientTop, toClient', top)
      BY <3>2, <3>3, <3>5, DecidedMore DEF Announced
    <3> QED BY <3>6, <3>7
  <2> QED BY <1>6, <2>2, <2>3 DEF Resize
<1> QED BY <1>2, <1>3, <1>4, <1>5, <1>6 DEF Turn

LEMMA MessageStreams ==
  ASSUME ScreensAnnounced, PlaceAnnounced, ClosesWidgets, MessageNext, UNCHANGED clientVars
  PROVE  ScreensAnnounced' /\ PlaceAnnounced'
<1>1. CASE CompositorIdle
  <2>1. UNCHANGED <<slot, shell, top>>
        /\ (toClient' = toClient \/ toClient' = toClient \o <<Event("lock", None)>>)
    BY <1>1 DEF CompositorIdle, Tell, outputVars
  <2>2. CASE toClient' = toClient
    BY <2>1, <2>2 DEF ScreensAnnounced, PlaceAnnounced, Shown, clientVars
  <2> QED BY <2>1, <2>2, OneMessage
<1>2. ASSUME NEW what \in Loss, LoseFocus(what) PROVE ScreensAnnounced' /\ PlaceAnnounced'
  <2> DEFINE a == elem[TheWidget].resource
  <2>1. UNCHANGED <<slot, shell, top>> /\ toClient' = Append(toClient, Event("close", a))
    BY <1>2 DEF LoseFocus, outputVars
  <2> HIDE DEF a
  <2>2. toClient' = toClient \o <<Event("close", a)>>
    BY <2>1, AppendIsConcat DEF ClosesWidgets, IsStream
  <2> QED BY <2>1, <2>2, OneMessage
<1> QED BY <1>1, <1>2 DEF MessageNext

(* A client that binds the shell is told of every screen and, last, of the  *)
(* panel's place.                                                          *)
LEMMA BindStreams ==
  ASSUME ServerHalf, Bind, UNCHANGED clientVars
  PROVE  ScreensAnnounced' /\ PlaceAnnounced'
<1> DEFINE used == {i \in Slot : slot[i] # None}
           n == Cardinality(used)
           slotted == InOrder(used)
           others == Cardinality(screens) - n
           q1 == [k \in 1..n |-> Event("connected", slotted[k])]
           q2 == [k \in 1..others |-> Event("connected", Beyond)]
           e == Event("panel_pos", top)
<1>1. used \in SUBSET Slot
  OBVIOUS
<1>2. UNCHANGED <<slot, top, running, background, clientTop>> /\ toClient' = (q1 \o q2) \o <<e>>
  BY DEF Bind, DefaultConfig, outputVars, clientVars, used, n, slotted, others, q1, q2, e
<1>3. n \in Nat /\ slotted \in Seq(Slot) /\ Len(slotted) = n
      /\ \A i \in used : \E k \in 1..n : slotted[k] = i
  <2> HIDE DEF used
  <2>1. slotted \in Seq(used) /\ Len(slotted) = n /\ n \in Nat
        /\ \A i \in used : \E k \in 1..n : slotted[k] = i
    BY <1>1, InOrderLemma
  <2> HIDE DEF n, slotted
  <2> QED BY <1>1, <2>1, SeqMonotonic
<1>4. others \in Int
  <2>1. IsFiniteSet(Output)
    BY ShellAssumption
  <2>2. Cardinality(screens) \in Nat
    BY <2>1, FS_Subset, FS_CardinalityType DEF ServerHalf
  <2> HIDE DEF n
  <2> QED BY <1>3, <2>2
<1>5. e.type = "panel_pos" /\ e.arg = top
  BY DEF Event
<1> DEFINE Screens == {Event("connected", i) : i \in Slot \cup {Beyond}}
<1>6. \A x \in Screens : x.type = "connected" /\ x.arg \in Slot \cup {Beyond}
  BY DEF Event
<1>7. q1 \in Seq(Screens) /\ Len(q1) = n /\ \A k \in 1..n : q1[k] = Event("connected", slotted[k])
  <2> HIDE DEF n, slotted
  <2>1. \A k \in 1..n : slotted[k] \in Slot
    BY <1>3
  <2> QED BY <1>3, <2>1
<1> HIDE DEF n, others, slotted
<1>8. q2 \in Seq(Screens)
  <2> DEFINE m == IF others < 0 THEN 0 ELSE others
  <2>1. m \in Nat /\ 1..others = 1..m
    BY <1>4
  <2> HIDE DEF m
  <2> DEFINE c == Event("connected", Beyond)
  <2>2. q2 = [k \in 1..m |-> c] /\ c \in Screens
    BY <2>1
  <2> HIDE DEF c, q2, Screens
  <2> QED BY <2>1, <2>2
<1> HIDE DEF q1, q2, Screens, e
<1> DEFINE w == q1 \o q2
<1>9. /\ w \in Seq(Screens) /\ Len(w) \in Nat /\ \A k \in 1..n : k \in 1..Len(w) /\ w[k] = q1[k]
  <2>1. /\ w \in Seq(Screens) /\ Len(w) = Len(q1) + Len(q2) /\ Len(q2) \in Nat
        /\ \A k \in 1..Len(q1) + Len(q2) :
             w[k] = IF k <= Len(q1) THEN q1[k] ELSE q2[k - Len(q1)]
    BY <1>7, <1>8, ConcatProperties, LenProperties
  <2> HIDE DEF w
  <2> QED BY <1>3, <1>7, <2>1
<1> HIDE DEF w
<1>10. IsStream(w)
  BY <1>9 DEF IsStream
<1>a. Shown' = slot
  BY <1>2 DEF Bind, Shown
<1>11. ASSUME NEW i \in Slot, slot[i] # None PROVE Told(background, w, i, Len(w))
  <2>1. PICK k \in 1..n : slotted[k] = i
    BY <1>3, <1>11
  <2>2. k \in 1..Len(w) /\ w[k] = Event("connected", i)
    BY <1>7, <1>9, <2>1
  <2> QED BY <2>2 DEF Told
<1>12. \A k \in 1..Len(w) : w[k] \in Screens
  BY <1>9
<1>13. Announced(slot, background, w)
  BY <1>6, <1>10, <1>11, <1>12 DEF Announced
<1>14. Announced(slot, background, w \o <<e>>)
  BY <1>5, <1>13, AnnouncedMore
<1>15. Decided(clientTop, w \o <<e>>, top)
  BY <1>5, <1>10, DecidedMore
<1> QED BY <1>2, <1>a, <1>14, <1>15 DEF ScreensAnnounced, PlaceAnnounced, w

(***************************************************************************)
(* What the client sends                                                   *)
(***************************************************************************)
LEMMA SentLead ==
  ASSUME RequestsLead, running, NEW q, Send(q), Leads(q, proxies, proxies'), UNCHANGED user
  PROVE  RequestsLead'
<1>1. Leads(toServer, Alive, proxies)
  BY DEF RequestsLead
<1>2. Leads(toServer \o q, Alive, proxies') /\ proxies' \in SUBSET Ui
  <2>1. Leads(toServer \o q, Alive, proxies')
    BY <1>1, MoreRequests
  <2> DEFINE m == Len(toServer \o q)
  <2>2. m \in Nat
    BY <2>1, LenOfStream DEF Leads
  <2>3. PICK f \in [0..m -> SUBSET Ui] : f[m] = proxies'
    BY <2>1 DEF Leads
  <2> HIDE DEF m
  <2>4. m \in 0..m
    BY <2>2
  <2>5. proxies' \in SUBSET Ui
    BY <2>3, <2>4
  <2> QED BY <2>1, <2>5
<1>3. Alive' = Alive
  BY DEF Alive
<1> QED BY <1>2, <1>3 DEF RequestsLead, Send

(* Sent together, for the lemmas below. *)
LEMMA TwoRequests ==
  ASSUME NEW a, NEW b, NEW S \in SUBSET Ui, NEW T \in SUBSET Ui, NEW U \in SUBSET Ui,
         Lawful(S, a, T), Lawful(T, b, U)
  PROVE  Leads(<<a, b>>, S, U)
<1>1. Leads(<<a>>, S, T) /\ Leads(<<b>>, T, U)
  BY OneRequest
<1>2. <<a, b>> = <<a>> \o <<b>>
  <2>1. <<a>> \in Seq({a, b}) /\ <<a, b>> = Append(<<a>>, b)
    OBVIOUS
  <2> QED BY <2>1, AppendIsConcat
<1> QED BY <1>1, <1>2, MoreRequests

LEMMA CommitLawful ==
  ASSUME NEW S \in SUBSET Ui, NEW u \in S
  PROVE  Lawful(S, Request("commit", u, 0), S)
  BY DEF Lawful, Request

LEMMA CreateLawful ==
  ASSUME NEW S \in SUBSET Ui, NEW kind \in Kind, NEW u \in Ui, u[1] = kind, u \notin S, NEW i \in Slot,
         kind \in {"widget", "locker"} => \A v \in S : v[1] # kind
  PROVE  Lawful(S, Request(kind, u, i), S \cup {u})
  BY DEF Lawful, Request

LEMMA DestroyLawful ==
  ASSUME NEW S \in SUBSET Ui, NEW u \in S, u[1] \in {"widget", "locker"}
  PROVE  Lawful(S, Request("destroy", u, 0), S \ {u})
  BY DEF Lawful, Request

(* Closing the open widget leaves the other objects, and no widget. *)
LEMMA ClosingLeads ==
  ASSUME ClientKnown, ClientHalf, running
  PROVE  /\ Leads(Closing, proxies, Remaining)
         /\ Remaining \in SUBSET Ui /\ Remaining \subseteq proxies
         /\ \A v \in Remaining : v[1] # "widget"
         /\ \A v \in proxies : v[1] # "widget" => v \in Remaining
<1>1. proxies \in SUBSET Ui
  BY DEF ClientHalf
<1>2. \A v \in Remaining : v \in proxies /\ v[1] # "widget"
  BY ClosedLemma
<1>3. CASE current = None
  BY <1>1, <1>2, <1>3, NoRequests DEF Closing, Remaining
<1>4. CASE current # None
  <2> DEFINE u == proxy[current]
  <2>1. u \in proxies /\ u[1] = "widget"
    BY <1>4 DEF ClientHalf
  <2>2. Closing = <<Request("destroy", u, 0)>> /\ Remaining = proxies \ {u}
    BY <1>4 DEF Closing, Remaining
  <2> HIDE DEF u
  <2>3. Lawful(proxies, Request("destroy", u, 0), proxies \ {u})
    BY <1>1, <2>1, DestroyLawful
  <2>4. Leads(<<Request("destroy", u, 0)>>, proxies, proxies \ {u})
    BY <1>1, <2>3, OneRequest
  <2> QED BY <1>1, <1>2, <2>1, <2>2, <2>4
<1> QED BY <1>3, <1>4

(* A widget or the locker is made in the place of the open widget. *)
LEMMA OpeningLead ==
  ASSUME ClientKnown, ClientHalf, RequestsLead, running, UNCHANGED user,
         NEW kind \in {"widget", "locker"}, NEW u \in Ui, u[1] = kind, u \notin proxies,
         NEW i \in Slot, kind = "locker" => transient = None,
         proxies' = Remaining \cup {u},
         Send(Closing \o <<Request(kind, u, i), Request("commit", u, 0)>>)
  PROVE  RequestsLead'
<1> DEFINE a == Request(kind, u, i)
           b == Request("commit", u, 0)
<1>1. /\ Leads(Closing, proxies, Remaining)
      /\ Remaining \in SUBSET Ui /\ Remaining \subseteq proxies
      /\ \A v \in Remaining : v[1] # "widget"
  BY ClosingLeads
<1>2. \A v \in Remaining : v[1] # kind
  <2>1. CASE kind = "locker"
    <3>1. transient = None /\ \A v \in proxies : v[1] = "locker" => v = transient
      BY <2>1 DEF ClientHalf
    <3>2. \A v \in Remaining : v # None
      BY <1>1, ShellAssumption
    <3> QED BY <1>1, <2>1, <3>1, <3>2
  <2> QED BY <1>1, <2>1
<1>3. Lawful(Remaining, a, Remaining \cup {u})
  BY <1>1, <1>2, CreateLawful DEF Kind
<1>4. Lawful(Remaining \cup {u}, b, Remaining \cup {u})
  BY <1>1, CommitLawful
<1> HIDE DEF a, b
<1>5. Leads(<<a, b>>, Remaining, Remaining \cup {u})
  BY <1>1, <1>3, <1>4, TwoRequests
<1>6. Leads(Closing \o <<a, b>>, proxies, proxies')
  BY <1>1, <1>5, MoreRequests
<1>7. Send(Closing \o <<a, b>>)
  BY DEF a, b
<1> QED BY <1>6, <1>7, SentLead

(* The records that are not of widgets. *)
Kept == UNCHANGED <<running, background, panel, clientTop>>

LEMMA OpenedHalf ==
  ASSUME ClientKnown, ClientHalf, running, Kept, UNCHANGED transient,
         NEW w \in Popup, NEW u \in Ui, u[1] = "widget", at' \in Slot,
         current' = w, proxy' = [Closed EXCEPT ![w] = u], proxies' = Remaining \cup {u}
  PROVE  ClientHalf'
<1>1. /\ Remaining \in SUBSET Ui /\ Remaining \subseteq proxies
      /\ \A v \in proxies : v[1] # "widget" => v \in Remaining
  BY ClosingLeads
<1>2. DOMAIN Closed = Popup
  BY ClosedLemma
<1>3. proxy'[current'] = u
  BY <1>2
<1>4. /\ transient # None => transient \in Remaining /\ transient[1] = "locker"
      /\ panel # None => panel \in Remaining /\ panel[1] = "panel"
      /\ \A i \in Slot : background[i] # None =>
           background[i] \in Remaining /\ background[i][1] = "background"
  BY <1>1 DEF ClientHalf
<1>5. \A v \in proxies' : v[1] = "locker" => v = transient
  BY <1>1 DEF ClientHalf
<1> QED BY <1>1, <1>3, <1>4, <1>5 DEF ClientHalf, Kept

LEMMA CrashHalf ==
  ASSUME Crash, RequestsLead, UNCHANGED user
  PROVE  ClientHalf' /\ RequestsLead'
<1>1. ~running' /\ UNCHANGED toServer
  BY DEF Crash
<1>2. Alive' = Alive
  BY DEF Alive
<1> QED BY <1>1, <1>2 DEF ClientHalf, RequestsLead

LEMMA LaunchHalf ==
  ASSUME ClientKnown, ClientHalf, RequestsLead, running, UNCHANGED user, Supply,
         NEW w \in Popup, NEW i \in Slot, Launch(w, i, Fresh), at' \in Slot,
         Kept, UNCHANGED transient
  PROVE  ClientHalf' /\ RequestsLead'
<1> DEFINE u == New("widget", Fresh)
<1>1. u \in Ui /\ u[1] = "widget" /\ u \notin proxies
  BY NewLemma DEF Kind, Fresh
<1>2. CASE current = w
  <2>1. UNCHANGED <<current, proxy, proxies, toServer>>
    BY <1>2 DEF Launch
  <2> QED BY <2>1 DEF ClientHalf, RequestsLead, Alive, Kept
<1>3. CASE current # w
  <2>1. /\ current' = w /\ proxy' = [Closed EXCEPT ![w] = u] /\ proxies' = Remaining \cup {u}
        /\ Send(Closing \o <<Request("widget", u, i), Request("commit", u, 0)>>)
    BY <1>3 DEF Launch
  <2> HIDE DEF u
  <2> QED BY <1>1, <2>1, OpeningLead, OpenedHalf
<1> QED BY <1>2, <1>3

LEMMA LockHalf ==
  ASSUME ClientKnown, ClientHalf, RequestsLead, running, UNCHANGED user, Supply, Lock(Fresh)
  PROVE  ClientHalf' /\ RequestsLead'
<1>1. CASE transient # None
  <2>1. UNCHANGED <<clientVars, toServer>>
    BY <1>1 DEF Lock
  <2> QED BY <2>1 DEF clientVars, ClientHalf, RequestsLead, Alive
<1>2. CASE Crash
  BY <1>2, CrashHalf
<1>3. CASE transient = None /\ SetupLocker(Fresh)
  <2> DEFINE u == New("locker", Fresh)
  <2>1. u \in Ui /\ u[1] = "locker" /\ u \notin proxies /\ u # None
    BY NewLemma, ShellAssumption DEF Kind, Fresh
  <2>2. /\ transient' = u /\ current' = None /\ proxies' = Remaining \cup {u}
        /\ Send(Closing \o <<Request("locker", u, 0), Request("commit", u, 0)>>)
        /\ UNCHANGED <<running, background, panel, at>>
    BY <1>3 DEF SetupLocker
  <2> HIDE DEF u
  <2>3. 0 \in Slot
    BY ShellAssumption DEF Slot
  <2>4. RequestsLead'
    BY <1>3, <2>1, <2>2, <2>3, OpeningLead
  <2>5. /\ Remaining \in SUBSET Ui /\ Remaining \subseteq proxies
        /\ \A v \in proxies : v[1] # "widget" => v \in Remaining
    BY ClosingLeads
  <2>6. \A v \in proxies : v[1] # "locker"
    <3>1. \A v \in proxies : v # None /\ (v[1] = "locker" => v = None)
      BY <1>3, ShellAssumption DEF ClientHalf
    <3> QED BY <3>1
  <2>7. /\ panel # None => panel \in Remaining /\ panel[1] = "panel"
        /\ \A i \in Slot : background[i] # None =>
             background[i] \in Remaining /\ background[i][1] = "background"
    BY <2>5 DEF ClientHalf
  <2>8. ClientHalf'
    BY <2>1, <2>2, <2>5, <2>6, <2>7 DEF ClientHalf
  <2> QED BY <2>4, <2>8
<1> QED BY <1>1, <1>2, <1>3 DEF Lock

LEMMA NotifyHalf ==
  ASSUME ClientKnown, ClientHalf, RequestsLead, running, UNCHANGED user, Supply, Notify(Fresh)
  PROVE  ClientHalf' /\ RequestsLead'
<1>1. CASE current # None
  <2>1. UNCHANGED <<clientVars, toServer>>
    BY <1>1 DEF Notify
  <2> QED BY <2>1 DEF clientVars, ClientHalf, RequestsLead, Alive
<1>2. CASE Crash
  BY <1>2, CrashHalf
<1>3. CASE /\ Launch(Notification, 0, Fresh) /\ Choose(Notification, 0, clicks)
           /\ UNCHANGED <<running, background, panel, clicks, enters, transient, clientTop>>
  <2>1. Notification \in Popup /\ 0 \in Slot /\ at' \in Slot
    BY <1>3, ShellAssumption DEF Popup, Slot, Choose
  <2> QED BY <1>3, <2>1, LaunchHalf DEF Kept
<1> QED BY <1>1, <1>2, <1>3 DEF Notify

LEMMA ShouldCloseHalf ==
  ASSUME ClientKnown, ClientHalf, RequestsLead, running, UNCHANGED user, NEW u, ShouldClose(u)
  PROVE  ClientHalf' /\ RequestsLead'
<1>1. CASE u \notin proxies
  <2>1. UNCHANGED <<clientVars, toServer>>
    BY <1>1 DEF ShouldClose
  <2> QED BY <2>1 DEF clientVars, ClientHalf, RequestsLead, Alive
<1>2. CASE Crash
  BY <1>2, CrashHalf
<1>3. CASE /\ Send(Closing) /\ current' = None /\ proxies' = Remaining
           /\ UNCHANGED <<running, background, panel, at, transient>>
  <2>1. /\ Leads(Closing, proxies, Remaining)
        /\ Remaining \in SUBSET Ui /\ Remaining \subseteq proxies
        /\ \A v \in proxies : v[1] # "widget" => v \in Remaining
    BY ClosingLeads
  <2>2. RequestsLead'
    BY <1>3, <2>1, SentLead
  <2>3. ClientHalf'
    BY <1>3, <2>1 DEF ClientHalf
  <2> QED BY <2>2, <2>3
<1> QED BY <1>1, <1>2, <1>3 DEF ShouldClose

(* A screen's background, and with the first screen the panel. *)
LEMMA ConnectedHalf ==
  ASSUME ClientKnown, ClientHalf, RequestsLead, running, UNCHANGED user, Supply,
         NEW i \in Slot, Connected(i, Fresh)
  PROVE  ClientHalf' /\ RequestsLead'
<1> DEFINE b == New("background", Fresh)
           n == New("panel", Fresh)
           first == i = 0 /\ panel = None
           p == IF first THEN n ELSE panel
           q1 == <<NewBackground(b, i)>>
           q2 == IF first THEN <<NewPanel(p, i)>> ELSE <<>>
           q3 == IF i = 0 THEN <<Request("commit", p, 0)>> ELSE <<>>
           q4 == <<Request("commit", b, 0)>>
           S1 == proxies \cup {b}
           S2 == S1 \cup (IF first THEN {p} ELSE {})
<1>1. /\ b \in Ui /\ b[1] = "background" /\ b \notin proxies
      /\ n \in Ui /\ n[1] = "panel" /\ n \notin proxies
  BY NewLemma DEF Kind, Fresh
<1>2. /\ background' = [background EXCEPT ![i] = b]
      /\ panel' = IF i = 0 THEN p ELSE panel
      /\ proxies' = S2
      /\ Send(((q1 \o q2) \o q3) \o q4)
      /\ UNCHANGED <<running, current, proxy, at, transient>>
  BY DEF Connected, popupVars
<1> HIDE DEF b, n
<1>3. /\ proxies \in SUBSET Ui /\ S1 \in SUBSET Ui /\ S2 \in SUBSET Ui /\ b # n /\ b # None /\ n # None
      /\ S1 \subseteq S2 /\ b \in S1 /\ (first => n \notin S1 /\ p = n)
      /\ (i = 0 => p \in S2 /\ p[1] = "panel" /\ p # None)
  BY <1>1, ShellAssumption DEF ClientHalf
<1>4. Leads(q1, proxies, S1)
  <2>1. Lawful(proxies, NewBackground(b, i), S1)
    BY <1>1, <1>3, CreateLawful DEF NewBackground, Kind
  <2> QED BY <1>3, <2>1, OneRequest
<1>5. Leads(q2, S1, S2)
  <2>1. CASE first
    <3>1. Lawful(S1, NewPanel(n, i), S1 \cup {n})
      BY <1>1, <1>3, CreateLawful DEF NewPanel, Kind
    <3>2. S2 = S1 \cup {n} /\ q2 = <<NewPanel(n, i)>>
      BY <1>3, <2>1
    <3> HIDE DEF S1, S2, q2, p, first
    <3> QED BY <1>3, <3>1, <3>2, OneRequest
  <2>2. CASE ~first
    <3>1. S2 = S1 /\ q2 = <<>>
      BY <2>2
    <3> HIDE DEF S1, S2, q2
    <3> QED BY <1>3, <3>1, NoRequests
  <2> QED BY <2>1, <2>2
<1>6. ASSUME NEW S \in SUBSET Ui, NEW u \in S
      PROVE  Leads(<<Request("commit", u, 0)>>, S, S)
  BY <1>6, CommitLawful, OneRequest
<1>7. Leads(q3, S2, S2)
  <2>1. CASE i = 0
    BY <1>3, <1>6, <2>1
  <2>2. CASE i # 0
    BY <1>3, <2>2, NoRequests
  <2> QED BY <2>1, <2>2
<1>8. Leads(q4, S2, S2)
  BY <1>3, <1>6
<1>9. background' \in [Slot -> Ui \cup {None}] /\ \A j \in Slot : background'[j] = IF j = i THEN b ELSE background[j]
  BY <1>1, <1>2 DEF ClientHalf
<1>10. 0 \in Slot
  BY ShellAssumption DEF Slot
<1>11. \A j \in Slot : background'[j] # None => background'[j] \in proxies' /\ background'[j][1] = "background"
  <2> SUFFICES ASSUME NEW j \in Slot, background'[j] # None
               PROVE  background'[j] \in proxies' /\ background'[j][1] = "background"
    OBVIOUS
  <2>1. CASE j = i
    BY <1>1, <1>2, <1>3, <1>9, <2>1
  <2>2. CASE j # i
    BY <1>2, <1>9, <2>2 DEF ClientHalf
  <2> QED BY <2>1, <2>2
<1>12. /\ panel' # None => panel' \in proxies' /\ panel'[1] = "panel"
       /\ background'[0] # None => panel' # None
  <2>1. CASE i = 0
    BY <1>2, <1>3, <2>1
  <2>2. CASE i # 0
    BY <1>2, <1>9, <1>10, <2>2 DEF ClientHalf
  <2> QED BY <2>1, <2>2
<1>13. \A v \in proxies' : /\ v \in proxies \/ v[1] \in {"background", "panel"}
                           /\ v \in Ui
  BY <1>1, <1>2, <1>3
<1>14. proxies \subseteq proxies'
  BY <1>2
<1> HIDE DEF q1, q2, q3, q4, S1, S2, p, first
<1>15. Leads(((q1 \o q2) \o q3) \o q4, proxies, S2)
  <2>1. Leads(q1 \o q2, proxies, S2)
    BY <1>4, <1>5, MoreRequests
  <2>2. Leads((q1 \o q2) \o q3, proxies, S2)
    BY <1>7, <2>1, MoreRequests
  <2> QED BY <1>8, <2>2, MoreRequests
<1>16. RequestsLead'
  BY <1>2, <1>15, SentLead
<1>17. ClientHalf'
  BY <1>2, <1>9, <1>11, <1>12, <1>13, <1>14 DEF ClientHalf
<1> QED BY <1>16, <1>17

(* The surfaces of a screen the client knows have new content. *)
LEMMA ChangedHalf ==
  ASSUME ClientHalf, RequestsLead, running, UNCHANGED user,
         NEW i \in Slot, background[i] # None, Changed(i)
  PROVE  ClientHalf' /\ RequestsLead'
<1> DEFINE q1 == <<Request("commit", background[i], 0)>>
           q2 == IF i = 0 THEN <<Request("commit", panel, 0)>> ELSE <<>>
<1>1. Send(q1 \o q2) /\ UNCHANGED clientVars
  BY DEF Changed
<1>2. /\ proxies \in SUBSET Ui /\ background[i] \in proxies
      /\ i = 0 => panel \in proxies
  BY DEF ClientHalf
<1>3. ASSUME NEW u \in proxies
      PROVE  Leads(<<Request("commit", u, 0)>>, proxies, proxies)
  BY <1>2, <1>3, CommitLawful, OneRequest
<1>4. Leads(q1, proxies, proxies) /\ Leads(q2, proxies, proxies)
  BY <1>2, <1>3, NoRequests
<1> HIDE DEF q1, q2
<1>5. Leads(q1 \o q2, proxies, proxies)
  BY <1>4, MoreRequests
<1>6. RequestsLead'
  BY <1>1, <1>5, SentLead DEF clientVars
<1> QED BY <1>1, <1>6 DEF clientVars, ClientHalf

LEMMA RunPamHalf ==
  ASSUME ClientHalf, RequestsLead, UNCHANGED user, NEW b \in BOOLEAN, RunPam(b)
  PROVE  ClientHalf' /\ RequestsLead'
<1>1. running
  BY DEF RunPam
<1>2. CASE b /\ transient = None
  BY <1>2, CrashHalf DEF RunPam
<1>3. CASE b /\ transient # None
  <2>1. /\ transient' = None /\ proxies' = proxies \ {transient}
        /\ Send(<<Request("destroy", transient, 0)>>)
        /\ UNCHANGED <<running, background, panel, popupVars>>
    BY <1>3 DEF RunPam
  <2>2. /\ proxies \in SUBSET Ui /\ transient \in proxies /\ transient[1] = "locker"
        /\ \A v \in proxies : v[1] = "locker" => v = transient
    BY <1>1, <1>3 DEF ClientHalf
  <2>3. Leads(<<Request("destroy", transient, 0)>>, proxies, proxies')
    BY <2>1, <2>2, DestroyLawful, OneRequest
  <2>4. RequestsLead'
    BY <1>1, <2>1, <2>3, SentLead
  <2>5. \A v \in proxies : v[1] # "locker" => v \in proxies'
    BY <2>1, <2>2
  <2>6. ClientHalf'
    BY <1>1, <2>1, <2>2, <2>5 DEF ClientHalf, popupVars
  <2> QED BY <2>4, <2>6
<1>4. CASE ~b
  <2>1. /\ Send(<<>>) /\ UNCHANGED <<transient, proxies, running, background, panel, popupVars>>
    BY <1>4 DEF RunPam
  <2>2. Leads(<<>>, proxies, proxies')
    BY <1>1, <2>1, NoRequests DEF ClientHalf
  <2>3. RequestsLead'
    BY <1>1, <2>1, <2>2, SentLead
  <2> QED BY <2>1, <2>3 DEF ClientHalf, popupVars
<1> QED BY <1>2, <1>3, <1>4

(* What the client does with the first event. *)
LEMMA DispatchHalf ==
  ASSUME ClientKnown, ClientHalf, RequestsLead, ScreensAnnounced,
         UNCHANGED serverVars, Supply, Dispatch(Fresh)
  PROVE  ClientHalf' /\ RequestsLead'
<1> DEFINE e == Head(toClient)
<1>1. running /\ toClient # <<>> /\ UNCHANGED user
  BY DEF Dispatch, serverVars
<1>2. /\ e.type = "connected" => e.arg \in Slot \cup {Beyond}
      /\ e.type = "change" => e.arg \in Slot /\ background[e.arg] # None
  <2>1. Announced(Shown, background, toClient)
    BY <1>1 DEF ScreensAnnounced
  <2>2. e = toClient[1] /\ 1 \in 1..Len(toClient) /\ 1 - 1 = 0
    BY <1>1, <2>1, OneEventLess DEF Announced
  <2>3. \A k \in 1..0 : FALSE
    OBVIOUS
  <2> HIDE DEF e
  <2> QED BY <2>1, <2>2, <2>3 DEF Announced, Told
<1>3. CASE Crash
  BY <1>1, <1>3, CrashHalf
<1>4. CASE e.type = "connected" /\ e.arg # Beyond /\ Connected(e.arg, Fresh)
  <2>1. e.arg \in Slot
    BY <1>2, <1>4
  <2> HIDE DEF e
  <2> QED BY <1>1, <1>4, <2>1, ConnectedHalf
<1>5. CASE e.type = "change" /\ Changed(e.arg)
  <2> HIDE DEF e
  <2> QED BY <1>1, <1>2, <1>5, ChangedHalf
<1>6. CASE Lock(Fresh)
  BY <1>1, <1>6, LockHalf
<1>7. CASE Notify(Fresh)
  BY <1>1, <1>7, NotifyHalf
<1>8. CASE ShouldClose(e.arg)
  BY <1>1, <1>8, ShouldCloseHalf
<1>9. CASE UNCHANGED <<running, background, panel, popupVars, clicks, enters,
                       transient, proxies, toServer>>
  BY <1>1, <1>9 DEF popupVars, ClientHalf, RequestsLead, Alive
<1> QED BY <1>3, <1>4, <1>5, <1>6, <1>7, <1>8, <1>9 DEF Dispatch

LEMMA DispatchStreams ==
  ASSUME ClientHalf, ScreensAnnounced, PlaceAnnounced, UNCHANGED serverVars,
         Supply, Dispatch(Fresh)
  PROVE  ScreensAnnounced' /\ PlaceAnnounced'
<1> DEFINE e == Head(toClient)
<1>1. running /\ toClient # <<>> /\ toClient' = Tail(toClient) /\ UNCHANGED <<shell, slot, top>>
  BY DEF Dispatch, serverVars
<1>s. Shown' = Shown
  BY <1>1 DEF Shown
<1> SUFFICES ASSUME running'
             PROVE  /\ Announced(Shown, background', Tail(toClient))
                    /\ shell = "bound" => Decided(clientTop', Tail(toClient), top)
  BY <1>1, <1>s DEF ScreensAnnounced, PlaceAnnounced
<1>2. /\ Announced(Shown, background, toClient)
      /\ shell = "bound" => Decided(clientTop, toClient, top)
  BY <1>1 DEF ScreensAnnounced, PlaceAnnounced
<1>3. ~Crash
  BY DEF Crash
<1>4. \A i : e = Event("connected", i) => e.type = "connected" /\ e.arg = i
  BY DEF Event
<1> SUFFICES /\ \A i \in Slot : background[i] # None \/ e = Event("connected", i) =>
                                  background'[i] # None
             /\ clientTop' = IF e.type = "panel_pos" THEN e.arg ELSE clientTop
  BY <1>1, <1>2, AnnouncedLess, DecidedLess DEF Announced
<1>5. CASE e.type = "connected" /\ e.arg # Beyond /\ Connected(e.arg, Fresh)
  <2> DEFINE b == New("background", Fresh)
  <2>1. b \in Ui /\ b # None
    BY NewLemma, ShellAssumption DEF Kind
  <2>2. background' = [background EXCEPT ![e.arg] = b] /\ UNCHANGED clientTop
    BY <1>5 DEF Connected
  <2>3. background \in [Slot -> Ui \cup {None}]
    BY <1>1 DEF ClientHalf
  <2> HIDE DEF b, e
  <2>4. \A i \in Slot : background[i] # None \/ e.arg = i => background'[i] # None
    BY <2>1, <2>2, <2>3
  <2> QED BY <1>4, <1>5, <2>2, <2>4
<1>6. CASE e.type \notin {"connected", "panel_pos"} /\ UNCHANGED <<background, clientTop>>
  BY <1>4, <1>6
<1>7. CASE /\ e.type = "panel_pos" /\ clientTop' = e.arg
           /\ UNCHANGED background
  BY <1>4, <1>7
<1>8. CASE e.type = "change" /\ Changed(e.arg)
  BY <1>6, <1>8 DEF Changed, clientVars
<1>9. CASE e.type = "lock" /\ Lock(Fresh)
  BY <1>3, <1>6, <1>9 DEF Lock, SetupLocker, clientVars
<1>10. CASE e.type = "notification" /\ Notify(Fresh)
  BY <1>3, <1>6, <1>10 DEF Notify, clientVars
<1>11. CASE e.type = "close" /\ ShouldClose(e.arg)
  BY <1>3, <1>6, <1>11 DEF ShouldClose, clientVars
<1> QED BY <1>3, <1>5, <1>7, <1>8, <1>9, <1>10, <1>11 DEF Dispatch

(***************************************************************************)
(* The session keeps the second invariant                                  *)
(***************************************************************************)
LEMMA InitHolds == Init => SInv
<1> SUFFICES ASSUME Init PROVE SInv
  OBVIOUS
<1>1. PICK start \in Starts :
        /\ slot = [i \in Slot |-> IF i < Len(start) THEN start[i + 1] ELSE None]
        /\ screens = {start[k] : k \in 1..Len(start)}
  BY DEF Init, InitServer
<1>2. start \in Seq(Output) /\ \A j, k \in 1..Len(start) : start[j] = start[k] => j = k
  BY StartsAssumption
<1>3. ASSUME NEW i \in Slot
      PROVE  IF i < Len(start) THEN i + 1 \in 1..Len(start) ELSE slot[i] = None
  BY <1>1, <1>2, ShellAssumption DEF Slot
<1>4. SlotsKnown
  <2>1. ASSUME NEW i \in Slot
        PROVE  /\ slot[i] \in Output \cup {None}
               /\ slot[i] # None => i + 1 \in 1..Len(start) /\ slot[i] = start[i + 1]
    <3>1. CASE i < Len(start)
      <4>1. i + 1 \in 1..Len(start) /\ slot[i] = start[i + 1]
        BY <1>1, <1>3, <3>1
      <4>2. start[i + 1] \in Output
        BY <1>2, <4>1
      <4> QED BY <4>1, <4>2
    <3>2. CASE ~(i < Len(start))
      BY <1>3, <3>2
    <3> QED BY <3>1, <3>2
  <2>2. \A i \in Slot : slot[i] # None => slot[i] \in screens
    BY <1>1, <2>1
  <2>3. \A i, j \in Slot : slot[i] # None /\ slot[i] = slot[j] => i = j
    <3> SUFFICES ASSUME NEW i \in Slot, NEW j \in Slot, slot[i] # None, slot[i] = slot[j]
                 PROVE  i = j
      OBVIOUS
    <3>1. i + 1 = j + 1
      BY <1>2, <2>1
    <3>2. i \in Int /\ j \in Int
      BY ShellAssumption DEF Slot
    <3> QED BY <3>1, <3>2
  <2>4. slot \in [Slot -> Output \cup {None}]
    BY <1>1, <2>1
  <2>5. /\ height \in [Slot -> BOOLEAN] /\ area \in [Output -> Part] /\ moved \subseteq Output
        /\ idle \in Seq(Slot)
    BY DEF Init, InitServer, Part
  <2> QED BY <2>2, <2>3, <2>4, <2>5 DEF SlotsKnown
<1>5. ElementsKnown
  <2>1. Cleared \in ElementType /\ Cleared.resource = None
    BY DEF Cleared, ElementType
  <2>2. elem \in [Elem -> ElementType] /\ \A e \in Elem : elem[e].resource = None
    BY <2>1 DEF Init, InitServer
  <2>3. user \in [Ui -> Elem \cup {None}] /\ \A u \in Ui : user[u] = None
    BY DEF Init, InitServer
  <2> QED BY <2>2, <2>3, Elements DEF ElementsKnown, Sole, Alive
<1>6. HeightsKnown /\ \A i \in Slot : Space(i) = "whole"
  BY DEF Init, InitServer, HeightsKnown, Space
<1>7. SpaceTold
  <2>1. \A i \in Slot : slot[i] # None => area[slot[i]] = "whole"
    BY <1>4 DEF Init, InitServer, SlotsKnown
  <2> QED BY <1>6, <2>1 DEF SpaceTold, Heard
<1>8. screens \subseteq Output
  BY <1>1, <1>2
<1>9. ClientHalf
  <2>1. 0 \in Slot
    BY ShellAssumption DEF Slot
  <2> QED BY <2>1 DEF Init, InitClient, ClientHalf
<1>10. RequestsLead
  <2>1. Alive = {} /\ proxies = {} /\ toServer = <<>>
    BY DEF Init, InitServer, InitClient, Alive
  <2> QED BY <2>1, NoRequests DEF RequestsLead
<1>11. ScreensAnnounced /\ PlaceAnnounced
  <2>1. toClient = <<>> /\ shell = "none" /\ \A i \in Slot : Shown[i] = None
    BY DEF Init, InitServer, Shown
  <2>2. IsStream(<<>>) /\ \A k \in 1..Len(<<>>) : FALSE
    BY ShortStreams
  <2>3. Announced(Shown, background, <<>>)
    BY <2>1, <2>2 DEF Announced
  <2> QED BY <2>1, <2>3 DEF ScreensAnnounced, PlaceAnnounced
<1> QED BY <1>4, <1>5, <1>6, <1>7, <1>8, <1>9, <1>10, <1>11 DEF SInv, ServerHalf

LEMMA HalfKept ==
  ASSUME ServerHalf, ~fault,
         UNCHANGED <<screens, slot, area, moved, top, elem, user, height, idle, shell>>
  PROVE  ServerHalf'
<1>1. ElementsKnown' /\ SlotsKnown'
  BY DEF ServerHalf, ElementsKnown, SlotsKnown, Sole, Alive
<1>2. HeightsKnown' /\ SpaceTold'
  BY DEF ServerHalf, HeightsKnown, SpaceTold, Heard, Space
<1> QED BY <1>1, <1>2 DEF ServerHalf

(* The panel is on the other side of the screens than the desktop heard.    *)
LEMMA PanelPosHalf ==
  ASSUME ServerHalf, ~fault, SetPanelPos
  PROVE  ServerHalf'
<1>1. /\ UNCHANGED <<screens, slot, area, elem, user, height, idle, shell>>
      /\ moved' = Output
  BY DEF SetPanelPos, uiVars
<1>2. ElementsKnown' /\ SlotsKnown' /\ HeightsKnown'
  BY <1>1 DEF ServerHalf, ElementsKnown, SlotsKnown, HeightsKnown, Sole, Alive
<1>3. \A i \in Slot : Space(i)' = "whole" <=> Space(i) = "whole"
  BY <1>1 DEF Space
<1>4. ASSUME NEW i \in Slot, slot[i] # None, Heard(i) PROVE Heard(i)'
  <2>1. slot[i] \in Output
    BY <1>4 DEF ServerHalf, SlotsKnown
  <2>2. area[slot[i]] = "whole" <=> Space(i) = "whole"
    BY <1>4 DEF Heard
  <2> QED BY <1>1, <1>3, <2>1, <2>2 DEF Heard
<1>5. SpaceTold'
  BY <1>1, <1>4 DEF ServerHalf, SpaceTold
<1> QED BY <1>1, <1>2, <1>5 DEF ServerHalf

LEMMA StreamsKept ==
  ASSUME ScreensAnnounced, PlaceAnnounced, UNCHANGED <<slot, shell, top, toClient>>,
         ~running' \/ UNCHANGED <<running, background, clientTop>>
  PROVE  ScreensAnnounced' /\ PlaceAnnounced'
  BY DEF ScreensAnnounced, PlaceAnnounced, Shown

LEMMA TurnHolds ==
  ASSUME SInv, ~fault, Turn, UNCHANGED clientVars
  PROVE  SInv'
<1>1. ServerHalf'
  <2>1. ASSUME NEW o \in Output, Plug(o) \/ Unplug(o) \/ Resize(o) PROVE ServerHalf'
    BY <2>1, PlugHalf, UnplugHalf, ResizeHalf DEF SInv
  <2>2. CASE PostNotification
    BY <2>2, HalfKept DEF PostNotification, outputVars, uiVars, SInv
  <2>3. CASE SetPanelPos
    BY <2>3, PanelPosHalf DEF SInv
  <2> QED BY <2>1, <2>2, <2>3 DEF Turn
<1>2. UNCHANGED <<user, toServer>>
  BY DEF Turn, Plug, Unplug, PostNotification, SetPanelPos, Resize, uiVars
<1>3. ClientHalf' /\ RequestsLead'
  BY <1>2 DEF SInv, ClientHalf, RequestsLead, Alive, clientVars
<1> QED BY <1>1, <1>3, TurnStreams DEF SInv

LEMMA MessageHolds ==
  ASSUME SInv, IInv, ~fault, MessageNext, UNCHANGED clientVars
  PROVE  SInv'
<1>1. UNCHANGED <<screens, slot, area, moved, top, elem, user, height, idle, shell, toServer>>
  BY DEF MessageNext, CompositorIdle, LoseFocus, outputVars, uiVars
<1>2. ServerHalf'
  BY <1>1, HalfKept DEF SInv
<1>3. ClientHalf' /\ RequestsLead'
  BY <1>1 DEF SInv, ClientHalf, RequestsLead, Alive, clientVars
<1> QED BY <1>2, <1>3, MessageStreams DEF SInv, IInv

LEMMA UserHolds ==
  ASSUME SInv, IInv, ~fault, UserNext, UNCHANGED serverVars
  PROVE  SInv'
<1>1. UNCHANGED <<screens, slot, area, moved, elem, user, height, idle, shell, top>>
  BY DEF serverVars
<1>2. ServerHalf' /\ 0 \in Slot
  BY <1>1, HalfKept, ShellAssumption DEF SInv, Slot
<1>3. ASSUME NEW w \in Widget, ClickPanel(w) PROVE SInv'
  <2>1. /\ UNCHANGED <<running, background, panel, current, proxy, transient, proxies,
                       clientTop, toClient, toServer>>
        /\ at' = 0 \/ at' = at
    BY <1>3 DEF ClickPanel, Choose
  <2>2. ClientHalf' /\ RequestsLead'
    BY <1>1, <1>2, <2>1 DEF SInv, ClientHalf, RequestsLead, Alive
  <2> QED BY <1>1, <1>2, <2>1, <2>2, StreamsKept DEF SInv
<1>4. ASSUME NEW i \in Slot, Supply, LaunchMenu(i, Fresh) PROVE SInv'
  <2> DEFINE u == New("widget", Fresh)
  <2>1. u \in Ui /\ u[1] = "widget" /\ u \notin proxies
    BY <1>4, NewLemma DEF Kind, Fresh
  <2>2. /\ running /\ current' = Menu /\ proxy' = [Closed EXCEPT ![Menu] = u]
        /\ proxies' = Remaining \cup {u}
        /\ Send(Closing \o <<Request("widget", u, i), Request("commit", u, 0)>>)
        /\ UNCHANGED <<running, background, panel, transient, clientTop, toClient>>
        /\ at' = 0 \/ at' = i
    BY <1>4 DEF LaunchMenu, Choose
  <2> HIDE DEF u
  <2>3. Menu \in Popup /\ at' \in Slot
    BY <1>2, <2>2 DEF Popup
  <2>4. RequestsLead'
    BY <1>1, <2>1, <2>2, OpeningLead DEF SInv, IInv
  <2>5. ClientHalf'
    BY <2>1, <2>2, <2>3, OpenedHalf DEF SInv, IInv, Kept
  <2> QED BY <1>1, <1>2, <2>2, <2>4, <2>5, StreamsKept DEF SInv
<1>5. CASE Enter
  <2>1. UNCHANGED <<running, background, panel, current, proxy, at, transient, proxies,
                    clientTop, toClient, toServer>>
    BY <1>5 DEF Enter, popupVars
  <2>2. ClientHalf' /\ RequestsLead'
    BY <1>1, <2>1 DEF SInv, ClientHalf, RequestsLead, Alive
  <2> QED BY <1>1, <1>2, <2>1, <2>2, StreamsKept DEF SInv
<1>6. CASE Exit
  <2>1. Crash /\ UNCHANGED toClient /\ ~running'
    BY <1>6 DEF Exit, Crash
  <2> QED BY <1>1, <1>2, <2>1, CrashHalf, StreamsKept DEF SInv
<1> QED BY <1>3, <1>4, <1>5, <1>6 DEF UserNext

LEMMA ClientHolds ==
  ASSUME SInv, IInv, ~fault, ClientNext, UNCHANGED serverVars
  PROVE  SInv'
<1>1. UNCHANGED <<screens, slot, area, moved, elem, user, height, idle, shell, top>>
  BY DEF serverVars
<1>2. ServerHalf' /\ 0 \in Slot
  BY <1>1, HalfKept, ShellAssumption DEF SInv, Slot
<1>3. CASE Supply /\ Dispatch(Fresh)
  BY <1>2, <1>3, DispatchHalf, DispatchStreams DEF SInv, IInv
<1>4. CASE Supply /\ PanelLaunchWidget(Fresh)
  <2>1. /\ running /\ chosen \in Popup /\ at \in Slot /\ Launch(chosen, at, Fresh)
        /\ UNCHANGED <<running, background, panel, transient, clientTop, toClient>>
        /\ at' = 0 \/ at' = at
    BY <1>4 DEF PanelLaunchWidget, Choose, IInv, ClientKnown, SInv, ClientHalf
  <2>2. at' \in Slot
    BY <1>2, <2>1
  <2>3. ClientHalf' /\ RequestsLead'
    BY <1>1, <1>4, <2>1, <2>2, LaunchHalf DEF SInv, IInv, Kept
  <2> QED BY <1>1, <1>2, <2>1, <2>3, StreamsKept DEF SInv
<1>5. ASSUME NEW b \in BOOLEAN, RunPam(b) PROVE SInv'
  <2>1. /\ UNCHANGED toClient
        /\ ~running' \/ UNCHANGED <<running, background, clientTop>>
    BY <1>5 DEF RunPam, Crash
  <2>2. ClientHalf' /\ RequestsLead'
    BY <1>1, <1>5, RunPamHalf DEF SInv
  <2> QED BY <1>1, <1>2, <2>1, <2>2, StreamsKept DEF SInv
<1> QED BY <1>3, <1>4, <1>5 DEF ClientNext

LEMMA ServerHolds ==
  ASSUME SInv, ~fault, ServerNext
  PROVE  SInv'
<1>1. UNCHANGED clientVars
  BY DEF ServerNext
<1>2. ClientHalf' /\ UNCHANGED <<running, background, clientTop, proxies>>
  BY <1>1 DEF SInv, ClientHalf, clientVars
<1>3. CASE running /\ Bind
  <2>1. shell = "none" /\ UNCHANGED <<screens, slot, area, moved, top, elem, user, height, idle, toServer>>
        /\ UNCHANGED fault
    BY <1>3 DEF Bind, outputVars, uiVars
  <2>2. ServerHalf'
    <3>1. ElementsKnown' /\ SlotsKnown'
      BY <2>1 DEF SInv, ServerHalf, ElementsKnown, SlotsKnown, Sole, Alive
    <3>2. HeightsKnown' /\ SpaceTold'
      BY <2>1 DEF SInv, ServerHalf, HeightsKnown, SpaceTold, Heard, Space
    <3> QED BY <2>1, <3>1, <3>2 DEF SInv, ServerHalf
  <2>3. RequestsLead'
    BY <1>2, <2>1 DEF SInv, RequestsLead, Alive
  <2> QED BY <1>1, <1>2, <1>3, <2>2, <2>3, BindStreams DEF SInv
<1>4. CASE Receive
  <2>1. UNCHANGED <<slot, shell, top, toClient>>
    BY <1>4 DEF Receive, outputVars
  <2> QED BY <1>1, <1>2, <1>4, <2>1, ReceiveHalf, StreamsKept DEF SInv
<1>5. CASE RunIdle
  <2>1. UNCHANGED <<slot, shell, top, toClient, toServer, user>>
    BY <1>5 DEF RunIdle, uiVars
  <2>2. RequestsLead'
    BY <1>2, <2>1 DEF SInv, RequestsLead, Alive
  <2> QED BY <1>2, <1>5, <2>1, <2>2, RunIdleHalf, StreamsKept DEF SInv
<1>6. CASE ~running /\ Hangup
  <2>1. ScreensAnnounced' /\ PlaceAnnounced'
    BY <1>2, <1>6 DEF ScreensAnnounced, PlaceAnnounced
  <2> QED BY <1>1, <1>2, <1>6, <2>1, HangupHalf DEF SInv
<1> QED BY <1>3, <1>4, <1>5, <1>6 DEF ServerNext

LEMMA NextHolds == SInv /\ IInv /\ [Next]_vars => SInv'
<1> SUFFICES ASSUME SInv, IInv, [Next]_vars PROVE SInv'
  OBVIOUS
<1>1. ASSUME Next PROVE ~fault
  BY <1>1 DEF Next
<1>2. CASE ~fault /\ Turn /\ UNCHANGED clientVars
  BY <1>2, TurnHolds
<1>3. CASE ~fault /\ MessageNext /\ UNCHANGED clientVars
  BY <1>3, MessageHolds
<1>4. CASE ~fault /\ BindAgain /\ UNCHANGED clientVars
  <2>1. UNCHANGED <<screens, slot, area, moved, elem, user, height, idle, shell, top, toClient, toServer>>
    BY <1>4 DEF BindAgain, outputVars, uiVars
  <2>2. ClientHalf' /\ RequestsLead' /\ UNCHANGED <<running, background, clientTop>>
    BY <1>4, <2>1 DEF SInv, ClientHalf, RequestsLead, Alive, clientVars
  <2> QED BY <1>4, <2>1, <2>2, HalfKept, StreamsKept DEF SInv
<1>5. CASE ~fault /\ UserNext /\ UNCHANGED serverVars
  BY <1>5, UserHolds
<1>6. CASE ~fault /\ ClientNext /\ UNCHANGED serverVars
  BY <1>6, ClientHolds
<1>7. CASE ~fault /\ ServerNext
  BY <1>7, ServerHolds
<1>8. CASE UNCHANGED vars
  <2>1. ServerHalf'
    <3>1. ElementsKnown' /\ SlotsKnown'
      BY <1>8 DEF vars, serverVars, SInv, ServerHalf, ElementsKnown, SlotsKnown, Sole, Alive
    <3>2. HeightsKnown' /\ SpaceTold'
      BY <1>8 DEF vars, serverVars, SInv, ServerHalf, HeightsKnown, SpaceTold, Heard, Space
    <3> QED BY <1>8, <3>1, <3>2 DEF vars, serverVars, SInv, ServerHalf
  <2>2. ClientHalf' /\ RequestsLead'
    BY <1>8 DEF vars, serverVars, clientVars, SInv, ClientHalf, RequestsLead, Alive
  <2>3. ScreensAnnounced' /\ PlaceAnnounced'
    BY <1>8, StreamsKept DEF vars, serverVars, clientVars, SInv
  <2> QED BY <2>1, <2>2, <2>3 DEF SInv
<1> QED BY <1>1, <1>2, <1>3, <1>4, <1>5, <1>6, <1>7, <1>8 DEF Next

(* In every state the two halves hold, and the streams lead from one to    *)
(* the other.                                                              *)
THEOREM HalvesFit == Spec => []SInv
  BY InitHolds, NextHolds, Invariance, PTL DEF Spec

(* With nothing on its way, the compositor and the client have the same    *)
(* objects, the same widget and locker and the same place for the panel.   *)
THEOREM SidesDoAgree == Spec => []SidesAgree
<1>1. ASSUME SInv, IInv, Quiet PROVE SidesAgree
  <2>1. running /\ shell = "bound" /\ toClient = <<>> /\ toServer = <<>>
    BY <1>1 DEF Quiet
  <2>2. proxies = Alive
    BY <1>1, <2>1, NoRequests DEF SInv, RequestsLead
  <2>3. ASSUME NEW u \in proxies, NEW e \in Elem, e \in {TheWidget, TheLocker}, u[1] = e[1]
        PROVE  elem[e].resource = u
    <3>1. u \in Ui /\ user[u] \in Elem /\ user[u][1] = u[1]
      BY <1>1, <2>2, <2>3 DEF Alive, SInv, ServerHalf, ElementsKnown
    <3>2. user[u] = e
      BY <2>3, <3>1, Elements
    <3> QED BY <1>1, <2>3, <3>1, <3>2 DEF SInv, ServerHalf, ElementsKnown, Sole
  <2>4. ASSUME NEW e \in Elem, e \in {TheWidget, TheLocker}, elem[e].resource # None
        PROVE  elem[e].resource \in proxies /\ elem[e].resource[1] = e[1]
    <3> DEFINE u == elem[e].resource
    <3>1. u \in Ui /\ user[u] = e
      BY <1>1, <2>4 DEF SInv, ServerHalf, ElementsKnown, ElementType, Sole
    <3>2. u \in Alive
      BY <3>1, Elements DEF Alive
    <3>3. user[u][1] = u[1]
      BY <1>1, <3>2 DEF SInv, ServerHalf, ElementsKnown
    <3> QED BY <2>2, <3>1, <3>2, <3>3
  <2>5. elem[TheWidget].resource = IF current = None THEN None ELSE proxy[current]
    <3>1. CASE current = None
      <4>1. \A u \in proxies : u[1] # "widget"
        BY <1>1, <3>1 DEF IInv, ClientKnown
      <4> QED BY <2>4, <3>1, <4>1, Elements
    <3>2. CASE current # None
      <4>1. proxy[current] \in proxies /\ proxy[current][1] = "widget"
        BY <1>1, <2>1, <3>2 DEF SInv, ClientHalf
      <4> QED BY <2>3, <3>2, <4>1, Elements
    <3> QED BY <3>1, <3>2
  <2>6. elem[TheLocker].resource = transient
    <3>1. CASE transient = None
      <4>1. \A u \in proxies : u # None /\ (u[1] = "locker" => u = None)
        BY <1>1, <2>1, <3>1, ShellAssumption DEF SInv, ClientHalf
      <4> QED BY <2>4, <3>1, <4>1, Elements
    <3>2. CASE transient # None
      <4>1. transient \in proxies /\ transient[1] = "locker"
        BY <1>1, <2>1, <3>2 DEF SInv, ClientHalf
      <4> QED BY <2>3, <4>1, Elements
    <3> QED BY <3>1, <3>2
  <2>7. clientTop = top
    <3>1. \A k \in 1..Len(toClient) : FALSE
      BY <2>1
    <3> QED BY <1>1, <2>1, <3>1 DEF SInv, PlaceAnnounced, Decided
  <2> QED BY <2>2, <2>5, <2>6, <2>7 DEF SidesAgree, Alive
<1>2. SInv /\ IInv => SidesAgree
  BY <1>1 DEF SidesAgree
<1> QED BY <1>2, HalvesFit, Invariance, PTL

(* Of every screen the desktop knows what the panel leaves, but for the     *)
(* side it is on if that changed since the desktop was told, or an idle    *)
(* callback that will tell it is queued.                                   *)
THEOREM SpaceIsKnown == Spec => []SpaceKnown
<1>1. SInv => SpaceKnown
  BY DEF SInv, ServerHalf, SpaceTold, SpaceKnown, In
<1> QED BY <1>1, HalvesFit, PTL
================================================================================
