----------------------------- MODULE DesktopProofs -----------------------------
(***************************************************************************)
(* Desktop for every set of windows and any number of workspaces: the      *)
(* invariants that hold whatever the clients request.                      *)
(***************************************************************************)
EXTENDS Desktop, SequenceTheorems, FiniteSetTheorems, TLAPS

(***************************************************************************)
(* Taking a link out of a list, and putting it at either end               *)
(***************************************************************************)

(* Removing a view from a list without duplicates leaves the others, once.  *)
LEMMA WithoutLemma ==
  ASSUME NEW s \in Seq(Views), IsInjective(s), NEW v
  PROVE  /\ Without(s, v) \in Seq(Views)
         /\ IsInjective(Without(s, v))
         /\ \A x : Contains(Without(s, v), x) <=> Contains(s, x) /\ x # v
<1>1. CASE ~Contains(s, v)
  BY <1>1 DEF Without, Contains
<1>2. CASE Contains(s, v)
  <2> DEFINE k == CHOOSE i \in 1..Len(s) : s[i] = v
             t == [j \in 1..Len(s) - 1 |-> IF j < k THEN s[j] ELSE s[j+1]]
  <2>1. k \in 1..Len(s) /\ s[k] = v
    BY <1>2 DEF Contains
  <2>2. Len(s) \in Nat /\ \A i \in 1..Len(s) : s[i] \in Views
    OBVIOUS
  <2>3. RemoveAt(s, k) = t
    <3> HIDE DEF k
    <3> DEFINE a == SubSeq(s, 1, k-1)
               b == SubSeq(s, k+1, Len(s))
    <3>1. a \in Seq(Views) /\ Len(a) = k-1 /\ \A i \in 1..k-1 : a[i] = s[i]
      BY <2>1, <2>2
    <3>2. b \in Seq(Views) /\ Len(b) = Len(s) - k
                           /\ \A i \in 1..Len(s)-k : b[i] = s[k+i]
      BY <2>1, <2>2
    <3> HIDE DEF a, b
    <3>3. Len(a \o b) = Len(s) - 1
      BY <3>1, <3>2, <2>1
    <3>4. \A j \in 1..Len(s)-1 : (a \o b)[j] = IF j < k THEN s[j] ELSE s[j+1]
      BY <3>1, <3>2, <2>1
    <3>5. a \o b \in Seq(Views)
      BY <3>1, <3>2
    <3>6. t \in Seq(Views) /\ Len(t) = Len(s) - 1
      BY <2>1, <2>2
    <3>7. \A j \in 1..Len(s)-1 : t[j] = IF j < k THEN s[j] ELSE s[j+1]
      OBVIOUS
    <3> HIDE DEF t
    <3>8. a \o b = t
      BY <3>3, <3>4, <3>5, <3>6, <3>7, SeqEqual
    <3> QED BY <3>8 DEF RemoveAt, a, b
  <2>4. Without(s, v) = t
    BY <2>3, <1>2 DEF Without
  <2> HIDE DEF k
  <2>5. t \in Seq(Views) /\ Len(t) = Len(s) - 1
    BY <2>1, <2>2
  <2>6. IsInjective(t)
    BY <2>1, <2>2 DEF IsInjective
  <2>7. ASSUME NEW x, Contains(t, x) PROVE Contains(s, x) /\ x # v
    <3>1. PICK j \in 1..Len(s) - 1 : t[j] = x
      BY <2>5, <2>7 DEF Contains
    <3>2. CASE j < k
      BY <3>1, <3>2, <2>1, <2>2 DEF Contains, IsInjective
    <3>3. CASE ~(j < k)
      BY <3>1, <3>3, <2>1, <2>2 DEF Contains, IsInjective
    <3> QED BY <3>2, <3>3
  <2>8. ASSUME NEW x, Contains(s, x), x # v PROVE Contains(t, x)
    <3>1. PICK i \in 1..Len(s) : s[i] = x
      BY <2>8 DEF Contains
    <3>2. CASE i < k
      <4>1. i \in 1..Len(s)-1 /\ t[i] = x
        BY <3>1, <3>2, <2>1, <2>2
      <4> QED BY <4>1, <2>5 DEF Contains
    <3>3. CASE i > k
      <4>1. i-1 \in 1..Len(s)-1 /\ t[i-1] = x
        BY <3>1, <3>3, <2>1, <2>2
      <4> QED BY <4>1, <2>5 DEF Contains
    <3>4. i # k
      BY <3>1, <2>1, <2>8
    <3> QED BY <3>2, <3>3, <3>4, <2>1
  <2> QED BY <2>4, <2>5, <2>6, <2>7, <2>8
<1> QED BY <1>1, <1>2

(* A view that is not in a list can be put at its front or at its end.      *)
LEMMA FrontLemma ==
  ASSUME NEW s \in Seq(Views), IsInjective(s), NEW v \in Views, ~Contains(s, v)
  PROVE  /\ <<v>> \o s \in Seq(Views)
         /\ IsInjective(<<v>> \o s)
         /\ \A x : Contains(<<v>> \o s, x) <=> Contains(s, x) \/ x = v
<1> DEFINE t == <<v>> \o s
<1>1. t \in Seq(Views) /\ Len(t) = Len(s) + 1
  OBVIOUS
<1>2. t[1] = v /\ \A i \in 1..Len(s) : t[i+1] = s[i]
  OBVIOUS
<1>3. \A j \in 1..Len(t) : j = 1 \/ (j-1 \in 1..Len(s) /\ t[j] = s[j-1])
  BY <1>1, <1>2
<1> HIDE DEF t
<1>4. IsInjective(t)
  BY <1>1, <1>2, <1>3 DEF IsInjective, Contains
<1>5. ASSUME NEW x PROVE Contains(t, x) <=> Contains(s, x) \/ x = v
  <2>1. ASSUME Contains(s, x) PROVE Contains(t, x)
    <3>1. PICK i \in 1..Len(s) : s[i] = x
      BY <2>1 DEF Contains
    <3>2. i+1 \in 1..Len(t) /\ t[i+1] = x
      BY <3>1, <1>1, <1>2
    <3> QED BY <3>2 DEF Contains
  <2>2. Contains(t, v)
    BY <1>1, <1>2 DEF Contains
  <2>3. ASSUME Contains(t, x) PROVE Contains(s, x) \/ x = v
    BY <2>3, <1>2, <1>3 DEF Contains
  <2> QED BY <2>1, <2>2, <2>3
<1> QED BY <1>1, <1>4, <1>5 DEF t

LEMMA EndLemma ==
  ASSUME NEW s \in Seq(Views), IsInjective(s), NEW v \in Views, ~Contains(s, v)
  PROVE  /\ Append(s, v) \in Seq(Views)
         /\ IsInjective(Append(s, v))
         /\ \A x : Contains(Append(s, v), x) <=> Contains(s, x) \/ x = v
<1> DEFINE t == Append(s, v)
<1>1. t \in Seq(Views) /\ Len(t) = Len(s) + 1 /\ Len(s) \in Nat
  OBVIOUS
<1>2. t[Len(t)] = v /\ \A i \in 1..Len(s) : t[i] = s[i]
  OBVIOUS
<1> HIDE DEF t
<1>3. IsInjective(t)
  BY <1>1, <1>2 DEF IsInjective, Contains
<1>4. ASSUME NEW x PROVE Contains(t, x) <=> Contains(s, x) \/ x = v
  BY <1>1, <1>2 DEF Contains
<1> QED BY <1>1, <1>3, <1>4 DEF t

(***************************************************************************)
(* The recent lists of all workspaces                                      *)
(***************************************************************************)
Proper(r) ==
  /\ r \in [Workspaces -> Seq(Views)]
  /\ \A w \in Workspaces : IsInjective(r[w])

(* Unlinking a view leaves every list proper and takes out that view only.  *)
LEMMA UnlinkedLemma ==
  ASSUME NEW r, Proper(r), NEW v
  PROVE  /\ Proper(Unlinked(r, v))
         /\ \A w \in Workspaces : \A x :
              Contains(Unlinked(r, v)[w], x) <=> Contains(r[w], x) /\ x # v
<1>1. ASSUME NEW w \in Workspaces
      PROVE  /\ Unlinked(r, v)[w] = Without(r[w], v)
             /\ Without(r[w], v) \in Seq(Views)
             /\ IsInjective(Without(r[w], v))
             /\ \A x : Contains(Without(r[w], v), x) <=> Contains(r[w], x) /\ x # v
  <2>1. r[w] \in Seq(Views) /\ IsInjective(r[w])
    BY DEF Proper
  <2> QED BY <2>1, WithoutLemma DEF Unlinked
<1>2. Unlinked(r, v) \in [Workspaces -> Seq(Views)]
  BY <1>1 DEF Unlinked
<1> QED BY <1>1, <1>2 DEF Proper

(* What unlinking v and linking it into w's list has done to the lists r.   *)
Moved(r, rr, w, v) ==
  /\ Proper(rr)
  /\ \A u \in Workspaces : \A x :
       Contains(rr[u], x) <=> IF x = v THEN u = w ELSE Contains(r[u], x)

(* Focusing moves the view into the list of the workspace, and only it.     *)
LEMMA FocusedLemma ==
  ASSUME NEW r, Proper(r), NEW v \in Views, NEW w \in Workspaces
  PROVE  Moved(r, Focused(r, w, v), w, v)
<1> DEFINE q == Unlinked(r, v)
           f == Focused(r, w, v)
<1>1. /\ Proper(q)
      /\ \A u \in Workspaces : \A x : Contains(q[u], x) <=> Contains(r[u], x) /\ x # v
  BY UnlinkedLemma
<1>2. q \in [Workspaces -> Seq(Views)] /\ f = [q EXCEPT ![w] = <<v>> \o @]
  BY <1>1 DEF Proper, Focused
<1> HIDE DEF q, f
<1>3. /\ <<v>> \o q[w] \in Seq(Views)
      /\ IsInjective(<<v>> \o q[w])
      /\ \A x : Contains(<<v>> \o q[w], x) <=> Contains(q[w], x) \/ x = v
  <2>1. q[w] \in Seq(Views) /\ IsInjective(q[w]) /\ ~Contains(q[w], v)
    BY <1>1 DEF Proper
  <2> QED BY <2>1, FrontLemma
<1>4. f[w] = <<v>> \o q[w] /\ \A u \in Workspaces \ {w} : f[u] = q[u]
  BY <1>2
<1>5. Proper(f)
  BY <1>1, <1>2, <1>3, <1>4 DEF Proper
<1>6. ASSUME NEW u \in Workspaces, NEW x
      PROVE  Contains(f[u], x) <=> IF x = v THEN u = w ELSE Contains(r[u], x)
  <2>1. CASE u = w  BY <2>1, <1>1, <1>3, <1>4
  <2>2. CASE u # w
    <3>1. f[u] = q[u]
      BY <2>2, <1>4
    <3> QED BY <3>1, <2>2, <1>1
  <2> QED BY <2>1, <2>2
<1> QED BY <1>5, <1>6 DEF Moved, f

(* Defocusing a view of the workspace does the same, at the other end.      *)
LEMMA DefocusedLemma ==
  ASSUME NEW r, Proper(r), NEW v \in Views, NEW w \in Workspaces, On(v, w)
  PROVE  Moved(r, Defocused(r, w, v), w, v)
<1> DEFINE q == Unlinked(r, v)
           f == Defocused(r, w, v)
<1>1. /\ Proper(q)
      /\ \A u \in Workspaces : \A x : Contains(q[u], x) <=> Contains(r[u], x) /\ x # v
  BY UnlinkedLemma
<1>2. q \in [Workspaces -> Seq(Views)] /\ f = [q EXCEPT ![w] = Append(@, v)]
  BY <1>1 DEF Proper, Defocused
<1> HIDE DEF q, f
<1>3. /\ Append(q[w], v) \in Seq(Views)
      /\ IsInjective(Append(q[w], v))
      /\ \A x : Contains(Append(q[w], v), x) <=> Contains(q[w], x) \/ x = v
  <2>1. q[w] \in Seq(Views) /\ IsInjective(q[w]) /\ ~Contains(q[w], v)
    BY <1>1 DEF Proper
  <2> QED BY <2>1, EndLemma
<1>4. f[w] = Append(q[w], v) /\ \A u \in Workspaces \ {w} : f[u] = q[u]
  BY <1>2
<1>5. Proper(f)
  BY <1>1, <1>2, <1>3, <1>4 DEF Proper
<1>6. ASSUME NEW u \in Workspaces, NEW x
      PROVE  Contains(f[u], x) <=> IF x = v THEN u = w ELSE Contains(r[u], x)
  <2>1. CASE u = w  BY <2>1, <1>1, <1>3, <1>4
  <2>2. CASE u # w
    <3>1. f[u] = q[u]
      BY <2>2, <1>4
    <3> QED BY <3>1, <2>2, <1>1
  <2> QED BY <2>1, <2>2
<1> QED BY <1>5, <1>6 DEF Moved, f

(* The first view of a workspace is in its list. *)
LEMMA TopLemma ==
  ASSUME NEW r, Proper(r), NEW w \in Workspaces, r[w] # <<>>
  PROVE  Top(r, w) \in Views /\ Contains(r[w], Top(r, w))
<1>1. r[w] \in Seq(Views) /\ Len(r[w]) \in Nat /\ Len(r[w]) # 0
  BY DEF Proper
<1>2. Top(r, w) = r[w][1] /\ 1 \in 1..Len(r[w])
  BY <1>1 DEF Top
<1> QED BY <1>1, <1>2 DEF Contains

(***************************************************************************)
(* The inductive invariant                                                 *)
(***************************************************************************)
IInv ==
  /\ TypeOK /\ LiveOnLayer /\ LayerFitsView /\ OneRecentPlace
  /\ RecentFollowsLayer /\ OnlyActiveShown /\ FocusShown

WindowsOK == LiveOnLayer /\ LayerFitsView
ListsOK == recent \in [Workspaces -> Seq(Views)] /\ OneRecentPlace /\ RecentFollowsLayer
ScreenOK == position \in [Workspaces -> [Shown -> Positions]] /\ OnlyActiveShown

(* Moving a view into the list of the workspace it is on keeps the lists.   *)
LEMMA ListsMoved ==
  ASSUME ListsOK, NEW v \in Views, NEW w \in Workspaces,
         Moved(recent, recent', w, v), live' = live \cup {v}, live \subseteq Views,
         \A x \in live : home[x] \in Workspaces, home'[v] = w,
         \A x \in live \ {v} : home'[x] = home[x] /\ kind'[x] = kind[x]
  PROVE  ListsOK'
<1> USE DEF ListsOK, Moved
<1>1. recent' \in [Workspaces -> Seq(Views)]
  BY DEF Proper
<1>2. OneRecentPlace'
  <2>1. \A u \in Workspaces : IsInjective(recent'[u])
    BY DEF Proper
  <2>2. ASSUME NEW x \in Views
        PROVE  x \in live' <=> \E u \in Workspaces : Contains(recent'[u], x)
    BY DEF OneRecentPlace
  <2>3. ASSUME NEW x \in Views, NEW u1 \in Workspaces, NEW u2 \in Workspaces,
               Contains(recent'[u1], x), Contains(recent'[u2], x)
        PROVE  u1 = u2
    BY <2>3 DEF OneRecentPlace
  <2> QED BY <2>1, <2>2, <2>3 DEF OneRecentPlace
<1>3. RecentFollowsLayer'
  <2> SUFFICES ASSUME NEW x \in live', kind'[x] # "fullscreen"
               PROVE  Contains(recent'[home'[x]], x)
    BY DEF RecentFollowsLayer
  <2>1. CASE x = v
    BY <2>1
  <2>2. CASE x # v
    <3>1. Contains(recent[home[x]], x) /\ home'[x] = home[x]
      BY <2>2 DEF RecentFollowsLayer
    <3>2. home[x] \in Workspaces
      BY <2>2
    <3> QED BY <3>1, <3>2, <2>2
  <2> QED BY <2>1, <2>2
<1> QED BY <1>1, <1>2, <1>3

(* Moving a view that is in the list already does not change who is in it.  *)
LEMMA SameLists ==
  ASSUME NEW r, NEW rr, NEW v, NEW w \in Workspaces, Moved(r, rr, w, v),
         Contains(r[w], v), \A u \in Workspaces : Contains(r[u], v) => u = w
  PROVE  \A u \in Workspaces : \A x : Contains(rr[u], x) <=> Contains(r[u], x)
BY DEF Moved

(* The lists stay as they are when nobody changes who is in them or where   *)
(* the windows are.                                                         *)
LEMMA ListsKept ==
  ASSUME ListsOK, Proper(recent'), live' = live, live \subseteq Views,
         \A x \in live : home[x] \in Workspaces,
         \A u \in Workspaces : \A x : Contains(recent'[u], x) <=> Contains(recent[u], x),
         \A x \in live : home'[x] = home[x],
         \A x \in live : kind'[x] # "fullscreen" => kind[x] # "fullscreen"
  PROVE  ListsOK'
<1>1. recent' \in [Workspaces -> Seq(Views)] /\ OneRecentPlace'
  BY DEF Proper, ListsOK, OneRecentPlace
<1>2. RecentFollowsLayer'
  BY DEF ListsOK, RecentFollowsLayer
<1> QED BY <1>1, <1>2 DEF ListsOK

LEMMA Raising ==
  ASSUME ScreenOK, NEW w \in Workspaces, NEW k, k \in Types => w = active,
         position' = Raised(w, k), active' = active
  PROVE  ScreenOK'
<1>1. CASE k \notin Types
  BY <1>1 DEF ScreenOK, OnlyActiveShown, Raised
<1>2. CASE k \in Types
  <2>1. Other(k) \in Types /\ Other(k) # k /\ Types = {k, Other(k)}
    BY <1>2 DEF Types, Other
  <2>2. Types \subseteq Shown /\ "fullscreen" \in Shown /\ "fullscreen" \notin Types
    BY DEF Types, Shown
  <2>3. position' = [position EXCEPT ![w] =
                       [@ EXCEPT ![k] = "front", ![Other(k)] = "back"]]
    BY <1>2 DEF Raised
  <2>4. /\ position'[w] \in [Shown -> Positions]
        /\ position'[w][k] = "front" /\ position'[w][Other(k)] = "back"
        /\ position'[w]["fullscreen"] = position[w]["fullscreen"]
        /\ \A u \in Workspaces \ {w} : position'[u] = position[u]
    BY <1>2, <2>1, <2>2, <2>3 DEF ScreenOK, Positions
  <2>5. position' \in [Workspaces -> [Shown -> Positions]]
    BY <2>3, <2>4 DEF ScreenOK
  <2>6. {position'[w][t] : t \in Types} = {"back", "front"}
    BY <2>1, <2>4
  <2>7. OnlyActiveShown'
    BY <1>2, <2>4, <2>6 DEF ScreenOK, OnlyActiveShown
  <2> QED BY <2>5, <2>7 DEF ScreenOK
<1> QED BY <1>1, <1>2

LEMMA Switching ==
  ASSUME ScreenOK, NEW w \in Workspaces, active \in Workspaces,
         position' = Switched(w), active' = w
  PROVE  ScreenOK'
<1>1. Off \in [Shown -> Positions] /\ Resting \in [Shown -> Positions]
  BY DEF Off, Resting, Shown, Types, Positions
<1>2. {Resting[t] : t \in Types} = {"back", "front"} /\ Resting["fullscreen"] = "top"
  BY DEF Resting, Types
<1>3. \A u \in Workspaces :
        position'[u] = IF u = w THEN Resting ELSE IF u = active THEN Off ELSE position[u]
  BY DEF Switched, ScreenOK
<1>4. position' \in [Workspaces -> [Shown -> Positions]]
  BY <1>1 DEF Switched, ScreenOK
<1>5. \A u \in Workspaces \ {w} : position'[u] = Off
  BY <1>3 DEF ScreenOK, OnlyActiveShown
<1>6. position'[w] = Resting
  BY <1>3
<1>7. {position'[w][t] : t \in Types} = {"back", "front"}
  BY <1>2, <1>6
<1>8. OnlyActiveShown'
  BY <1>2, <1>5, <1>6, <1>7 DEF OnlyActiveShown
<1> QED BY <1>4, <1>8 DEF ScreenOK

(* Deleting from a tree keeps the leaf counts in their bounds. *)
LEMMA UprootedLemma ==
  ASSUME leaves \in LeafCounts, NEW w \in Workspaces, NEW v \in Views
  PROVE  Uprooted(w, v) \in LeafCounts
<1>1. CASE On(v, w) /\ kind[v] = "tiling"
  <2> DEFINE n == IF leaves[w][v] > 0 THEN leaves[w][v] - 1 ELSE 0
  <2>1. leaves[w] \in [Views -> 0..LeafBound] /\ leaves[w][v] \in 0..LeafBound
    BY DEF LeafCounts
  <2>2. n \in 0..LeafBound
    BY <2>1, DesktopAssumption
  <2>3. Uprooted(w, v) = [leaves EXCEPT ![w][v] = n]
    BY <1>1 DEF Uprooted
  <2> HIDE DEF n
  <2>4. [leaves[w] EXCEPT ![v] = n] \in [Views -> 0..LeafBound]
    BY <2>1, <2>2
  <2> QED BY <2>2, <2>3, <2>4 DEF LeafCounts
<1>2. CASE ~(On(v, w) /\ kind[v] = "tiling")
  BY <1>2 DEF Uprooted
<1> QED BY <1>1, <1>2

(* What the invariant says of a living window. *)
LEMMA LiveLemma ==
  ASSUME TypeOK, LiveOnLayer
  PROVE  \A x \in live : x \in Views /\ home[x] \in Workspaces /\ kind[x] \in Kinds
BY DEF TypeOK, LiveOnLayer

(* MoveTo in all its uses. *)
LEMMA MoveToLemma ==
  ASSUME IInv, NEW v \in Views, NEW w \in Workspaces, NEW t \in Types,
         MoveTo(w, v, t), w = active, active' = active,
         live' = live \cup {v}, type' = [type EXCEPT ![v] = t],
         fullscreen \ {v} \subseteq fullscreen', fullscreen' \subseteq fullscreen
  PROVE  /\ home' \in [Views -> Workspaces \cup {Nowhere}]
         /\ kind' \in [Views -> Kinds \cup {"none"}]
         /\ type' \in [Views -> Types]
         /\ leaves' \in LeafCounts
         /\ WindowsOK' /\ ListsOK' /\ ScreenOK'
         /\ home'[v] = active /\ \A x \in Views \ {v} : home'[x] = home[x] /\ kind'[x] = kind[x]
<1> USE DEF IInv
<1>1. /\ home' = [home EXCEPT ![v] = w] /\ kind' = [kind EXCEPT ![v] = t]
      /\ leaves' \in LeafCounts
      /\ recent' = Focused(recent, w, v) /\ position' = Raised(w, t)
  BY DEF MoveTo
<1>2. /\ home' \in [Views -> Workspaces \cup {Nowhere}]
      /\ kind' \in [Views -> Kinds \cup {"none"}]
      /\ type' \in [Views -> Types]
      /\ home'[v] = w /\ kind'[v] = t /\ type'[v] = t
      /\ \A x \in Views \ {v} : home'[x] = home[x] /\ kind'[x] = kind[x] /\ type'[x] = type[x]
  BY <1>1 DEF TypeOK, Kinds
<1>3. t # "none" /\ t # "fullscreen"
  BY DEF Types
<1>4. WindowsOK'
  <2>1. Nowhere \notin Workspaces
    BY DesktopAssumption
  <2>2. LiveOnLayer'
    BY <1>2, <1>3, <2>1 DEF LiveOnLayer
  <2>3. LayerFitsView'
    BY <1>2, <1>3 DEF LayerFitsView, TypeOK
  <2> QED BY <2>2, <2>3 DEF WindowsOK
<1>5. ListsOK'
  <2>1. Proper(recent)
    BY DEF Proper, TypeOK, OneRecentPlace
  <2>2. Moved(recent, recent', w, v)
    BY <1>1, <2>1, FocusedLemma
  <2>3. ListsOK
    BY DEF ListsOK, TypeOK
  <2>4. live \subseteq Views
    BY DEF TypeOK
  <2> QED BY <1>2, <2>2, <2>3, <2>4, LiveLemma, ListsMoved
<1>6. ScreenOK'
  BY <1>1, Raising DEF ScreenOK, TypeOK
<1> QED BY <1>1, <1>2, <1>4, <1>5, <1>6

(***************************************************************************)
(* The actions preserve the invariant                                      *)
(***************************************************************************)
IInvFacts ==
  /\ live \subseteq Views /\ Proper(recent) /\ ListsOK /\ ScreenOK /\ WindowsOK
  /\ \A x \in live : x \in Views /\ home[x] \in Workspaces /\ kind[x] \in Kinds

LEMMA Facts == ASSUME IInv PROVE IInvFacts
BY LiveLemma DEF IInv, IInvFacts, TypeOK, Proper, OneRecentPlace, ListsOK, ScreenOK, WindowsOK

LEMMA AddedStep == ASSUME IInv, NEW v \in Views, SurfaceAdded(v) PROVE IInv'
<1> DEFINE t == IF v \in XViews THEN "floating" ELSE layout[active]
<1>1. t \in Types /\ active \in Workspaces
  BY DEF IInv, TypeOK, Types
<1> HIDE DEF t
<1>2. /\ MoveTo(active, v, t) /\ type' = [type EXCEPT ![v] = t] /\ live' = live \cup {v}
      /\ focus' = v /\ v \notin live
      /\ UNCHANGED <<fullscreen, layout, active, last, fault>>
  BY DEF SurfaceAdded, t
<1>3. /\ home' \in [Views -> Workspaces \cup {Nowhere}]
      /\ kind' \in [Views -> Kinds \cup {"none"}]
      /\ type' \in [Views -> Types] /\ leaves' \in LeafCounts
      /\ WindowsOK' /\ ListsOK' /\ ScreenOK' /\ home'[v] = active
  BY <1>1, <1>2, MoveToLemma
<1>4. TypeOK'
  BY <1>2, <1>3 DEF IInv, TypeOK, ListsOK, ScreenOK
<1>5. FocusShown'
  BY <1>2, <1>3 DEF FocusShown
<1> QED BY <1>3, <1>4, <1>5 DEF IInv, WindowsOK, ListsOK, ScreenOK

(* Requests that put a living window back on the active workspace. *)
LEMMA PutBackStep ==
  ASSUME IInv, NEW v \in live, MoveTo(active, v, type[v]),
         fullscreen \ {v} \subseteq fullscreen', fullscreen' \subseteq fullscreen,
         UNCHANGED <<live, type, layout, active, last, focus, fault>>
  PROVE  IInv'
<1>1. v \in Views /\ active \in Workspaces /\ type[v] \in Types
  BY DEF IInv, TypeOK
<1>2. live' = live \cup {v} /\ type' = [type EXCEPT ![v] = type[v]]
  BY DEF IInv, TypeOK
<1>3. /\ home' \in [Views -> Workspaces \cup {Nowhere}]
      /\ kind' \in [Views -> Kinds \cup {"none"}]
      /\ type' \in [Views -> Types] /\ leaves' \in LeafCounts
      /\ WindowsOK' /\ ListsOK' /\ ScreenOK' /\ home'[v] = active
      /\ \A x \in Views \ {v} : home'[x] = home[x] /\ kind'[x] = kind[x]
  BY <1>1, <1>2, MoveToLemma
<1>4. TypeOK'
  BY <1>3 DEF IInv, TypeOK, ListsOK, ScreenOK
<1>5. FocusShown'
  BY <1>3 DEF FocusShown, IInv, TypeOK
<1> QED BY <1>3, <1>4, <1>5 DEF IInv, WindowsOK, ListsOK, ScreenOK

(* Changing the type of a window of the active workspace. *)
LEMMA SwitchLayoutStep ==
  ASSUME IInv, NEW v \in live, SwitchLayout(active, v),
         UNCHANGED <<live, fullscreen, layout, active, last, focus, fault>>
  PROVE  IInv'
<1>1. v \in Views /\ active \in Workspaces /\ Other(type[v]) \in Types
  BY DEF IInv, TypeOK, Other, Types
<1>2. /\ live' = live \cup {v} /\ type' = [type EXCEPT ![v] = Other(type[v])]
      /\ MoveTo(active, v, Other(type[v]))
  BY DEF SwitchLayout
<1>3. /\ home' \in [Views -> Workspaces \cup {Nowhere}]
      /\ kind' \in [Views -> Kinds \cup {"none"}]
      /\ type' \in [Views -> Types] /\ leaves' \in LeafCounts
      /\ WindowsOK' /\ ListsOK' /\ ScreenOK' /\ home'[v] = active
      /\ \A x \in Views \ {v} : home'[x] = home[x] /\ kind'[x] = kind[x]
  BY <1>1, <1>2, MoveToLemma
<1>4. TypeOK'
  BY <1>3 DEF IInv, TypeOK, ListsOK, ScreenOK
<1>5. FocusShown'
  BY <1>3 DEF FocusShown, IInv, TypeOK
<1> QED BY <1>3, <1>4, <1>5 DEF IInv, WindowsOK, ListsOK, ScreenOK

LEMMA FullscreenStep == ASSUME IInv, NEW v \in Views, Fullscreen(v) PROVE IInv'
<1> USE DEF Fullscreen, Requests
<1>1. IInvFacts /\ active \in Workspaces /\ Nowhere \notin Workspaces
  BY Facts, DesktopAssumption DEF IInv, TypeOK
<1>2. /\ home' \in [Views -> Workspaces \cup {Nowhere}]
      /\ kind' \in [Views -> Kinds \cup {"none"}]
      /\ home'[v] = active /\ kind'[v] = "fullscreen"
      /\ \A x \in Views \ {v} : home'[x] = home[x] /\ kind'[x] = kind[x]
  BY <1>1 DEF IInv, TypeOK, Kinds
<1>3. leaves' \in LeafCounts
  BY UprootedLemma DEF IInv, TypeOK
<1>4. TypeOK'
  BY <1>2, <1>3 DEF IInv, TypeOK
<1>5. WindowsOK'
  BY <1>1, <1>2 DEF IInv, LiveOnLayer, LayerFitsView, WindowsOK, Types
<1>6. ListsOK'
  BY <1>1, <1>2 DEF IInvFacts, ListsOK, OneRecentPlace, RecentFollowsLayer
<1>7. OnlyActiveShown'
  BY DEF IInv, OnlyActiveShown
<1>8. FocusShown'
  BY <1>2 DEF IInv, FocusShown, TypeOK, Types
<1> QED BY <1>4, <1>5, <1>6, <1>7, <1>8 DEF IInv, WindowsOK, ListsOK

(* The view that is first in the list of a workspace lives, and when it is  *)
(* on a tiling or floating layer, that layer is of this workspace.          *)
LEMMA TopOfWorkspace ==
  ASSUME IInv, NEW r, Proper(r), NEW w \in Workspaces, r[w] # <<>>,
         \A u \in Workspaces : \A x : Contains(r[u], x) <=> Contains(recent[u], x)
  PROVE  /\ Top(r, w) \in live /\ Contains(recent[w], Top(r, w))
         /\ kind[Top(r, w)] # "fullscreen" => On(Top(r, w), w)
<1> DEFINE v == Top(r, w)
<1>1. v \in Views /\ Contains(recent[w], v)
  BY TopLemma
<1>2. v \in live
  BY <1>1 DEF IInv, OneRecentPlace
<1>3. home[v] \in Workspaces
  BY <1>2, LiveLemma DEF IInv
<1>4. kind[v] # "fullscreen" => Contains(recent[home[v]], v)
  BY <1>2 DEF IInv, RecentFollowsLayer
<1>5. kind[v] # "fullscreen" => home[v] = w
  BY <1>1, <1>3, <1>4 DEF IInv, OneRecentPlace
<1> QED BY <1>1, <1>2, <1>5 DEF On

LEMMA ActivateStep == ASSUME IInv, NEW v \in Views, Activate(v) PROVE IInv'
<1> USE DEF Activate, On, layers
<1>1. IInvFacts /\ active \in Workspaces
  BY Facts DEF IInv, TypeOK
<1>2. Moved(recent, recent', active, v)
  BY <1>1, FocusedLemma DEF IInvFacts
<1>3. ListsOK'
  BY <1>1, <1>2, ListsMoved DEF IInvFacts
<1>4. ScreenOK'
  BY <1>1, Raising DEF IInvFacts
<1>5. TypeOK'
  BY <1>3, <1>4 DEF IInv, TypeOK, ListsOK, ScreenOK
<1>6. LiveOnLayer' /\ LayerFitsView'
  BY DEF IInv, LiveOnLayer, LayerFitsView
<1>7. FocusShown'
  BY DEF FocusShown
<1> QED BY <1>3, <1>4, <1>5, <1>6, <1>7 DEF IInv, ListsOK, ScreenOK

(* Sending the first view of the active workspace to the end keeps who is   *)
(* in the lists.                                                            *)
LEMMA DefocusKeeps ==
  ASSUME IInv, NEW v \in live, On(v, active) => Contains(recent[active], v)
  PROVE  LET r == Defocused(recent, active, v) IN
         /\ Proper(r)
         /\ \A u \in Workspaces : \A x : Contains(r[u], x) <=> Contains(recent[u], x)
<1>1. IInvFacts /\ active \in Workspaces
  BY Facts DEF IInv, TypeOK
<1>2. CASE On(v, active)
  <2>1. Moved(recent, Defocused(recent, active, v), active, v)
    BY <1>1, <1>2, DefocusedLemma DEF IInvFacts
  <2>2. \A u \in Workspaces : Contains(recent[u], v) => u = active
    BY <1>1, <1>2 DEF IInv, OneRecentPlace, IInvFacts
  <2>3. Contains(recent[active], v)
    BY <1>2
  <2> QED BY <1>1, <2>1, <2>2, <2>3, SameLists DEF Moved
<1>3. CASE ~On(v, active)
  BY <1>1, <1>3 DEF Defocused, IInvFacts
<1> QED BY <1>2, <1>3

(* Cycling changes the order of the windows in a list only, and focuses one *)
(* that lives, on the active workspace unless it is fullscreen.             *)
LEMMA TaskSwitchLists ==
  ASSUME IInv, TaskSwitch
  PROVE  /\ Proper(recent')
         /\ \A u \in Workspaces : \A x : Contains(recent'[u], x) <=> Contains(recent[u], x)
         /\ focus' \in live /\ (kind[focus'] # "fullscreen" => On(focus', active))
         /\ \/ UNCHANGED position
            \/ On(focus', active) /\ position' = Raised(active, kind[focus'])
<1> DEFINE first == Top(recent, active)
           r == Defocused(recent, active, first)
           v == Top(r, active)
<1>1. IInvFacts /\ active \in Workspaces /\ recent[active] # <<>>
  BY Facts DEF IInv, TypeOK, TaskSwitch
<1>2. first \in live /\ Contains(recent[active], first)
  BY <1>1, TopOfWorkspace DEF IInvFacts
<1>3. /\ Proper(r)
      /\ \A u \in Workspaces : \A x : Contains(r[u], x) <=> Contains(recent[u], x)
  BY <1>2, DefocusKeeps
<1>4. r[active] # <<>>
  BY <1>1, <1>2, <1>3 DEF Contains
<1> HIDE DEF first
<1>5. /\ v \in live /\ Contains(recent[active], v)
      /\ kind[v] # "fullscreen" => On(v, active)
  <2> HIDE DEF r
  <2> QED BY <1>1, <1>3, <1>4, TopOfWorkspace
<1>6. /\ focus' = v
      /\ \/ /\ On(v, active)
            /\ recent' = Focused(r, active, v)
            /\ position' = Raised(active, kind[v])
         \/ recent' = r /\ UNCHANGED position
      /\ UNCHANGED <<live, layers, type, fullscreen, leaves, layout, active, last, fault>>
  BY DEF TaskSwitch, first
<1> HIDE DEF r, v
<1>7. /\ Proper(recent')
      /\ \A u \in Workspaces : \A x : Contains(recent'[u], x) <=> Contains(recent[u], x)
  <2>1. CASE recent' = r  BY <2>1, <1>3
  <2>2. CASE recent' = Focused(r, active, v)
    <3>1. Moved(r, recent', active, v)
      BY <2>2, <1>1, <1>3, <1>5, FocusedLemma DEF IInvFacts
    <3>2. Contains(r[active], v) /\ \A u \in Workspaces : Contains(r[u], v) => u = active
      BY <1>1, <1>3, <1>5 DEF IInv, OneRecentPlace, IInvFacts
    <3>3. \A u \in Workspaces : \A x : Contains(recent'[u], x) <=> Contains(r[u], x)
      BY <3>1, <3>2, <1>1, SameLists
    <3> QED BY <3>1, <3>3, <1>3 DEF Moved
  <2> QED BY <2>1, <2>2, <1>6
<1> QED BY <1>5, <1>6, <1>7

LEMMA TaskSwitchStep == ASSUME IInv, TaskSwitch PROVE IInv'
<1> USE DEF layers
<1>1. IInvFacts /\ active \in Workspaces
  BY Facts DEF IInv, TypeOK
<1>2. UNCHANGED <<live, layers, type, fullscreen, leaves, layout, active, last, fault>>
  BY DEF TaskSwitch
<1>3. ListsOK'
  BY <1>1, <1>2, TaskSwitchLists, ListsKept DEF IInvFacts
<1>4. ScreenOK'
  <2>1. CASE UNCHANGED position
    BY <2>1, <1>1, <1>2 DEF IInvFacts, ScreenOK, OnlyActiveShown
  <2>2. CASE position' = Raised(active, kind[focus'])
    BY <2>2, <1>1, <1>2, Raising DEF IInvFacts
  <2> QED BY <2>1, <2>2, TaskSwitchLists
<1>5. TypeOK'
  BY <1>2, <1>3, <1>4, TaskSwitchLists DEF IInv, TypeOK, ListsOK, ScreenOK
<1>6. LiveOnLayer' /\ LayerFitsView'
  BY <1>2 DEF IInv, LiveOnLayer, LayerFitsView
<1>7. FocusShown'
  BY <1>2, TaskSwitchLists DEF FocusShown, On, Types
<1> QED BY <1>3, <1>4, <1>5, <1>6, <1>7 DEF IInv, ListsOK, ScreenOK

(* Steps that leave the windows, their lists, and the screen alone.         *)
LEMMA WindowsFrame ==
  ASSUME IInv, UNCHANGED <<live, home, kind, type, fullscreen, recent>>
  PROVE  LiveOnLayer' /\ LayerFitsView' /\ OneRecentPlace' /\ RecentFollowsLayer'
<1>1. LiveOnLayer' /\ LayerFitsView'
  BY DEF IInv, LiveOnLayer, LayerFitsView
<1>2. OneRecentPlace'
  BY DEF IInv, OneRecentPlace
<1>3. RecentFollowsLayer'
  BY DEF IInv, RecentFollowsLayer
<1> QED BY <1>1, <1>2, <1>3

LEMMA ScreenFrame ==
  ASSUME IInv, UNCHANGED <<position, active>> PROVE OnlyActiveShown'
BY DEF IInv, OnlyActiveShown

(* The steps that crash, and those that only touch the focus or a setting.  *)
LEMMA SettingStep ==
  ASSUME IInv, layout' \in [Workspaces -> Types], focus' \in {focus, NoView},
         fault' \in Faults,
         UNCHANGED <<live, home, kind, type, fullscreen, recent, leaves, position,
                     active, last>>
  PROVE  IInv'
<1>1. TypeOK'
  BY DEF IInv, TypeOK
<1>2. FocusShown'
  BY DEF IInv, FocusShown
<1> QED BY <1>1, <1>2, WindowsFrame, ScreenFrame DEF IInv

LEMMA FaultStep == ASSUME IInv, NEW cause \in Faults, Fault(cause) PROVE IInv'
BY SettingStep DEF Fault, layers, IInv, TypeOK

LEMMA StutterStep == ASSUME IInv, UNCHANGED vars PROVE IInv'
BY SettingStep DEF vars, IInv, TypeOK

LEMMA WidgetClosedStep == ASSUME IInv, WidgetClosed PROVE IInv'
<1> USE DEF WidgetClosed, layers
<1>1. IInvFacts /\ active \in Workspaces
  BY Facts DEF IInv, TypeOK
<1>2. focus' \in live /\ (kind[focus'] # "fullscreen" => home[focus'] = active)
  BY <1>1, TopOfWorkspace DEF IInvFacts, On
<1>3. TypeOK'
  BY <1>2 DEF IInv, TypeOK
<1>4. FocusShown'
  BY <1>2 DEF FocusShown, Types
<1> QED BY <1>3, <1>4, WindowsFrame, ScreenFrame DEF IInv

LEMMA SwitchToStep == ASSUME IInv, NEW w \in Workspaces, SwitchTo(w) PROVE IInv'
<1> USE DEF SwitchTo, layers
<1>1. IInvFacts /\ active \in Workspaces
  BY Facts DEF IInv, TypeOK
<1>2. focus' # NoView =>
        focus' \in live /\ (kind[focus'] # "fullscreen" => home[focus'] = w)
  <2>1. CASE recent[w] = <<>>
    BY <2>1 DEF Top
  <2>2. CASE recent[w] # <<>>
    BY <2>2, <1>1, TopOfWorkspace DEF IInvFacts, On
  <2> QED BY <2>1, <2>2
<1>3. ScreenOK'
  BY <1>1, Switching DEF IInvFacts
<1>4. TypeOK'
  BY <1>2, <1>3 DEF IInv, TypeOK, ScreenOK
<1>5. FocusShown'
  BY <1>2 DEF FocusShown, Types
<1> QED BY <1>3, <1>4, <1>5, WindowsFrame DEF IInv, ScreenOK

LEMMA ToggleLayoutStep == ASSUME IInv, ToggleLayout PROVE IInv'
<1>1. focus \in live /\ SwitchLayout(home[focus], focus)
  BY DEF ToggleLayout, IInv, TypeOK
<1>2. home[focus] = active
  BY <1>1 DEF IInv, FocusShown, SwitchLayout, ToggleLayout
<1> QED BY <1>1, <1>2, SwitchLayoutStep DEF ToggleLayout

LEMMA MinimizeStep == ASSUME IInv, NEW v \in Views, Minimize(v) PROVE IInv'
<1> DEFINE r == Defocused(recent, active, v)
<1>1. IInvFacts /\ active \in Workspaces /\ v \in live
  BY Facts DEF IInv, TypeOK, Minimize, Requests
<1>2. CASE Fault("no top view")
  BY <1>2, FaultStep DEF Faults
<1>3. CASE ~Fault("no top view")
  <2>1. /\ Top(r, active) # NoView
        /\ leaves' = Uprooted(active, v)
        /\ kind' = IF On(v, active) THEN [kind EXCEPT ![v] = "hidden"] ELSE kind
        /\ recent' = r
        /\ focus' = Top(r, active)
        /\ UNCHANGED <<live, home, type, fullscreen, layout, position, active, last, fault>>
    BY <1>3 DEF Minimize
  <2>2. /\ Proper(r)
        /\ ListsOK'
    <3>1. CASE On(v, active)
      <4>1. Moved(recent, r, active, v)
        BY <3>1, <1>1, DefocusedLemma DEF IInvFacts
      <4>2. \A x \in live \ {v} : home'[x] = home[x] /\ kind'[x] = kind[x]
        BY <2>1, <3>1, <1>1 DEF IInv, TypeOK, IInvFacts
      <4>3. home'[v] = active
        BY <2>1, <3>1 DEF On
      <4> HIDE DEF r
      <4>4. ListsOK'
        BY <2>1, <4>1, <4>2, <4>3, <1>1, ListsMoved DEF IInvFacts
      <4> QED BY <4>1, <4>4 DEF Moved
    <3>2. CASE ~On(v, active)
      BY <2>1, <3>2, <1>1 DEF Defocused, IInvFacts, ListsOK, OneRecentPlace,
                             RecentFollowsLayer
    <3> QED BY <3>1, <3>2
  <2> HIDE DEF r
  <2>3. focus' \in live
    <3>1. r[active] # <<>>
      BY <2>1 DEF Top
    <3>2. focus' \in Views /\ Contains(recent'[active], focus')
      BY <2>1, <2>2, <3>1, <1>1, TopLemma
    <3> QED BY <2>1, <2>2, <3>2, <1>1 DEF ListsOK, OneRecentPlace
  <2>4. leaves' \in LeafCounts
    BY <2>1, <1>1, UprootedLemma DEF IInv, TypeOK
  <2>5. kind' \in [Views -> Kinds \cup {"none"}]
    BY <2>1 DEF IInv, TypeOK, Kinds
  <2>6. TypeOK'
    BY <2>1, <2>2, <2>3, <2>4, <2>5 DEF IInv, TypeOK, ListsOK
  <2>7. \A x \in Views : kind'[x] = IF x = v /\ On(v, active) THEN "hidden" ELSE kind[x]
    BY <2>1 DEF IInv, TypeOK
  <2>8. LiveOnLayer' /\ LayerFitsView'
    BY <2>1, <2>7, <1>1 DEF IInv, LiveOnLayer, LayerFitsView, IInvFacts, Types
  <2>9. OnlyActiveShown'
    BY <2>1 DEF IInv, OnlyActiveShown
  <2>10. FocusShown'
    <3> SUFFICES ASSUME kind'[focus'] \in Types PROVE home'[focus'] = active'
      BY DEF FocusShown
    <3>1. Contains(recent'[active], focus')
      BY <2>1, <2>2, <1>1, TopLemma DEF Top
    <3>2. Contains(recent'[home'[focus']], focus')
      BY <2>2, <2>3, <2>1 DEF ListsOK, RecentFollowsLayer, Types
    <3>3. home'[focus'] \in Workspaces
      BY <2>1, <2>3, <1>1 DEF IInvFacts
    <3> QED BY <3>1, <3>2, <3>3, <2>1, <2>2, <2>3, <1>1
            DEF ListsOK, OneRecentPlace, IInvFacts
  <2> QED BY <2>2, <2>6, <2>8, <2>9, <2>10 DEF IInv, ListsOK
<1> QED BY <1>2, <1>3

(* The window that gets the focus when v goes, if one does. *)
Heir(v, next) ==
  /\ next \in live \ {v} /\ Contains(Unlinked(recent, v)[active], next)
  /\ kind[next] # "fullscreen" => On(next, active)

Inherits(v, next) ==
  LET rest == Unlinked(recent, v) IN
  /\ focus' = next
  /\ \/ /\ On(next, active)
        /\ recent' = Focused(rest, active, next)
        /\ position' = Raised(active, kind[next])
     \/ ~On(next, active) /\ recent' = rest /\ UNCHANGED position

NobodyInherits(v) ==
  /\ recent' = Unlinked(recent, v) /\ UNCHANGED position
  /\ focus' = IF focus = v THEN NoView ELSE focus

LEMMA RemovedFocus ==
  ASSUME IInv, NEW v \in Views, SurfaceRemoved(v)
  PROVE  NobodyInherits(v) \/ \E next : Heir(v, next) /\ Inherits(v, next)
<1> DEFINE rest == Unlinked(recent, v)
           mine == rest[active]
           visible == {i \in 1..Len(mine) :
                         ~(On(mine[i], active) /\ kind[mine[i]] = "hidden")}
<1>1. IInvFacts /\ active \in Workspaces
  BY Facts DEF IInv, TypeOK
<1>2. NobodyInherits(v) \/ \E i \in visible : Inherits(v, mine[i])
  BY DEF SurfaceRemoved, NobodyInherits, Inherits
<1>3. /\ Proper(rest)
      /\ \A w \in Workspaces : \A x : Contains(rest[w], x) <=> Contains(recent[w], x) /\ x # v
  BY <1>1, UnlinkedLemma DEF IInvFacts
<1>4. ASSUME NEW i \in visible PROVE Heir(v, mine[i])
  <2>1. mine \in Seq(Views) /\ Len(mine) \in Nat /\ i \in 1..Len(mine)
    BY <1>1, <1>3 DEF Proper
  <2>2. mine[i] \in Views /\ Contains(mine, mine[i])
    BY <2>1 DEF Contains
  <2>3. Contains(recent[active], mine[i]) /\ mine[i] # v
    BY <2>2, <1>1, <1>3
  <2>4. mine[i] \in live
    BY <2>2, <2>3, <1>1 DEF IInv, OneRecentPlace
  <2>5. kind[mine[i]] # "fullscreen" => home[mine[i]] = active
    BY <2>2, <2>3, <2>4, <1>1 DEF IInv, IInvFacts, OneRecentPlace, RecentFollowsLayer
  <2> QED BY <2>2, <2>3, <2>4, <2>5 DEF On, Heir
<1> QED BY <1>2, <1>4

(* The lists of the windows that stay are as they were but for the order.   *)
LEMMA RemovedLists ==
  ASSUME IInv, NEW v \in Views, SurfaceRemoved(v)
  PROVE  /\ Proper(recent')
         /\ \A w \in Workspaces : \A x :
              Contains(recent'[w], x) <=> Contains(recent[w], x) /\ x # v
<1> DEFINE rest == Unlinked(recent, v)
<1>1. IInvFacts /\ active \in Workspaces
  BY Facts DEF IInv, TypeOK
<1>2. /\ Proper(rest)
      /\ \A w \in Workspaces : \A x : Contains(rest[w], x) <=> Contains(recent[w], x) /\ x # v
  BY <1>1, UnlinkedLemma DEF IInvFacts
<1>3. CASE recent' = rest
  BY <1>2, <1>3
<1>4. ASSUME NEW next, Heir(v, next), recent' = Focused(rest, active, next)
      PROVE  /\ Proper(recent')
             /\ \A w \in Workspaces : \A x :
                  Contains(recent'[w], x) <=> Contains(recent[w], x) /\ x # v
  <2>1. next \in live \ {v} /\ Contains(rest[active], next)
    BY <1>4 DEF Heir
  <2> HIDE DEF rest
  <2>2. Moved(rest, recent', active, next)
    BY <2>1, <1>1, <1>2, <1>4, FocusedLemma DEF IInvFacts
  <2>3. \A w \in Workspaces : Contains(rest[w], next) => w = active
    BY <2>1, <1>1, <1>2 DEF IInv, IInvFacts, OneRecentPlace
  <2>4. \A w \in Workspaces : \A x : Contains(recent'[w], x) <=> Contains(rest[w], x)
    BY <2>1, <2>2, <2>3, <1>1, SameLists
  <2> QED BY <2>2, <2>4, <1>2 DEF Moved
<1> QED BY <1>3, <1>4, RemovedFocus DEF Inherits, NobodyInherits

LEMMA RemovedStep == ASSUME IInv, NEW v \in Views, SurfaceRemoved(v) PROVE IInv'
<1>1. IInvFacts /\ active \in Workspaces /\ v \in live /\ Nowhere \notin Workspaces
  BY Facts, DesktopAssumption DEF IInv, TypeOK, SurfaceRemoved
<1>2. /\ live' = live \ {v}
      /\ home' = [home EXCEPT ![v] = Nowhere] /\ kind' = [kind EXCEPT ![v] = "none"]
      /\ type' = [type EXCEPT ![v] = "floating"] /\ fullscreen' = fullscreen \ {v}
      /\ leaves' = Uprooted(home[v], v)
      /\ UNCHANGED <<layout, active, last, fault>>
  BY DEF SurfaceRemoved
<1>3. NobodyInherits(v) \/ \E next : Heir(v, next) /\ Inherits(v, next)
  BY RemovedFocus
<1>4. /\ home' \in [Views -> Workspaces \cup {Nowhere}]
      /\ kind' \in [Views -> Kinds \cup {"none"}]
      /\ type' \in [Views -> Types]
      /\ home'[v] = Nowhere /\ kind'[v] = "none"
      /\ \A x \in Views \ {v} : home'[x] = home[x] /\ kind'[x] = kind[x] /\ type'[x] = type[x]
  BY <1>2 DEF IInv, TypeOK, Types
<1>5. WindowsOK'
  BY <1>1, <1>2, <1>4 DEF IInv, IInvFacts, LiveOnLayer, LayerFitsView, WindowsOK
<1>6. ListsOK'
  <2>1. recent' \in [Workspaces -> Seq(Views)] /\ OneRecentPlace'
    BY <1>1, <1>2, RemovedLists DEF IInv, OneRecentPlace, Proper
  <2>2. RecentFollowsLayer'
    BY <1>1, <1>2, <1>4, RemovedLists DEF IInv, IInvFacts, RecentFollowsLayer
  <2> QED BY <2>1, <2>2 DEF ListsOK
<1>7. ScreenOK'
  <2>1. CASE UNCHANGED position
    BY <2>1, <1>1, <1>2 DEF IInvFacts, ScreenOK, OnlyActiveShown
  <2>2. ASSUME NEW next, position' = Raised(active, kind[next]) PROVE ScreenOK'
    BY <2>2, <1>1, <1>2, Raising DEF IInvFacts
  <2> QED BY <2>1, <2>2, <1>3 DEF Inherits, NobodyInherits
<1>8. focus' \in live' \cup {NoView}
  BY <1>2, <1>3 DEF IInv, TypeOK, Heir, Inherits, NobodyInherits
<1>9. TypeOK'
  <2>1. leaves' \in LeafCounts
    BY <1>1, <1>2, UprootedLemma DEF IInv, IInvFacts, TypeOK
  <2> QED BY <2>1, <1>2, <1>4, <1>6, <1>7, <1>8 DEF IInv, TypeOK, ListsOK, ScreenOK
<1>10. FocusShown'
  <2> SUFFICES ASSUME focus' # NoView, kind'[focus'] \in Types
               PROVE  home'[focus'] = active
    BY <1>2 DEF FocusShown
  <2>1. focus' \in Views \ {v}
    BY <1>1, <1>2, <1>8 DEF IInvFacts
  <2>2. home'[focus'] = home[focus'] /\ kind[focus'] \in Types
    BY <2>1, <1>4
  <2>3. ASSUME NEW next, Heir(v, next), Inherits(v, next) PROVE home'[focus'] = active
    BY <2>2, <2>3 DEF On, Types, Heir, Inherits
  <2>4. CASE NobodyInherits(v)
    BY <2>1, <2>2, <2>4 DEF IInv, FocusShown, NobodyInherits
  <2> QED BY <2>3, <2>4, <1>3
<1> QED BY <1>5, <1>6, <1>7, <1>9, <1>10 DEF IInv, WindowsOK, ListsOK, ScreenOK

(***************************************************************************)
(* Theorems                                                                *)
(***************************************************************************)
LEMMA InitIInv == Init => IInv
<1> SUFFICES ASSUME Init PROVE IInv
  OBVIOUS
<1> USE DesktopAssumption DEF Init
<1>1. 0 \in Workspaces /\ 1 \in Workspaces /\ \A n \in 0..LeafBound : n \in Nat
  BY DEF Workspaces
<1>2. Off \in [Shown -> Positions] /\ Resting \in [Shown -> Positions]
  BY DEF Off, Resting, Shown, Types, Positions
<1>3. leaves \in LeafCounts
  BY DEF LeafCounts
<1>4. position \in [Workspaces -> [Shown -> Positions]]
  BY <1>2
<1>5. recent \in [Workspaces -> Seq(Views)]
  BY EmptySeq
<1>6. TypeOK
  BY <1>1, <1>3, <1>4, <1>5 DEF TypeOK, Types, Kinds, Faults
<1>7. LiveOnLayer /\ LayerFitsView /\ RecentFollowsLayer /\ FocusShown
  BY DEF LiveOnLayer, LayerFitsView, RecentFollowsLayer, FocusShown
<1>8. OneRecentPlace
  BY DEF OneRecentPlace, Contains, IsInjective
<1>9. OnlyActiveShown
  <2>1. {Resting[t] : t \in Types} = {"back", "front"} /\ Resting["fullscreen"] = "top"
    BY DEF Resting, Types
  <2> QED BY <2>1 DEF OnlyActiveShown
<1> QED BY <1>6, <1>7, <1>8, <1>9 DEF IInv

LEMMA NextIInv == IInv /\ [Next]_vars => IInv'
<1> SUFFICES ASSUME IInv, [Next]_vars PROVE IInv'
  OBVIOUS
<1>1. ASSUME NEW v \in Views, SurfaceAdded(v) PROVE IInv'
  BY <1>1, AddedStep
<1>2. ASSUME NEW v \in Views, SurfaceRemoved(v) PROVE IInv'
  BY <1>2, RemovedStep
<1>3. ASSUME NEW v \in Views, Fullscreen(v) PROVE IInv'
  BY <1>3, FullscreenStep
<1>4. ASSUME NEW v \in Views, Unfullscreen(v) PROVE IInv'
  BY <1>4, PutBackStep DEF Unfullscreen, Requests
<1>5. ASSUME NEW v \in Views, Unmaximize(v) PROVE IInv'
  BY <1>5, PutBackStep DEF Unmaximize, Requests
<1>6. ASSUME NEW v \in Views, Minimize(v) PROVE IInv'
  BY <1>6, MinimizeStep
<1>7. ASSUME NEW v \in Views, XwaylandPosition(v) PROVE IInv'
  BY <1>7, SwitchLayoutStep DEF XwaylandPosition, Requests
<1>8. ASSUME NEW v \in Views, Activate(v) PROVE IInv'
  BY <1>8, ActivateStep
<1>9. CASE TaskSwitch
  BY <1>9, TaskSwitchStep
<1>10. CASE ToggleLayout
  BY <1>10, ToggleLayoutStep
<1>11. ASSUME NEW left \in BOOLEAN, SwitchWorkspace(left) PROVE IInv'
  <2>1. Current \in Workspaces
    BY DesktopAssumption DEF Current, Workspaces, IInv, TypeOK
  <2>2. (IF left THEN (IF Current > 0 THEN Current - 1 ELSE 0)
         ELSE (IF Current < MaxWorkspace THEN Current + 1 ELSE MaxWorkspace)) \in Workspaces
    BY <2>1, DesktopAssumption DEF Workspaces
  <2> QED BY <2>2, <1>11, SwitchToStep DEF SwitchWorkspace
<1>12. CASE SwitchWorkspaceLast
  <2>1. (IF last < MaxWorkspace THEN last ELSE 0) \in Workspaces
    BY DesktopAssumption DEF Workspaces, IInv, TypeOK
  <2> QED BY <2>1, <1>12, SwitchToStep DEF SwitchWorkspaceLast
<1>13. ASSUME NEW w \in Workspaces, NEW t \in Types, SetWorkspaceLayout(w, t) PROVE IInv'
  BY <1>13, SettingStep DEF SetWorkspaceLayout, layers, IInv, TypeOK
<1>14. CASE ShellTakesFocus
  BY <1>14, SettingStep DEF ShellTakesFocus, layers, IInv, TypeOK
<1>15. CASE WidgetClosed
  BY <1>15, WidgetClosedStep
<1>16. CASE OutputResized
  BY <1>16, FaultStep DEF OutputResized, Faults
<1>17. CASE UNCHANGED vars
  BY <1>17, StutterStep
<1> QED BY <1>1, <1>2, <1>3, <1>4, <1>5, <1>6, <1>7, <1>8, <1>9, <1>10, <1>11, <1>12,
           <1>13, <1>14, <1>15, <1>16, <1>17 DEF Next, ClientNext, UserNext

LEMMA Invariance == Spec => []IInv
BY InitIInv, NextIInv, PTL DEF Spec

(* The desktop keeps its types: the focus, above all, is on a living window *)
(* or on none.                                                              *)
THEOREM DesktopTypes == Spec => []TypeOK
BY Invariance, PTL DEF IInv

(* However requests, keys and clicks interleave, every living window is on  *)
(* a layer and a closed one on none.                                        *)
THEOREM EveryWindowOnALayer == Spec => []LiveOnLayer
BY Invariance, PTL DEF IInv

(* A window on the tiling or the floating layer has that type, one on the   *)
(* fullscreen layer was told so.                                            *)
THEOREM LayersFitViews == Spec => []LayerFitsView
BY Invariance, PTL DEF IInv

(* Every living window is in the recent list of exactly one workspace, once.*)
THEOREM OneRecentPlaceEach == Spec => []OneRecentPlace
BY Invariance, PTL DEF IInv

(* A window that is not fullscreen is in the recent list of its workspace.  *)
THEOREM RecentListsFollow == Spec => []RecentFollowsLayer
BY Invariance, PTL DEF IInv

(* Only the layers of the active workspace are on the screen.               *)
THEOREM OthersHidden == Spec => []OnlyActiveShown
BY Invariance, PTL DEF IInv

(* Keys that act on the focused window find it on the active workspace, *)
(* unless it is fullscreen or minimized.                                 *)
THEOREM FocusedOnesShown == Spec => []FocusShown
BY Invariance, PTL DEF IInv

(***************************************************************************)
(* While windows off the active workspace stay silent                      *)
(***************************************************************************)
FInv == RecentIsWorkspace /\ TreeFollowsLayer /\ StaysUp

(* RecentIsWorkspace, window by window. *)
OwnLists ==
  \A w \in Workspaces : \A x : Contains(recent[w], x) <=> x \in live /\ home[x] = w

LEMMA OwnListsLemma ==
  ASSUME recent \in [Workspaces -> Seq(Views)]
  PROVE  RecentIsWorkspace <=> OwnLists
<1>1. ASSUME NEW w \in Workspaces
      PROVE  \A x : x \in ToSet(recent[w]) <=> Contains(recent[w], x)
  <2>1. recent[w] \in Seq(Views) /\ DOMAIN recent[w] = 1..Len(recent[w])
    OBVIOUS
  <2> QED BY <2>1 DEF ToSet, Contains
<1> QED BY <1>1 DEF RecentIsWorkspace, OwnLists, On

LEMMA OwnListsPrime ==
  ASSUME recent' \in [Workspaces -> Seq(Views)]
  PROVE  RecentIsWorkspace' <=> OwnLists'
<1>1. ASSUME NEW w \in Workspaces
      PROVE  \A x : x \in ToSet(recent'[w]) <=> Contains(recent'[w], x)
  <2>1. recent'[w] \in Seq(Views) /\ DOMAIN recent'[w] = 1..Len(recent'[w])
    OBVIOUS
  <2> QED BY <2>1 DEF ToSet, Contains
<1> QED BY <1>1 DEF RecentIsWorkspace, OwnLists, On

(* What both invariants say of the state before a step. *)
FFacts ==
  /\ IInvFacts /\ OwnLists /\ active \in Workspaces /\ Nowhere \notin Workspaces
  /\ leaves \in LeafCounts /\ LeafBound \in Nat
  /\ home \in [Views -> Workspaces \cup {Nowhere}]
  /\ kind \in [Views -> Kinds \cup {"none"}]
  /\ \A x \in Views \ live : home[x] = Nowhere /\ kind[x] = "none"
  /\ RecentIsWorkspace /\ TreeFollowsLayer /\ StaysUp

LEMMA FFactsHold == ASSUME IInv, FInv PROVE FFacts
<1>1. IInvFacts /\ OwnLists
  BY Facts, OwnListsLemma DEF IInv, TypeOK, FInv
<1> QED BY <1>1, DesktopAssumption DEF IInv, TypeOK, FInv, FFacts, LiveOnLayer

(* A window moves into the list of the workspace it moves to. *)
LEMMA OwnMoved ==
  ASSUME FFacts, NEW v \in Views, NEW w \in Workspaces,
         Moved(recent, recent', w, v), live' = live \cup {v}, home'[v] = w,
         \A x \in live \ {v} : home'[x] = home[x]
  PROVE  RecentIsWorkspace'
<1>1. OwnLists'
  BY DEF FFacts, OwnLists, Moved
<1> QED BY <1>1, OwnListsPrime DEF Moved, Proper

(* Who is in the lists stays, and so do the windows. *)
LEMMA OwnKept ==
  ASSUME FFacts, Proper(recent'), live' = live, home' = home,
         \A u \in Workspaces : \A x : Contains(recent'[u], x) <=> Contains(recent[u], x)
  PROVE  RecentIsWorkspace'
<1>1. OwnLists'
  BY DEF FFacts, OwnLists
<1> QED BY <1>1, OwnListsPrime DEF Proper

(* Taking a window off its tiling layer takes its one leaf. *)
LEMMA UprootedAll ==
  ASSUME FFacts, NEW w \in Workspaces, NEW v \in Views, home[v] \in {w, Nowhere}
  PROVE  /\ Uprooted(w, v) \in LeafCounts
         /\ \A u \in Workspaces, x \in Views :
              Uprooted(w, v)[u][x] = IF x = v THEN 0 ELSE leaves[u][x]
<1>1. leaves \in [Workspaces -> [Views -> 0..LeafBound]] /\ leaves[w] \in [Views -> 0..LeafBound]
  BY DEF FFacts, LeafCounts
<1>2. \A u \in Workspaces : leaves[u][v] = IF On(v, u) /\ kind[v] = "tiling" THEN 1 ELSE 0
  BY DEF FFacts, TreeFollowsLayer
<1>3. CASE On(v, w) /\ kind[v] = "tiling"
  <2>1. leaves[w][v] = 1 /\ \A u \in Workspaces \ {w} : leaves[u][v] = 0
    BY <1>2, <1>3 DEF On
  <2>2. Uprooted(w, v) = [leaves EXCEPT ![w][v] = 0]
    BY <1>3, <2>1 DEF Uprooted
  <2>3. \A u \in Workspaces, x \in Views :
          Uprooted(w, v)[u][x] = IF x = v THEN 0 ELSE leaves[u][x]
    BY <1>1, <2>1, <2>2
  <2> QED BY <2>3, UprootedLemma DEF FFacts
<1>4. CASE ~(On(v, w) /\ kind[v] = "tiling")
  <2>1. \A u \in Workspaces : leaves[u][v] = 0
    BY <1>2, <1>4 DEF On, FFacts
  <2>2. Uprooted(w, v) = leaves
    BY <1>4 DEF Uprooted
  <2> QED BY <2>1, <2>2, UprootedLemma DEF FFacts
<1> QED BY <1>3, <1>4

(* A window that goes to another layer of a workspace leaves no leaf behind *)
(* and has one there, if the layer is the tiling layer.                     *)
LEMMA TreeMoved ==
  ASSUME FFacts, NEW v \in Views, NEW w \in Workspaces, NEW k,
         home[v] \in {w, Nowhere}, home'[v] = w, kind'[v] = k,
         leaves' = Planted(Uprooted(w, v), w, v, k),
         \A x \in Views \ {v} : home'[x] = home[x] /\ kind'[x] = kind[x]
  PROVE  TreeFollowsLayer'
<1> DEFINE l == Uprooted(w, v)
<1>1. /\ l \in [Workspaces -> [Views -> 0..LeafBound]]
      /\ \A u \in Workspaces, x \in Views : l[u][x] = IF x = v THEN 0 ELSE leaves[u][x]
  BY UprootedAll DEF LeafCounts
<1> HIDE DEF l
<1>2. l[w][v] + 1 = 1
  BY <1>1
<1>3. leaves' = IF k = "tiling" THEN [l EXCEPT ![w][v] = 1] ELSE l
  BY <1>2 DEF Planted, l
<1>4. \A u \in Workspaces, x \in Views :
        leaves'[u][x] = IF x = v THEN (IF u = w /\ k = "tiling" THEN 1 ELSE 0)
                                 ELSE leaves[u][x]
  <2>1. l[w] \in [Views -> 0..LeafBound]
    BY <1>1
  <2> QED BY <1>1, <1>3, <2>1
<1>5. ASSUME NEW u \in Workspaces, NEW x \in Views
      PROVE  leaves'[u][x] = IF home'[x] = u /\ kind'[x] = "tiling" THEN 1 ELSE 0
  <2>1. CASE x = v  BY <2>1, <1>4
  <2>2. CASE x # v
    <3>1. leaves[u][x] = IF home[x] = u /\ kind[x] = "tiling" THEN 1 ELSE 0
      BY DEF FFacts, TreeFollowsLayer, On
    <3> QED BY <3>1, <2>2, <1>4
  <2> QED BY <2>1, <2>2
<1> QED BY <1>5 DEF TreeFollowsLayer, On

LEMMA TreeKept ==
  ASSUME FFacts, UNCHANGED <<home, kind, leaves>> PROVE TreeFollowsLayer'
BY DEF FFacts, TreeFollowsLayer, On

(* MoveTo in all its uses, for a window of the active workspace or a new one. *)
LEMMA MoveToForeground ==
  ASSUME FFacts, NEW v \in Views, NEW t \in Types, MoveTo(active, v, t),
         home[v] \in {active, Nowhere}, live' = live \cup {v}, UNCHANGED fault
  PROVE  FInv'
<1>1. /\ home' = [home EXCEPT ![v] = active] /\ kind' = [kind EXCEPT ![v] = t]
      /\ leaves' = Planted(Uprooted(active, v), active, v, t)
      /\ recent' = Focused(recent, active, v)
  BY DEF MoveTo
<1>2. /\ home'[v] = active /\ kind'[v] = t
      /\ \A x \in Views \ {v} : home'[x] = home[x] /\ kind'[x] = kind[x]
  BY <1>1 DEF FFacts
<1>3. Moved(recent, recent', active, v)
  BY <1>1, FocusedLemma DEF FFacts, IInvFacts
<1>4. RecentIsWorkspace'
  BY <1>2, <1>3, OwnMoved DEF FFacts, IInvFacts
<1>5. TreeFollowsLayer'
  BY <1>1, <1>2, TreeMoved DEF FFacts
<1> QED BY <1>4, <1>5 DEF FInv, FFacts, StaysUp

LEMMA AddedForeground ==
  ASSUME IInv, FFacts, NEW v \in Views, SurfaceAdded(v) PROVE FInv'
<1> DEFINE t == IF v \in XViews THEN "floating" ELSE layout[active]
<1>1. t \in Types
  BY DEF FFacts, IInvFacts, IInv, TypeOK, Types
<1> HIDE DEF t
<1>2. MoveTo(active, v, t) /\ live' = live \cup {v} /\ v \notin live /\ fault' = fault
  BY DEF SurfaceAdded, t
<1> QED BY <1>1, <1>2, MoveToForeground DEF FFacts

LEMMA RemovedForeground ==
  ASSUME IInv, FFacts, NEW v \in Views, SurfaceRemoved(v) PROVE FInv'
<1>1. /\ live' = live \ {v} /\ v \in live /\ home[v] \in Workspaces
      /\ home' = [home EXCEPT ![v] = Nowhere] /\ kind' = [kind EXCEPT ![v] = "none"]
      /\ leaves' = Uprooted(home[v], v) /\ fault' = fault
  BY DEF SurfaceRemoved, FFacts, IInvFacts
<1>2. /\ home'[v] = Nowhere /\ kind'[v] = "none"
      /\ \A x \in Views \ {v} : home'[x] = home[x] /\ kind'[x] = kind[x]
  BY <1>1 DEF FFacts
<1>3. RecentIsWorkspace'
  <2>1. live \subseteq Views
    BY DEF FFacts, IInvFacts
  <2>2. OwnLists'
    BY <1>1, <1>2, <2>1, RemovedLists DEF FFacts, OwnLists
  <2> QED BY <2>2, RemovedLists, OwnListsPrime DEF Proper
<1>4. TreeFollowsLayer'
  <2>1. \A u \in Workspaces, x \in Views : leaves'[u][x] = IF x = v THEN 0 ELSE leaves[u][x]
    BY <1>1, UprootedAll
  <2>2. ASSUME NEW u \in Workspaces, NEW x \in Views
        PROVE  leaves'[u][x] = IF home'[x] = u /\ kind'[x] = "tiling" THEN 1 ELSE 0
    <3>1. leaves[u][x] = IF home[x] = u /\ kind[x] = "tiling" THEN 1 ELSE 0
      BY DEF FFacts, TreeFollowsLayer, On
    <3> QED BY <3>1, <2>1, <1>2
  <2> QED BY <2>2 DEF TreeFollowsLayer, On
<1> QED BY <1>1, <1>3, <1>4 DEF FInv, FFacts, StaysUp

LEMMA FullscreenForeground ==
  ASSUME FFacts, NEW v \in live, On(v, active), Fullscreen(v) PROVE FInv'
<1>1. /\ v \in Views /\ home[v] = active /\ UNCHANGED <<live, recent, fault>>
      /\ home' = [home EXCEPT ![v] = active] /\ kind' = [kind EXCEPT ![v] = "fullscreen"]
      /\ leaves' = Uprooted(active, v)
  BY DEF Fullscreen, On, FFacts, IInvFacts
<1>2. /\ home' = home /\ kind'[v] = "fullscreen"
      /\ \A x \in Views \ {v} : kind'[x] = kind[x]
  BY <1>1 DEF FFacts
<1>3. RecentIsWorkspace'
  BY <1>1, <1>2, OwnKept DEF FFacts, IInvFacts
<1>4. leaves' = Planted(Uprooted(active, v), active, v, "fullscreen")
  BY <1>1 DEF Planted
<1>5. TreeFollowsLayer'
  BY <1>1, <1>2, <1>4, TreeMoved DEF FFacts
<1> QED BY <1>1, <1>3, <1>5 DEF FInv, FFacts, StaysUp

LEMMA MinimizeForeground ==
  ASSUME FFacts, NEW v \in live, On(v, active), Minimize(v) PROVE FInv'
<1> DEFINE r == Defocused(recent, active, v)
<1>1. v \in Views /\ home[v] = active /\ NoView \notin Views
  BY DesktopAssumption DEF On, FFacts, IInvFacts
<1>2. Moved(recent, r, active, v)
  BY <1>1, DefocusedLemma DEF FFacts, IInvFacts
<1> HIDE DEF r
<1>3. Top(r, active) # NoView
  <2>1. Contains(r[active], v) /\ Proper(r)
    BY <1>2 DEF Moved, FFacts
  <2>2. r[active] # <<>>
    BY <2>1 DEF Contains
  <2> QED BY <1>1, <2>1, <2>2, TopLemma DEF FFacts
<1>4. /\ leaves' = Uprooted(active, v) /\ kind' = [kind EXCEPT ![v] = "hidden"]
      /\ recent' = r /\ UNCHANGED <<live, home, fault>>
  BY <1>3 DEF Minimize, r
<1>5. kind'[v] = "hidden" /\ \A x \in Views \ {v} : kind'[x] = kind[x]
  BY <1>1, <1>4 DEF FFacts
<1>6. RecentIsWorkspace'
  BY <1>1, <1>2, <1>4, OwnMoved DEF FFacts
<1>7. leaves' = Planted(Uprooted(active, v), active, v, "hidden")
  BY <1>4 DEF Planted
<1>8. TreeFollowsLayer'
  BY <1>1, <1>4, <1>5, <1>7, TreeMoved DEF FFacts
<1> QED BY <1>4, <1>6, <1>8 DEF FInv, FFacts, StaysUp

LEMMA SwitchLayoutForeground ==
  ASSUME FFacts, IInv, NEW v \in live, SwitchLayout(active, v), UNCHANGED <<live, fault>>
  PROVE  FInv'
<1>1. Other(type[v]) \in Types
  BY DEF Other, Types
<1>2. v \in Views /\ home[v] = active /\ live' = live \cup {v}
  BY DEF SwitchLayout, On, FFacts, IInvFacts
<1> QED BY <1>1, <1>2, MoveToForeground DEF SwitchLayout

(* An output resized: the leaves of a tree are those of the living windows  *)
(* on the tiling layer, so nothing freed is read, and there are no more of  *)
(* them than windows the buffer has room for.                               *)
LeafSet(w) == UNION {{v} \X (1..leaves[w][v]) : v \in Views}
Room(w)    == {v \in live : On(v, w) /\ kind[v] \in Types}

LEMMA BufferLemma ==
  ASSUME FFacts, NEW w \in Workspaces
  PROVE  /\ Cardinality(LeafSet(w)) \in Nat /\ Cardinality(Room(w)) \in Nat
         /\ Cardinality(LeafSet(w)) <= Cardinality(Room(w))
<1> DEFINE A == LeafSet(w)
           B == Room(w)
           s == recent[w]
<1>1. s \in Seq(Views) /\ Len(s) \in Nat
  BY DEF FFacts, IInvFacts, Proper
<1>2. IsFiniteSet(B)
  <2> DEFINE R == {s[i] : i \in 1..Len(s)}
             g == [i \in 1..Len(s) |-> s[i]]
  <2>1. IsFiniteSet(1..Len(s))
    BY <1>1, FS_Interval
  <2>2. g \in Surjection(1..Len(s), R)
    BY DEF Surjection
  <2>3. IsFiniteSet(R)
    BY <2>1, <2>2, FS_Surjection
  <2>4. B \subseteq R
    BY DEF FFacts, OwnLists, Contains, On, Room
  <2> QED BY <2>3, <2>4, FS_Subset
<1>3. \A p : p \in A <=> \E v \in Views : On(v, w) /\ kind[v] = "tiling" /\ p = <<v, 1>>
  <2>1. ASSUME NEW v \in Views
        PROVE  {v} \X (1..leaves[w][v]) =
                 IF On(v, w) /\ kind[v] = "tiling" THEN {<<v, 1>>} ELSE {}
    <3>1. leaves[w][v] = IF On(v, w) /\ kind[v] = "tiling" THEN 1 ELSE 0
      BY DEF FFacts, TreeFollowsLayer
    <3> QED BY <3>1
  <2> QED BY <2>1 DEF LeafSet
<1>4. \A v \in Views : On(v, w) /\ kind[v] = "tiling" => v \in B
  BY DEF FFacts, Types, Room
<1> DEFINE f == [p \in A |-> p[1]]
<1>5. f \in Injection(A, B)
  <2> HIDE DEF A, B
  <2>1. f \in [A -> B]
    BY <1>3, <1>4
  <2>2. IsInjective(f)
    BY <1>3 DEF IsInjective
  <2> QED BY <2>1, <2>2 DEF Injection
<1> HIDE DEF f
<1>6. IsFiniteSet(A) /\ Cardinality(A) <= Cardinality(B)
  BY <1>2, <1>5, FS_Injection
<1>7. Cardinality(A) \in Nat /\ Cardinality(B) \in Nat
  BY <1>2, <1>6, FS_CardinalityType
<1> QED BY <1>6, <1>7

LEMMA ResizedForeground == ASSUME FFacts, OutputResized PROVE FALSE
<1>1. ~ \E w \in Workspaces, v \in Views \ live : leaves[w][v] > 0
  BY DEF FFacts, TreeFollowsLayer
<1>2. PICK w \in Workspaces : Cardinality(LeafSet(w)) > Cardinality(Room(w))
  BY <1>1 DEF OutputResized, LeafSet, Room
<1> QED BY <1>2, BufferLemma

LEMMA SwitchToForeground == ASSUME FFacts, NEW w \in Workspaces, SwitchTo(w) PROVE FInv'
BY TreeKept, OwnKept DEF SwitchTo, layers, FFacts, IInvFacts, FInv, StaysUp

LEMMA SettingForeground ==
  ASSUME FFacts, UNCHANGED <<live, home, kind, recent, leaves, fault>> PROVE FInv'
BY TreeKept, OwnKept DEF FFacts, IInvFacts, FInv, StaysUp

(* With the requests confined to the active workspace, both invariants      *)
(* together are inductive.                                                  *)
LEMMA NextFInv ==
  ASSUME Background = FALSE, IInv, FInv, [Next]_vars
  PROVE  FInv'
<1>0. FFacts
  BY FFactsHold
<1>1. ASSUME NEW v \in Views, SurfaceAdded(v) PROVE FInv'
  BY <1>0, <1>1, AddedForeground
<1>2. ASSUME NEW v \in Views, SurfaceRemoved(v) PROVE FInv'
  BY <1>0, <1>2, RemovedForeground
<1>3. ASSUME NEW v \in Views, Fullscreen(v) PROVE FInv'
  BY <1>0, <1>3, FullscreenForeground DEF Fullscreen, Requests
<1>4. ASSUME NEW v \in live, On(v, active), MoveTo(active, v, type[v]),
             UNCHANGED <<live, fault>>
      PROVE  FInv'
  <2>1. v \in Views /\ type[v] \in Types /\ home[v] = active /\ live' = live \cup {v}
    BY <1>0, <1>4 DEF FFacts, IInvFacts, IInv, TypeOK, On
  <2> QED BY <1>0, <1>4, <2>1, MoveToForeground
<1>5. ASSUME NEW v \in Views, Unfullscreen(v) PROVE FInv'
  BY <1>4, <1>5 DEF Unfullscreen, Requests
<1>6. ASSUME NEW v \in Views, Unmaximize(v) PROVE FInv'
  BY <1>4, <1>6 DEF Unmaximize, Requests
<1>7. ASSUME NEW v \in Views, Minimize(v) PROVE FInv'
  BY <1>0, <1>7, MinimizeForeground DEF Minimize, Requests
<1>8. ASSUME NEW v \in Views, XwaylandPosition(v) PROVE FInv'
  BY <1>0, <1>8, SwitchLayoutForeground DEF XwaylandPosition, Requests
<1>9. ASSUME NEW v \in Views, Activate(v) PROVE FInv'
  <2>1. /\ v \in live /\ home[v] = active /\ recent' = Focused(recent, active, v)
        /\ UNCHANGED <<live, home, kind, leaves, fault>>
    BY <1>9 DEF Activate, On, layers
  <2>2. Moved(recent, recent', active, v)
    BY <1>0, <2>1, FocusedLemma DEF FFacts, IInvFacts
  <2>3. RecentIsWorkspace'
    BY <1>0, <2>1, <2>2, OwnMoved DEF FFacts
  <2> QED BY <1>0, <2>1, <2>3, TreeKept DEF FInv, StaysUp
<1>10. CASE TaskSwitch
  <2>1. UNCHANGED <<live, home, kind, leaves, fault>>
    BY <1>10 DEF TaskSwitch, layers
  <2>2. RecentIsWorkspace'
    BY <1>0, <1>10, <2>1, TaskSwitchLists, OwnKept
  <2> QED BY <1>0, <2>1, <2>2, TreeKept DEF FInv, StaysUp
<1>11. CASE ToggleLayout
  <2>1. focus \in live /\ SwitchLayout(home[focus], focus) /\ UNCHANGED <<live, fault>>
    BY <1>11 DEF ToggleLayout, IInv, TypeOK
  <2>2. home[focus] = active
    BY <2>1, <1>11 DEF IInv, FocusShown, SwitchLayout, ToggleLayout
  <2> QED BY <1>0, <2>1, <2>2, SwitchLayoutForeground
<1>12. ASSUME NEW w \in Workspaces, SwitchTo(w) PROVE FInv'
  BY <1>0, <1>12, SwitchToForeground
<1>13. ASSUME NEW left \in BOOLEAN, SwitchWorkspace(left) PROVE FInv'
  <2>1. Current \in Workspaces
    BY DesktopAssumption DEF Current, Workspaces, IInv, TypeOK
  <2>2. (IF left THEN (IF Current > 0 THEN Current - 1 ELSE 0)
         ELSE (IF Current < MaxWorkspace THEN Current + 1 ELSE MaxWorkspace)) \in Workspaces
    BY <2>1, DesktopAssumption DEF Workspaces
  <2> QED BY <2>2, <1>12, <1>13 DEF SwitchWorkspace
<1>14. CASE SwitchWorkspaceLast
  <2>1. (IF last < MaxWorkspace THEN last ELSE 0) \in Workspaces
    BY DesktopAssumption DEF Workspaces, IInv, TypeOK
  <2> QED BY <2>1, <1>12, <1>14 DEF SwitchWorkspaceLast
<1>15. CASE (\E w \in Workspaces, t \in Types : SetWorkspaceLayout(w, t))
            \/ ShellTakesFocus \/ WidgetClosed
  BY <1>0, <1>15, SettingForeground
     DEF SetWorkspaceLayout, ShellTakesFocus, WidgetClosed, layers
<1>16. CASE OutputResized
  BY <1>0, <1>16, ResizedForeground
<1>17. CASE UNCHANGED vars
  BY <1>0, <1>17, SettingForeground DEF vars
<1> QED BY <1>1, <1>2, <1>3, <1>5, <1>6, <1>7, <1>8, <1>9, <1>10, <1>11, <1>13, <1>14,
           <1>15, <1>16, <1>17 DEF Next, ClientNext, UserNext

LEMMA InitFInv == Init => FInv
<1> SUFFICES ASSUME Init PROVE FInv
  OBVIOUS
<1>1. recent \in [Workspaces -> Seq(Views)]
  BY EmptySeq DEF Init
<1>2. OwnLists
  BY DEF Init, OwnLists, Contains
<1>3. TreeFollowsLayer /\ StaysUp
  BY DEF Init, TreeFollowsLayer, StaysUp
<1> QED BY <1>1, <1>2, <1>3, OwnListsLemma DEF FInv

LEMMA ForegroundInvariance ==
  ASSUME Background = FALSE
  PROVE  Spec => [](IInv /\ FInv)
<1>1. IInv /\ FInv /\ [Next]_vars => (IInv /\ FInv)'
  BY NextIInv, NextFInv
<1> QED BY <1>1, InitIInv, InitFInv, PTL DEF Spec

(* As long as windows off the active workspace stay silent, a recent list   *)
(* holds the windows of its workspace and no other.                         *)
THEOREM RecentListsAreWorkspaces ==
  ASSUME Background = FALSE
  PROVE  Spec => []RecentIsWorkspace
BY ForegroundInvariance, PTL DEF FInv

(* Under the same condition every window on a tiling layer has one leaf, in *)
(* the tree of its workspace, and no tree points to another view.           *)
THEOREM TreesFollowLayers ==
  ASSUME Background = FALSE
  PROVE  Spec => []TreeFollowsLayer
BY ForegroundInvariance, PTL DEF FInv

(* Then nothing goes wrong in any handler either: the window to focus is    *)
(* there, no freed view is read, no arrangement exceeds its buffer.         *)
THEOREM DesktopStaysUp ==
  ASSUME Background = FALSE
  PROVE  Spec => []StaysUp
BY ForegroundInvariance, PTL DEF FInv

(***************************************************************************)
(* Cycling through the windows                                             *)
(***************************************************************************)

(* Unlinking the first view of a list leaves the rest of it. *)
LEMMA WithoutFirst ==
  ASSUME NEW s \in Seq(Views), IsInjective(s), s # <<>>
  PROVE  /\ Without(s, Head(s)) = Tail(s)
         /\ <<Head(s)>> \o Tail(s) = s
<1>1. Len(s) \in Nat /\ Len(s) # 0 /\ Head(s) = s[1] /\ DOMAIN s = 1..Len(s)
  OBVIOUS
<1>2. Contains(s, Head(s))
  BY <1>1 DEF Contains
<1>3. (CHOOSE i \in 1..Len(s) : s[i] = Head(s)) = 1
  BY <1>1 DEF IsInjective
<1>4. Without(s, Head(s)) = RemoveAt(s, 1)
  BY <1>2, <1>3 DEF Without
<1>5. RemoveAt(s, 1) = SubSeq(s, 1, 0) \o SubSeq(s, 2, Len(s))
  BY DEF RemoveAt
<1>6. SubSeq(s, 1, 0) = <<>> /\ SubSeq(s, 2, Len(s)) = Tail(s)
  BY <1>1
<1>7. RemoveAt(s, 1) = Tail(s)
  BY <1>5, <1>6
<1>8. <<Head(s)>> \o Tail(s) = s
  BY <1>1
<1> QED BY <1>4, <1>7, <1>8

LEMMA Rotation ==
  ASSUME IInv, FInv, TaskSwitch
  PROVE  /\ recent'[active] = Append(Tail(recent[active]), Head(recent[active]))
         /\ focus' = Head(recent'[active])
<1> DEFINE s == recent[active]
           h == Head(s)
           t == Append(Tail(s), h)
           r == Defocused(recent, active, Top(recent, active))
           v == Top(r, active)
<1>1. FFacts /\ active \in Workspaces /\ Proper(recent) /\ s # <<>>
  BY FFactsHold DEF FFacts, IInvFacts, TaskSwitch
<1>2. s \in Seq(Views) /\ IsInjective(s) /\ Top(recent, active) = h
  BY <1>1 DEF Proper, Top
<1>3. h \in Views /\ Contains(s, h)
  BY <1>1, <1>2, TopLemma
<1>4. On(h, active)
  BY <1>1, <1>3 DEF FFacts, OwnLists, On
<1>5. Moved(recent, r, active, h)
  BY <1>1, <1>2, <1>3, <1>4, DefocusedLemma
<1>6. r[active] = t
  <2>1. Unlinked(recent, h)[active] = Without(s, h)
    BY <1>1 DEF Unlinked
  <2>2. Without(s, h) = Tail(s)
    BY <1>1, <1>2, WithoutFirst
  <2>3. r = [Unlinked(recent, h) EXCEPT ![active] = Append(@, h)]
    BY <1>2, <1>4 DEF Defocused
  <2>4. Unlinked(recent, h) \in [Workspaces -> Seq(Views)]
    BY <1>1, UnlinkedLemma DEF Proper
  <2> QED BY <1>1, <2>1, <2>2, <2>3, <2>4
<1>7. Proper(r) /\ t \in Seq(Views) /\ IsInjective(t) /\ t # <<>>
  <2>1. Tail(s) \in Seq(Views)
    BY <1>1, <1>2
  <2>2. t # <<>>
    BY <2>1, <1>3
  <2> HIDE DEF t, r
  <2> QED BY <2>2, <1>1, <1>5, <1>6 DEF Moved, Proper
<1>8. v = Head(t) /\ v \in Views
  <2>1. v = Head(t)
    BY <1>6, <1>7 DEF Top
  <2>2. Head(t) \in Views
    <3> HIDE DEF t
    <3> QED BY <1>7
  <2> QED BY <2>1, <2>2
<1>9. focus' = v /\ (recent' = r \/ recent' = Focused(r, active, v))
  BY DEF TaskSwitch
<1> HIDE DEF r, v, t
<1>10. Focused(r, active, v)[active] = t
  <2>1. Unlinked(r, v)[active] = Without(t, v)
    BY <1>1, <1>6 DEF Unlinked
  <2>2. Without(t, v) = Tail(t) /\ <<v>> \o Tail(t) = t
    BY <1>7, <1>8, WithoutFirst
  <2>3. Unlinked(r, v) \in [Workspaces -> Seq(Views)]
    BY <1>7, UnlinkedLemma DEF Proper
  <2> QED BY <1>1, <2>1, <2>2, <2>3 DEF Focused
<1>11. recent'[active] = t
  BY <1>6, <1>9, <1>10
<1> QED BY <1>8, <1>9, <1>11 DEF t

(* Under the same condition the first window of the list goes last, and the *)
(* one that is then first has the focus.                                    *)
THEOREM CyclingRotates ==
  ASSUME Background = FALSE
  PROVE  Spec => TaskSwitchRotates
<1>1. IInv /\ FInv /\ [Next]_vars =>
        [fault = "none" /\ TaskSwitch =>
           /\ recent'[active] = Append(Tail(recent[active]), Head(recent[active]))
           /\ focus' = Head(recent'[active])]_vars
  BY Rotation
<1> QED BY <1>1, ForegroundInvariance, PTL DEF Spec, TaskSwitchRotates
================================================================================
