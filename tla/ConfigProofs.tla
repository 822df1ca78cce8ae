------------------------------ MODULE ConfigProofs -----------------------------
(***************************************************************************)
(* ConfigReload for any scripts, any number of configurations and of       *)
(* waiting callbacks: of a rejected configuration nothing is in force but  *)
(* what the first waking of the compositor applied, and no setting is      *)
(* forgotten.                                                              *)
(***************************************************************************)
EXTENDS ConfigReload, TLAPS

Types ==
  /\ runs \in 0..MaxRuns /\ table \in Gen /\ broken \in {Len(Order), Len(Order) + 1}
  /\ tables \in [Gen -> [Setting -> (0..runs) \cup {None, Zero}]]
  /\ lua \in (1..runs) \cup {None} /\ applied \in [Setting -> 0..runs]
  /\ rejected \subseteq 1..runs /\ idle \in Seq(Gen)
  /\ initialized \in BOOLEAN /\ awake \in BOOLEAN

(* No table and no lua state holds anything of a rejected configuration.   *)
Untainted ==
  /\ FailedOnlyByWake
  /\ \A t \in Gen, s \in Setting : tables[t][s] \notin rejected
  /\ lua \notin rejected

(* The parts are set up all at once or never, and before the first of them *)
(* there is nothing to apply.                                              *)
Waking ==
  /\ runs = 0 => ~awake
  /\ initialized <=> awake /\ broken = Len(Order) + 1
  /\ ~awake => idle = <<>> /\ tables[table] = NoSettings

IInv == Types /\ Untainted /\ Waking /\ NothingForgotten

(***************************************************************************)
(* What a script leaves behind                                             *)
(***************************************************************************)
AllSetUp == {Order[k] : k \in 1..(broken - 1)}

LEMMA NoneIsNoConfiguration == Types => None \notin rejected /\ Zero \notin rejected
<1> SUFFICES ASSUME Types PROVE None \notin rejected /\ Zero \notin rejected
  OBVIOUS
<1>1. \A x \in rejected : x \in 0..MaxRuns
  BY ConfigAssumption DEF Types
<1> QED BY <1>1, ConfigAssumption DEF Gen

LEMMA PartsLemma ==
  ASSUME broken \in {Len(Order), Len(Order) + 1}
  PROVE  /\ AllSetUp # {} /\ Part # {}
         /\ AllSetUp = Part <=> broken = Len(Order) + 1
<1>1. /\ Len(Order) = 7 /\ Order[1] = "backend" /\ Order[7] = "xwayland"
      /\ \A k \in 1..6 : Order[k] # "xwayland"
  BY DEF Order
<1>2. AllSetUp # {} /\ Part # {}
  <2>1. 1 \in 1..(broken - 1) /\ 1 \in 1..Len(Order)
    BY <1>1
  <2> QED BY <2>1 DEF AllSetUp, Part
<1>3. CASE broken = 8
  BY <1>1, <1>3 DEF AllSetUp, Part
<1>4. CASE broken = 7
  <2>1. "xwayland" \in Part
    BY <1>1 DEF Part
  <2>2. "xwayland" \notin AllSetUp
    BY <1>1, <1>4 DEF AllSetUp
  <2> QED BY <1>1, <1>2, <1>4, <2>1, <2>2
<1> QED BY <1>1, <1>2, <1>3, <1>4

(* What holds of the result r of running configuration g. *)
Sound(r, g) ==
  /\ r.pending \in [Setting -> {g, None, Zero}]
  /\ r.applied \in [Setting -> 0..g]
  /\ \A s \in Setting : r.applied[s] \in {applied[s], g}
  /\ initialized => r.applied = applied /\ r.known = {}
  /\ ~initialized => r.known \in {{}, AllSetUp}

LEMMA RanSound ==
  ASSUME Types, NEW script, NEW g \in 1..MaxRuns, runs <= g
  PROVE  /\ Sound(Ran(script, g), g)
         /\ Ran(script, g).all = (initialized \/ Ran(script, g).known = Part)
<1> DEFINE wakes == script.wakes /\ script.first \cap Asking = {}
           known == IF wakes THEN Woken ELSE {}
           stops == \/ script.first \cap Asking # {}
                    \/ \E s \in script.later \cap Asking : Needs[s] \notin known
           early == [s \in Setting |-> IF s \in script.first THEN Asked(script, s, g) ELSE None]
           due   == IF wakes /\ ~initialized THEN Due(early, {}) ELSE {}
           pending == [s \in Setting |-> IF s \in script.later /\ ~stops
                                         THEN Asked(script, s, g) ELSE Left(early, due)[s]]
<1>1. /\ Ran(script, g).pending = pending
      /\ Ran(script, g).applied = Values(early, due)
      /\ Ran(script, g).known = known
      /\ Ran(script, g).all = (initialized \/ known = Part)
  BY DEF Ran
<1>2. early \in [Setting -> {g, None, Zero}]
  BY DEF Asked
<1>3. pending \in [Setting -> {g, None, Zero}]
  BY <1>2 DEF Left, Asked
<1>4. due \subseteq Setting /\ \A s \in due : early[s] = g
  BY <1>2 DEF Due
<1>5. applied \in [Setting -> 0..g]
  BY DEF Types
<1>6. /\ Values(early, due) \in [Setting -> 0..g]
      /\ \A s \in Setting : Values(early, due)[s] \in {applied[s], g}
  <2> HIDE DEF early, due
  <2> QED BY <1>4, <1>5 DEF Values
<1>7. initialized => Values(early, due) = applied
  BY <1>5 DEF Values
<1>8. /\ initialized => known = {}
      /\ ~initialized => known \in {{}, AllSetUp}
  BY DEF Woken, AllSetUp
<1> HIDE DEF pending, early, due, known
<1> QED BY <1>1, <1>3, <1>6, <1>7, <1>8 DEF Sound

(* A configuration without a file does nothing and misses nothing. *)
LEMMA NoScriptSound ==
  ASSUME Types, NEW g \in 1..MaxRuns, runs <= g
  PROVE  Sound(NoScript, g) /\ NoScript.known = {} /\ NoScript.pending = NoSettings
                            /\ Loads(NoScript)
<1>1. /\ NoScript.pending = NoSettings /\ NoScript.applied = applied /\ NoScript.known = {}
      /\ NoScript.done /\ NoScript.all /\ NoScript.binds
  BY DEF NoScript
<1>2. applied \in [Setting -> 0..g]
  BY DEF Types
<1>3. NoSettings \in [Setting -> {g, None, Zero}]
  BY DEF NoSettings
<1> QED BY <1>1, <1>2, <1>3 DEF Sound, Loads

(***************************************************************************)
(* The steps                                                               *)
(***************************************************************************)
LEMMA InitInv == Init => IInv
<1> SUFFICES ASSUME Init PROVE IInv
  OBVIOUS
<1>1. NoSettings \in [Setting -> (0..runs) \cup {None, Zero}]
  BY DEF NoSettings
<1>2. Types
  <2>1. tables \in [Gen -> [Setting -> (0..runs) \cup {None, Zero}]]
    BY <1>1 DEF Init
  <2>2. 0 \in 0..MaxRuns
    BY ConfigAssumption
  <2>4. /\ runs \in 0..MaxRuns /\ table \in Gen /\ broken \in {Len(Order), Len(Order) + 1}
        /\ lua \in (1..runs) \cup {None} /\ rejected \subseteq 1..runs
        /\ initialized \in BOOLEAN /\ awake \in BOOLEAN
    BY <2>2 DEF Init, Gen
  <2>3. applied \in [Setting -> 0..runs] /\ idle \in Seq(Gen)
    BY DEF Init
  <2> QED BY <2>1, <2>3, <2>4 DEF Types
<1>3. Untainted /\ Waking
  BY <1>2 DEF Init, Types, Untainted, Waking, FailedOnlyByWake
<1>4. NothingForgotten
  BY DEF Init, NothingForgotten, Waiting
<1> QED BY <1>2, <1>3, <1>4 DEF IInv

(* tw_run_config, at the start or later. *)
LEMMA TryInv ==
  ASSUME IInv, NEW script \in Scripts \cup {None}, NEW g \in 1..MaxRuns, g = runs + 1,
         NEW r, r = Result(script, g), TryConfig(script, r, g), UNCHANGED <<broken, idle>>,
         awake \/ runs = 0
  PROVE  IInv'
<1>1. /\ Types /\ Untainted /\ Waking /\ NothingForgotten
      /\ runs' = g /\ g \in Gen /\ g \notin rejected /\ {None, Zero} \cap Gen = {}
  BY ConfigAssumption DEF IInv, TryConfig, Types, Gen
<1>2. Sound(r, g)
  BY <1>1, RanSound, NoScriptSound DEF Result, Types
<1>3. script # None => r.all = (initialized \/ r.known = Part)
  BY <1>1, RanSound DEF Result, Types
<1>4. script = None => r.known = {} /\ r.pending = NoSettings /\ Loads(r)
  BY <1>1, NoScriptSound DEF Result, Types
<1>5. awake' = (awake \/ r.known # {}) /\ initialized' = (IF script = None THEN initialized ELSE r.all)
  BY DEF TryConfig
<1>6. /\ initialized' \in BOOLEAN /\ awake' \in BOOLEAN
      /\ initialized' <=> awake' /\ broken' = Len(Order) + 1
  <2>1. r.known \in {{}, AllSetUp}
    BY <1>1, <1>2 DEF Sound, Types
  <2>2. broken \in {Len(Order), Len(Order) + 1}
    BY <1>1 DEF Types
  <2>3. r.known = Part <=> r.known = AllSetUp /\ broken = Len(Order) + 1
    BY <2>1, <2>2, PartsLemma
  <2> QED BY <1>1, <1>2, <1>3, <1>4, <1>5, <2>1, <2>2, <2>3, PartsLemma DEF Types, Waking, Sound
<1>9. /\ flushed \subseteq flushed'
      /\ ~initialized => \A s \in Setting : r.applied[s] = g => <<g, s>> \in flushed'
  BY DEF TryConfig, Woke
<1>7. CASE Loads(r)
  <2> DEFINE due == Due(r.pending, r.known)
  <2>1. /\ table' = g /\ lua' = g /\ tables' = [tables EXCEPT ![g] = Left(r.pending, due)]
        /\ applied' = [s \in Setting |-> IF s \in due THEN r.pending[s] ELSE r.applied[s]]
        /\ parts' = r.known /\ rejected' = rejected
    BY <1>7 DEF TryConfig, Accept
  <2>2. /\ Left(r.pending, due) \in [Setting -> {g, None, Zero}]
        /\ \A s \in due : s \in Setting /\ r.pending[s] = g
    BY <1>2 DEF Left, Due, Sound
  <2> HIDE DEF due
  <2>3. Types'
    BY <1>1, <1>2, <1>6, <2>1, <2>2 DEF Types, Sound
  <2>4. Untainted'
    <3>1. FailedOnlyByWake'
      <4> SUFFICES ASSUME NEW s \in Setting, applied'[s] \in rejected
                   PROVE  <<applied'[s], s>> \in flushed'
        BY <2>1 DEF FailedOnlyByWake
      <4>1. applied'[s] \in {g, applied[s]}
        BY <1>2, <2>1, <2>2 DEF Sound
      <4> QED BY <1>1, <1>9, <4>1 DEF Untainted, FailedOnlyByWake
    <3>2. \A t \in Gen, s \in Setting : tables'[t][s] \notin rejected
      <4> SUFFICES ASSUME NEW t \in Gen, NEW s \in Setting PROVE tables'[t][s] \notin rejected
        OBVIOUS
      <4>1. tables'[t][s] \in {g, None, Zero, tables[t][s]}
        BY <1>1, <2>1, <2>2 DEF Types
      <4>2. None \notin rejected /\ Zero \notin rejected
        BY <1>1, NoneIsNoConfiguration
      <4> QED BY <1>1, <4>1, <4>2 DEF Untainted
    <3> QED BY <1>1, <2>1, <3>1, <3>2 DEF Untainted
  <2>5. tables'[table'] = Left(r.pending, due)
    BY <1>1, <2>1 DEF Types
  <2>6. Waking'
    <3>1. ASSUME ~awake' PROVE idle' = <<>> /\ tables'[table'] = NoSettings
      <4>1. idle' = <<>> /\ r.known = {} /\ ~awake
        BY <1>1, <1>5, <3>1 DEF Waking
      <4>2. script = None
        BY <1>1, <1>3, <1>7, <4>1, PartsLemma DEF Waking, Loads, Types
      <4>3. Left(NoSettings, due) = NoSettings
        BY DEF Left, NoSettings
      <4> QED BY <1>4, <2>5, <4>1, <4>2, <4>3
    <3> QED BY <1>1, <1>6, <3>1 DEF Waking
  <2>7. NothingForgotten'
    <3> SUFFICES ASSUME NEW s \in Setting \ (Quiet \cup Deaf), Waiting(s)' PROVE FALSE
      BY DEF NothingForgotten
    <3>1. Left(r.pending, due)[s] \notin {None, Zero} /\ Needs[s] \in r.known \cup {None}
      BY <2>1, <2>5 DEF Waiting
    <3> QED BY <3>1 DEF Left, Due, due
  <2> QED BY <2>3, <2>4, <2>6, <2>7 DEF IInv
<1>8. CASE ~Loads(r)
  <2>1. /\ parts' = r.known /\ applied' = r.applied /\ UNCHANGED <<tables, table, lua>>
        /\ rejected' = rejected \cup {g}
    BY <1>8 DEF TryConfig, Reject
  <2>2. Types'
    <3>1. (0..runs) \subseteq 0..g
      BY <1>1 DEF Types
    <3>2. tables' \in [Gen -> [Setting -> (0..runs') \cup {None, Zero}]]
      BY <1>1, <2>1, <3>1 DEF Types
    <3>3. lua' \in (1..runs') \cup {None} /\ rejected' \subseteq 1..runs'
      BY <1>1, <2>1 DEF Types
    <3> QED BY <1>1, <1>2, <1>6, <2>1, <3>2, <3>3 DEF Types, Sound
  <2>3. Untainted'
    <3>1. FailedOnlyByWake'
      <4> SUFFICES ASSUME NEW s \in Setting, applied'[s] \in rejected'
                   PROVE  <<applied'[s], s>> \in flushed'
        BY DEF FailedOnlyByWake
      <4>1. applied'[s] = r.applied[s] /\ applied[s] # g
        BY <1>1, <2>1 DEF Types
      <4>2. CASE applied'[s] = g
        <5>1. ~initialized
          BY <1>2, <4>1, <4>2 DEF Sound
        <5> QED BY <1>9, <4>1, <4>2, <5>1
      <4>3. CASE applied'[s] # g
        <5>1. applied'[s] = applied[s] /\ applied[s] \in rejected
          BY <1>2, <2>1, <4>1, <4>3 DEF Sound
        <5> QED BY <1>1, <1>9, <5>1 DEF Untainted, FailedOnlyByWake
      <4> QED BY <4>2, <4>3
    <3>2. \A t \in Gen, s \in Setting : tables[t][s] # g
      <4>1. g \notin (0..runs) \cup {None, Zero}
        BY <1>1 DEF Types, Gen
      <4> QED BY <1>1, <4>1 DEF Types
    <3>3. lua # g
      BY <1>1 DEF Types
    <3> QED BY <1>1, <2>1, <3>1, <3>2, <3>3 DEF Untainted
  <2>4. Waking'
    <3>1. runs' # 0
      BY <1>1
    <3>2. ~awake' => idle' = <<>> /\ tables'[table'] = NoSettings
      BY <1>1, <1>5, <2>1 DEF Waking
    <3> QED BY <1>6, <3>1, <3>2 DEF Waking
  <2>5. NothingForgotten'
    <3> SUFFICES ASSUME NEW s \in Setting \ (Quiet \cup Deaf), Waiting(s)'
                 PROVE  \E k \in 1..Len(idle) : idle[k] = table
      BY <2>1 DEF NothingForgotten
    <3>1. initialized' /\ tables[table][s] \notin {None, Zero} /\ Needs[s] \in r.known \cup {None}
      BY <2>1 DEF Waiting
    <3>2. initialized
      <4>1. ASSUME ~initialized PROVE FALSE
        <5>1. ~awake
          BY <1>1, <1>6, <3>1, <4>1 DEF Waking
        <5>2. tables[table] = NoSettings
          BY <1>1, <5>1 DEF Waking
        <5> QED BY <3>1, <5>2 DEF NoSettings
      <4> QED BY <4>1
    <3>3. Needs[s] = None
      BY <1>2, <3>1, <3>2 DEF Sound
    <3>4. Waiting(s)
      BY <3>1, <3>2, <3>3 DEF Waiting
    <3> QED BY <1>1, <3>4 DEF NothingForgotten
  <2> QED BY <2>2, <2>3, <2>4, <2>5 DEF IInv
<1> QED BY <1>7, <1>8

LEMMA StartWithDefaultInv ==
  ASSUME IInv, NEW script \in Scripts, StartWithDefault(script)
  PROVE  IInv'
<1> DEFINE r == Ran(script, 1)
           missing == IF r.all THEN {} ELSE Woken
<1>1. Types /\ Untainted /\ Waking /\ 1 \in 1..MaxRuns /\ runs = 0 /\ runs' = 1
  BY ConfigAssumption DEF IInv, StartWithDefault
<1>2. Sound(r, 1) /\ r.all = (initialized \/ r.known = Part)
  BY <1>1, RanSound
<1>3. /\ initialized' = (r.all \/ missing = Part) /\ awake' = TRUE
      /\ applied' = [s \in Setting |-> IF s \in Guarded THEN 0 ELSE r.applied[s]]
      /\ rejected' = rejected \cup {1}
      /\ UNCHANGED <<broken, table, tables, lua, idle>>
  BY DEF StartWithDefault
<1>4. ~initialized /\ Woken = AllSetUp
  BY <1>1 DEF Waking, Woken, AllSetUp
<1>5. initialized' <=> broken = Len(Order) + 1
  <2>1. /\ broken \in {Len(Order), Len(Order) + 1} /\ r.known \in {{}, AllSetUp}
    BY <1>1, <1>2, <1>4 DEF Types, Sound
  <2>2. missing = (IF r.all THEN {} ELSE AllSetUp)
    BY <1>4
  <2> HIDE DEF missing, r
  <2> QED BY <1>2, <1>3, <1>4, <2>1, <2>2, PartsLemma
<1>11. \A s \in Setting : r.applied[s] = 1 => <<1, s>> \in flushed'
  BY <1>4 DEF StartWithDefault, Woke
<1> HIDE DEF missing, r
<1>6. Types'
  BY <1>1, <1>2, <1>3, <1>5 DEF Types, Sound
<1>7. rejected = {}
  BY <1>1 DEF Types
<1>8. Untainted'
  <2>1. FailedOnlyByWake'
    BY <1>3, <1>7, <1>11 DEF FailedOnlyByWake
  <2>2. \A t \in Gen, s \in Setting : tables[t][s] # 1
    <3>1. 1 \notin (0..runs) \cup {None, Zero}
      BY <1>1, ConfigAssumption DEF Gen
    <3> QED BY <1>1, <3>1 DEF Types
  <2>3. lua # 1
    BY <1>1, ConfigAssumption DEF Types, Gen
  <2> QED BY <1>1, <1>3, <1>7, <2>1, <2>2, <2>3 DEF Untainted
<1>9. Waking'
  BY <1>1, <1>3, <1>5 DEF Waking
<1>10. NothingForgotten'
  <2>1. tables'[table'] = NoSettings
    BY <1>1, <1>3 DEF Waking
  <2> QED BY <2>1 DEF NothingForgotten, Waiting, NoSettings
<1> QED BY <1>6, <1>8, <1>9, <1>10 DEF IInv

LEMMA ChangeInv ==
  ASSUME IInv, NEW s \in Setting, Change(s)
  PROVE  IInv'
<1>1. Types /\ Untainted /\ Waking /\ NothingForgotten /\ awake /\ lua # None
  BY DEF IInv, Change
<1>2. UNCHANGED <<runs, broken, table, lua, parts, initialized, awake, applied, rejected, flushed>>
  BY DEF Change
<1>3. CASE s \in Asking
  <2>1. UNCHANGED <<tables, idle>>
    BY <1>3 DEF Change
  <2> QED BY <1>1, <1>2, <2>1 DEF IInv, Types, Untainted, Waking, NothingForgotten, Waiting,
                                    FailedOnlyByWake
<1>4. CASE s \notin Asking
  <2>1. PICK value \in {lua, Zero} :
          /\ tables' = [tables EXCEPT ![table][s] = value]
          /\ idle' = IF s \in Quiet THEN idle ELSE Append(idle, table)
    BY <1>4 DEF Change
  <2>2. value \in (0..runs) \cup {None, Zero} /\ value \notin rejected /\ table \in Gen
    BY <1>1, NoneIsNoConfiguration DEF Types, Untainted
  <2>3. idle' \in Seq(Gen)
    BY <1>1, <2>1, <2>2 DEF Types
  <2>4. Types'
    BY <1>1, <1>2, <2>1, <2>2, <2>3 DEF Types
  <2>5. Untainted'
    BY <1>1, <1>2, <2>1, <2>2 DEF Types, Untainted, FailedOnlyByWake
  <2>6. Waking'
    BY <1>1, <1>2 DEF Waking
  <2>7. NothingForgotten'
    <3> SUFFICES ASSUME NEW x \in Setting \ (Quiet \cup Deaf), Waiting(x)'
                 PROVE  \E k \in 1..Len(idle') : idle'[k] = table
      BY <1>2 DEF NothingForgotten
    <3>1. CASE x = s
      <4>1. idle' = Append(idle, table)
        BY <2>1, <3>1
      <4>2. Len(idle') = Len(idle) + 1 /\ idle'[Len(idle) + 1] = table /\ Len(idle) \in Nat
        BY <1>1, <4>1, <2>2 DEF Types
      <4> QED BY <4>2
    <3>2. CASE x # s
      <4>1. Waiting(x)
        BY <1>1, <1>2, <2>1, <2>2, <3>2 DEF Waiting, Types
      <4>2. PICK k \in 1..Len(idle) : idle[k] = table
        BY <1>1, <4>1 DEF NothingForgotten
      <4>3. k \in 1..Len(idle') /\ idle'[k] = idle[k]
        BY <1>1, <2>1, <2>2 DEF Types
      <4> QED BY <4>2, <4>3
    <3> QED BY <3>1, <3>2
  <2> QED BY <2>4, <2>5, <2>6, <2>7 DEF IInv
<1> QED BY <1>3, <1>4

LEMMA RunIdleInv == IInv /\ RunIdle => IInv'
<1> SUFFICES ASSUME IInv, RunIdle PROVE IInv'
  OBVIOUS
<1> DEFINE t == Head(idle)
           due == Due(tables[t], parts)
<1>1. Types /\ Untainted /\ Waking /\ NothingForgotten /\ idle # <<>>
  BY DEF IInv, RunIdle
<1>2. /\ UNCHANGED <<runs, broken, table, lua, parts, initialized, awake, rejected, flushed>>
      /\ idle' = Tail(idle)
      /\ applied' = [s \in Setting |-> IF s \in due THEN tables[t][s] ELSE applied[s]]
      /\ tables' = [tables EXCEPT ![t] = Left(@, due)]
  BY DEF RunIdle, Flush, Values
<1>3. t \in Gen /\ Tail(idle) \in Seq(Gen) /\ Len(Tail(idle)) = Len(idle) - 1
      /\ t = idle[1] /\ \A k \in 1..Len(idle) - 1 : Tail(idle)[k] = idle[k + 1]
  BY <1>1 DEF Types
<1> HIDE DEF t
<1>4. due \subseteq Setting /\ \A s \in due : tables[t][s] \notin {None, Zero}
  BY DEF Due
<1>5. /\ tables[t] \in [Setting -> (0..runs) \cup {None, Zero}]
      /\ Left(tables[t], due) \in [Setting -> (0..runs) \cup {None, Zero}]
      /\ \A s \in Setting : Left(tables[t], due)[s] \in {None, tables[t][s]}
  BY <1>1, <1>3 DEF Types, Left
<1> HIDE DEF due
<1>6. Types'
  <2>1. applied' \in [Setting -> 0..runs]
    BY <1>1, <1>2, <1>4, <1>5 DEF Types
  <2> QED BY <1>1, <1>2, <1>3, <1>5, <2>1 DEF Types
<1>7. Untainted'
  <2>1. None \notin rejected
    BY <1>1, NoneIsNoConfiguration
  <2>2. FailedOnlyByWake'
    BY <1>1, <1>2, <1>3 DEF Untainted, FailedOnlyByWake
  <2>3. \A u \in Gen, s \in Setting : tables'[u][s] \notin rejected
    <3> SUFFICES ASSUME NEW u \in Gen, NEW s \in Setting PROVE tables'[u][s] \notin rejected
      OBVIOUS
    <3>1. tables'[u][s] \in {None, tables[u][s]}
      BY <1>1, <1>2, <1>3, <1>5 DEF Types
    <3> QED BY <1>1, <2>1, <3>1 DEF Untainted
  <2> QED BY <1>1, <1>2, <2>2, <2>3 DEF Untainted
<1>8. Waking'
  BY <1>1, <1>2 DEF Waking
<1>9. NothingForgotten'
  <2> SUFFICES ASSUME NEW s \in Setting \ (Quiet \cup Deaf), Waiting(s)'
               PROVE  \E k \in 1..Len(idle') : idle'[k] = table
    BY <1>2 DEF NothingForgotten
  <2>1. CASE t = table
    <3>1. Left(tables[t], due)[s] \notin {None, Zero} /\ Needs[s] \in parts \cup {None}
      BY <1>1, <1>2, <1>3, <2>1 DEF Waiting, Types
    <3> QED BY <3>1 DEF Left, due, Due
  <2>2. CASE t # table
    <3>1. Waiting(s)
      BY <1>1, <1>2, <1>3, <2>2 DEF Waiting, Types
    <3>2. PICK k \in 1..Len(idle) : idle[k] = table
      BY <1>1, <3>1 DEF NothingForgotten
    <3>3. k # 1 /\ Len(idle) \in Nat
      BY <1>1, <1>3, <2>2, <3>2 DEF Types
    <3>4. k - 1 \in 1..Len(idle') /\ idle'[k - 1] = table
      BY <1>2, <1>3, <3>2, <3>3
    <3> QED BY <3>4
  <2> QED BY <2>1, <2>2
<1> QED BY <1>6, <1>7, <1>8, <1>9 DEF IInv

LEMMA NextInv == IInv /\ [Next]_vars => IInv'
<1> SUFFICES ASSUME IInv, [Next]_vars PROVE IInv'
  OBVIOUS
<1>1. CASE UNCHANGED vars
  BY <1>1 DEF vars, IInv, Types, Untainted, Waking, NothingForgotten, Waiting,
              FailedOnlyByWake
<1>2. ASSUME NEW script \in Scripts \cup {None}, Start(script) PROVE IInv'
  <2>1. 1 \in 1..MaxRuns /\ 1 = runs + 1
    BY <1>2, ConfigAssumption DEF Start
  <2> QED BY <1>2, <2>1, TryInv DEF Start
<1>3. ASSUME NEW script \in Scripts \cup {None}, Reload(script) PROVE IInv'
  <2>1. runs + 1 \in 1..MaxRuns
    BY <1>3, ConfigAssumption DEF Reload, IInv, Types
  <2> QED BY <1>3, <2>1, TryInv DEF Reload
<1>4. ASSUME NEW script \in Scripts, StartWithDefault(script) PROVE IInv'
  BY <1>4, StartWithDefaultInv
<1>5. CASE User
  <2>1. ASSUME UseDesktop PROVE IInv'
    BY <2>1 DEF UseDesktop, IInv, Types, Untainted, Waking, NothingForgotten, Waiting,
                FailedOnlyByWake
  <2> QED BY <1>5, <2>1, ChangeInv DEF User
<1> QED BY <1>1, <1>2, <1>3, <1>4, <1>5, RunIdleInv DEF Next

THEOREM Invariance == Spec => []IInv
<1> QED BY InitInv, NextInv, PTL DEF Spec

(***************************************************************************)
(* The theorems                                                            *)
(***************************************************************************)
(* For any scripts and any number of reloads, what a rejected script asked  *)
(* for is in force only if the script woke the compositor after asking, and *)
(* before all parts had been set up; no later flush applies it.             *)
THEOREM RejectedOnlyByWake == Spec => []FailedOnlyByWake
<1>1. IInv => FailedOnlyByWake
  BY DEF IInv, Untainted
<1> QED BY <1>1, Invariance, PTL

(* A setting that could be applied and waits has a callback queued for the  *)
(* table it is in, through any number of reloads.                           *)
THEOREM NothingIsForgotten == Spec => []NothingForgotten
<1>1. IInv => NothingForgotten
  BY DEF IInv
<1> QED BY <1>1, Invariance, PTL
================================================================================
