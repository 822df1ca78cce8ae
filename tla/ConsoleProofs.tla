----------------------------- MODULE ConsoleProofs -----------------------------
(***************************************************************************)
(* What holds of a console module and its thread for any texts, entries,   *)
(* caching, uninitialised values and number of commands.                   *)
(*                                                                         *)
(* The three safety properties are nearly inductive.  What they lack is    *)
(* how far the semaphore may have counted at each place of the console     *)
(* thread, that a module is released by a console that has set quit, and   *)
(* that no command is known before it was issued.                          *)
(***************************************************************************)
EXTENDS ConsoleModule, TLAPS

Releasing == {"peek", "post_again", "post_last", "join", "released"}

(* Everything ever issued posts once; a release posts twice more at most,   *)
(* for it ends with the first post after the count was seen above zero.     *)
SemaphoreBound ==
  /\ at \in {"create", "set_fields", "post_again"} => semaphore = 0
  /\ at \in {"idle", "edit"} => semaphore <= issued
  /\ at = "post" => semaphore < issued
  /\ at \in {"peek", "post_last"} => semaphore <= issued + 1
  /\ at \in {"join", "released"} => semaphore <= issued + 2

Phases ==
  /\ pc = "unborn" <=> at = "create"
  /\ at \in Releasing => quit

KnownIssued == exec_command <= issued /\ program <= issued /\ ran <= issued

IInv ==
  /\ TypeOK /\ SemaphoreBound /\ Phases /\ KnownIssued
  /\ NoLostWakeUp /\ AnswersCover /\ ExecOnce

(***************************************************************************)
(* The cache                                                               *)
(***************************************************************************)

LEMMA Constants ==
  /\ MaxIssue \in Nat /\ 0 \in 0..MaxIssue /\ 0 \in 0..MaxIssue + 2
  /\ Empty \in Answers /\ Empty.entries = {} /\ Empty.request = None
BY ConsoleAssumption DEF Empty, Answers

LEMMA ResultsType ==
  ASSUME NEW a \in Answers, NEW b \in BOOLEAN
  PROVE  [taken |-> b, answer |-> a] \in [taken : BOOLEAN, answer : Answers]
OBVIOUS

Cached(c) ==
  c.request # None => Found[c.request] \subseteq c.entries /\ c.entries \subseteq Kept[c.request]

(* Searching answers a text.  (module->search)                              *)
LEMMA SearchedLemma ==
  ASSUME NEW c \in Answers, NEW t \in Texts
  PROVE  /\ Searched(c, t) \in Answers
         /\ Covers(Searched(c, t)) /\ Cached(Searched(c, t))
<1>1. Found[t] \subseteq Kept[t] /\ Found[t] \subseteq Entries /\ t # None
  BY ConsoleAssumption
<1>2. Searched(c, t) \in Answers
  BY <1>1 DEF Searched, Answers
<1>3. Searched(c, t).request = t /\ Searched(c, t).entries = Found[t]
  BY DEF Searched
<1> QED BY <1>1, <1>2, <1>3 DEF Covers, Cached

(* Filtering the cached answer of a prefix leaves out nothing a search of   *)
(* the text finds, and the cache with such an answer; the same text again   *)
(* filters nothing and answers nothing.  (cache_filter)                     *)
LEMMA FilteredLemma ==
  ASSUME NEW c \in Answers, NEW t \in Texts \cup {None}, Cachable(c, t), Cached(c)
  PROVE  /\ Filtered(c, t) \in Answers /\ Covers(Filtered(c, t))
         /\ Refined(c, t) \in Answers /\ Cached(Refined(c, t))
<1>1. /\ t \in Texts /\ t # None
      /\ c.request \in Texts /\ c.request # None /\ c.entries \subseteq Entries
  BY DEF Cachable, Answers
<1>2. Filtered(c, t) \in Answers
  BY <1>1 DEF Filtered, Answers
<1>3. Filtered(c, t).request = t
  BY DEF Filtered
<1>4. CASE t = c.request
  <2>1. Filtered(c, t).again = TRUE /\ Filtered(c, t).entries = {} /\ Refined(c, t) = c
    BY <1>4 DEF Filtered, Refined
  <2> QED BY <1>1, <1>2, <1>3, <2>1 DEF Covers
<1>5. CASE t # c.request
  <2>1. Found[t] \subseteq Found[c.request]
    <3>1. <<c.request, t>> \in Extends
      BY <1>5 DEF Cachable
    <3>2. Found[<<c.request, t>>[2]] \subseteq Found[<<c.request, t>>[1]]
      BY <3>1, ConsoleAssumption
    <3> QED BY <3>2
  <2>2. Found[t] \subseteq c.entries \cap Kept[t]
    BY <1>1, <2>1, ConsoleAssumption DEF Cached
  <2>3. Filtered(c, t).entries = c.entries \cap Kept[t] /\ Refined(c, t) = Filtered(c, t)
    BY <1>5 DEF Filtered, Refined
  <2> QED BY <1>1, <1>2, <1>3, <2>2, <2>3 DEF Covers, Cached
<1> QED BY <1>4, <1>5

(***************************************************************************)
(* Every step keeps every part                                             *)
(***************************************************************************)

(* What the threads share keeps its types. *)
LEMMA ModuleTypesKept ==
  ASSUME TypeOK, SemaphoreBound, [Next]_vars
  PROVE  ModuleTypes'
<1> USE Constants DEF TypeOK, ModuleTypes
<1>1. CASE TakeExec
  BY <1>1 DEF TakeExec
<1>2. CASE PublishExec
  BY <1>2 DEF PublishExec, ThreadTypes
<1>3. CASE TakeSearch
  BY <1>3 DEF TakeSearch
<1>4. CASE PublishSearch
  BY <1>4 DEF PublishSearch, ThreadTypes
<1>5. CASE Wait
  BY <1>5 DEF Wait
<1>6. CASE SetFields
  <2>1. search_results' \in [taken : BOOLEAN, answer : Answers]
    BY <1>6, ResultsType DEF SetFields
  <2>2. quit' \in BOOLEAN /\ UNCHANGED <<caching, semaphore>>
    BY <1>6 DEF SetFields
  <2>3. /\ search_command' = None /\ exec_command' = 0 /\ exec_res' = "null"
    BY <1>6 DEF SetFields
  <2> QED BY <2>1, <2>2, <2>3
<1>7. CASE Draw
  <2>1. search_results' \in [taken : BOOLEAN, answer : Answers]
    BY <1>7, ResultsType DEF Draw
  <2>2. UNCHANGED <<caching, quit, search_command, exec_command, exec_res, semaphore>>
    BY <1>7 DEF Draw
  <2> QED BY <2>1, <2>2
<1>8. ASSUME NEW t \in Texts, StoreSearch(t) PROVE ModuleTypes'
  BY <1>8 DEF StoreSearch, ConsoleTypes
<1>9. CASE StoreExec
  BY <1>9 DEF StoreExec, ConsoleTypes
<1>10. CASE Post
  BY <1>10 DEF Post, SemaphoreBound, ConsoleTypes
<1>11. CASE Release
  BY <1>11 DEF Release
<1>12. CASE PostQuit
  BY <1>12 DEF PostQuit, SemaphoreBound, ConsoleTypes
<1>13. CASE Join
  BY <1>13 DEF Join
<1>14. CASE UNCHANGED module
  BY <1>14 DEF module
<1> QED
  BY <1>1, <1>2, <1>3, <1>4, <1>5, <1>6, <1>7, <1>8, <1>9, <1>10, <1>11,
     <1>12, <1>13, <1>14
  DEF Next, ThreadNext, ConsoleNext, UserNext, vars, Exec, LockResults,
      Search, CreateThread, Peek, Unedited

(* What the module thread keeps for itself has its types. *)
LEMMA ThreadTypesKept ==
  ASSUME TypeOK, AnswersCover, [Next]_vars
  PROVE  ThreadTypes'
<1> USE Constants DEF TypeOK, ThreadTypes
<1>1. CASE TakeExec
  BY <1>1 DEF TakeExec, ModuleTypes
<1>2. CASE Exec
  <2>1. output' \in {"null", "garbage", "result"}
    BY <1>2 DEF Exec
  <2>2. pc' = "lock_exec" /\ ran' \in 0..MaxIssue /\ program' \in 0..MaxIssue
    <3>1. program \in 0..MaxIssue
      BY Zenon
    <3> QED BY <1>2, <3>1 DEF Exec
  <2>3. UNCHANGED <<held, command, answer, cache, fault>>
    BY <1>2 DEF Exec
  <2> QED BY <2>1, <2>2, <2>3
<1>3. CASE LockResults
  BY <1>3 DEF LockResults
<1>4. CASE PublishExec
  BY <1>4 DEF PublishExec
<1>5. CASE TakeSearch
  BY <1>5 DEF TakeSearch, ModuleTypes
<1>6. CASE Search
  <2>1. UNCHANGED <<held, program, output, ran, fault>> /\ pc' = "lock_search"
    BY <1>6 DEF Search
  <2>2. answer' \in Answers /\ cache' \in Answers /\ command' \in Texts \cup {None}
    <3>1. CASE caching /\ Cachable(cache, command)
      <4>1. Cached(cache)
        BY DEF AnswersCover, Cached
      <4>2. Filtered(cache, command) \in Answers /\ Refined(cache, command) \in Answers
        BY <3>1, <4>1, FilteredLemma
      <4> QED BY <1>6, <3>1, <4>2 DEF Search
    <3>2. CASE ~(caching /\ Cachable(cache, command))
      BY <1>6, <3>2, SearchedLemma DEF Search
    <3> QED BY <3>1, <3>2
  <2> QED BY <2>1, <2>2
<1>7. CASE PublishSearch
  BY <1>7 DEF PublishSearch
<1>8. CASE Wait
  BY <1>8 DEF Wait
<1>9. CASE CreateThread
  BY <1>9, ConsoleAssumption DEF CreateThread
<1>10. CASE UNCHANGED thread
  BY <1>10 DEF thread
<1> QED
  BY <1>1, <1>2, <1>3, <1>4, <1>5, <1>6, <1>7, <1>8, <1>9, <1>10
  DEF Next, ThreadNext, ConsoleNext, UserNext, vars, SetFields, Post, Peek,
      PostQuit, Join, Draw, Unedited, StoreSearch, StoreExec, Release

(* So has what the console thread keeps. *)
LEMMA ConsoleTypesKept ==
  ASSUME TypeOK, [Next]_vars
  PROVE  ConsoleTypes'
<1> USE Constants DEF TypeOK, ConsoleTypes
<1>1. CASE CreateThread
  BY <1>1 DEF CreateThread
<1>2. CASE SetFields
  BY <1>2 DEF SetFields
<1>3. CASE Draw
  BY <1>3 DEF Draw, ModuleTypes
<1>4. CASE Unedited
  BY <1>4 DEF Unedited
<1>5. ASSUME NEW t \in Texts, StoreSearch(t) PROVE ConsoleTypes'
  <2>1. issued' \in 0..MaxIssue
    BY <1>5 DEF StoreSearch
  <2>2. selected' \in BOOLEAN
    BY <1>5 DEF StoreSearch
  <2>3. typed' = t /\ at' = "post" /\ UNCHANGED shown
    BY <1>5 DEF StoreSearch
  <2> QED BY <2>1, <2>2, <2>3
<1>6. CASE StoreExec
  <2>1. issued' \in 0..MaxIssue
    BY <1>6 DEF StoreExec
  <2>2. typed' = None /\ selected' = FALSE /\ at' = "post" /\ UNCHANGED shown
    BY <1>6 DEF StoreExec
  <2> QED BY <2>1, <2>2
<1>7. CASE Post
  BY <1>7 DEF Post
<1>8. CASE Release
  BY <1>8 DEF Release
<1>9. CASE Peek
  BY <1>9 DEF Peek
<1>10. CASE PostQuit
  BY <1>10 DEF PostQuit
<1>11. CASE Join
  BY <1>11 DEF Join
<1>12. CASE UNCHANGED console
  BY <1>12 DEF console
<1> QED
  BY <1>1, <1>2, <1>3, <1>4, <1>5, <1>6, <1>7, <1>8, <1>9, <1>10, <1>11,
     <1>12
  DEF Next, ThreadNext, ConsoleNext, UserNext, vars, TakeExec, Exec,
      LockResults, PublishExec, TakeSearch, Search, PublishSearch, Wait

LEMMA Numbers ==
  ASSUME TypeOK
  PROVE  /\ semaphore \in Nat /\ issued \in Nat
         /\ exec_command \in Nat /\ program \in Nat /\ ran \in Nat
<1>1. MaxIssue \in Nat
  BY Constants
<1>2. semaphore \in Nat /\ exec_command \in Nat
  BY <1>1 DEF TypeOK, ModuleTypes
<1>3. program \in Nat /\ ran \in Nat
  <2>1. program \in 0..MaxIssue /\ ran \in 0..MaxIssue
    BY Zenon DEF TypeOK, ThreadTypes
  <2> QED BY <1>1, <2>1
<1>4. issued \in Nat
  BY <1>1 DEF TypeOK, ConsoleTypes
<1> QED BY <1>2, <1>3, <1>4

(* A post is counted by the command it announces, or by the release. *)
LEMMA BoundKept ==
  ASSUME TypeOK, SemaphoreBound, [Next]_vars
  PROVE  SemaphoreBound'
<1> USE Numbers DEF SemaphoreBound, Awake
<1>1. CASE Wait
  BY <1>1 DEF Wait, module, thread, console
<1>2. CASE CreateThread
  BY <1>2 DEF CreateThread, module, thread, console
<1>3. CASE SetFields
  BY <1>3 DEF SetFields, module, thread, console
<1>4. CASE Draw
  BY <1>4 DEF Draw, module, thread, console
<1>5. CASE Unedited
  BY <1>5 DEF Unedited, module, thread, console
<1>6. ASSUME NEW t \in Texts, StoreSearch(t) PROVE SemaphoreBound'
  BY <1>6 DEF StoreSearch, module, thread, console
<1>7. CASE StoreExec
  BY <1>7 DEF StoreExec, module, thread, console
<1>8. CASE Post
  BY <1>8 DEF Post, module, thread, console
<1>9. CASE Release
  BY <1>9 DEF Release, module, thread, console
<1>10. CASE Peek
  BY <1>10 DEF Peek, module, thread, console
<1>11. CASE PostQuit
  BY <1>11 DEF PostQuit, module, thread, console
<1>12. CASE Join
  BY <1>12 DEF Join, module, thread, console
<1>13. CASE UNCHANGED <<semaphore, at, issued>>
  BY <1>13
<1> QED
  BY <1>1, <1>2, <1>3, <1>4, <1>5, <1>6, <1>7, <1>8, <1>9, <1>10, <1>11,
     <1>12, <1>13
  DEF Next, ThreadNext, ConsoleNext, UserNext, vars, module, thread,
      console, TakeExec, Exec, LockResults, PublishExec, TakeSearch, Search,
      PublishSearch

(* The thread is born once, and quit stays. *)
LEMMA PhasesKept ==
  ASSUME Phases, [Next]_vars
  PROVE  Phases'
<1> USE  DEF Phases, Releasing
<1>1. CASE TakeExec
  BY <1>1 DEF TakeExec, module, thread, console
<1>2. CASE Exec
  BY <1>2 DEF Exec, module, thread, console
<1>3. CASE LockResults
  BY <1>3 DEF LockResults, module, thread, console
<1>4. CASE PublishExec
  BY <1>4 DEF PublishExec, module, thread, console
<1>5. CASE TakeSearch
  BY <1>5 DEF TakeSearch, module, thread, console
<1>6. CASE Search
  BY <1>6 DEF Search, module, thread, console
<1>7. CASE PublishSearch
  BY <1>7 DEF PublishSearch, module, thread, console
<1>8. CASE Wait
  BY <1>8 DEF Wait, module, thread, console
<1>9. CASE CreateThread
  BY <1>9 DEF CreateThread, module, thread, console
<1>10. CASE SetFields
  BY <1>10 DEF SetFields, module, thread, console
<1>11. CASE Draw
  BY <1>11 DEF Draw, module, thread, console
<1>12. CASE Unedited
  BY <1>12 DEF Unedited, module, thread, console
<1>13. ASSUME NEW t \in Texts, StoreSearch(t) PROVE Phases'
  BY <1>13 DEF StoreSearch, module, thread, console
<1>14. CASE StoreExec
  BY <1>14 DEF StoreExec, module, thread, console
<1>15. CASE Post
  BY <1>15 DEF Post, module, thread, console
<1>16. CASE Release
  BY <1>16 DEF Release, module, thread, console
<1>17. CASE Peek
  BY <1>17 DEF Peek, module, thread, console
<1>18. CASE PostQuit
  BY <1>18 DEF PostQuit, module, thread, console
<1>19. CASE Join
  BY <1>19 DEF Join, module, thread, console
<1>20. CASE UNCHANGED <<pc, at, quit>>
  BY <1>20
<1> QED
  BY <1>1, <1>2, <1>3, <1>4, <1>5, <1>6, <1>7, <1>8, <1>9, <1>10, <1>11,
     <1>12, <1>13, <1>14, <1>15, <1>16, <1>17, <1>18, <1>19, <1>20
  DEF Next, ThreadNext, ConsoleNext, UserNext, vars, module, thread, console

(* Numbers come from the counter of issued commands only. *)
LEMMA KnownKept ==
  ASSUME TypeOK, KnownIssued, [Next]_vars
  PROVE  KnownIssued'
<1> USE Numbers DEF KnownIssued
<1>1. CASE TakeExec
  BY <1>1 DEF TakeExec, module, thread, console
<1>2. CASE Exec
  BY <1>2 DEF Exec, module, thread, console
<1>3. CASE SetFields
  BY <1>3 DEF SetFields, module, thread, console
<1>4. ASSUME NEW t \in Texts, StoreSearch(t) PROVE KnownIssued'
  BY <1>4 DEF StoreSearch, module, thread, console
<1>5. CASE StoreExec
  BY <1>5 DEF StoreExec, module, thread, console
<1>6. CASE Join
  BY <1>6 DEF Join, module, thread, console
<1>7. CASE UNCHANGED <<exec_command, program, ran, issued>>
  BY <1>7
<1> QED
  BY <1>1, <1>2, <1>3, <1>4, <1>5, <1>6, <1>7
  DEF Next, ThreadNext, ConsoleNext, UserNext, vars, module, thread,
      console, LockResults, PublishExec, TakeSearch, Search, PublishSearch,
      Wait, CreateThread, Post, Peek, PostQuit, Draw, Unedited, Release

(* The thread gives a count away only on its way to the place where it looks. *)
LEMMA WakeUpKept ==
  ASSUME TypeOK, Phases, NoLostWakeUp, [Next]_vars
  PROVE  NoLostWakeUp'
<1> USE Numbers DEF Phases, Releasing, NoLostWakeUp
<1>1. CASE TakeExec
  BY <1>1 DEF TakeExec, module, thread, console
<1>2. CASE Exec
  BY <1>2 DEF Exec, module, thread, console
<1>3. CASE LockResults
  BY <1>3 DEF LockResults, module, thread, console
<1>4. CASE PublishExec
  BY <1>4 DEF PublishExec, module, thread, console
<1>5. CASE TakeSearch
  BY <1>5 DEF TakeSearch, module, thread, console
<1>6. CASE Search
  BY <1>6 DEF Search, module, thread, console
<1>7. CASE PublishSearch
  BY <1>7 DEF PublishSearch, module, thread, console
<1>8. CASE Wait
  BY <1>8 DEF Wait, module, thread, console
<1>9. CASE CreateThread
  BY <1>9 DEF CreateThread, module, thread, console
<1>10. CASE SetFields
  BY <1>10 DEF SetFields, module, thread, console
<1>11. CASE Draw
  BY <1>11 DEF Draw, module, thread, console
<1>12. CASE Unedited
  BY <1>12 DEF Unedited, module, thread, console
<1>13. ASSUME NEW t \in Texts, StoreSearch(t) PROVE NoLostWakeUp'
  BY <1>13 DEF StoreSearch, module, thread, console
<1>14. CASE StoreExec
  BY <1>14 DEF StoreExec, module, thread, console
<1>15. CASE Post
  BY <1>15 DEF Post, module, thread, console
<1>16. CASE Release
  BY <1>16 DEF Release, module, thread, console
<1>17. CASE Peek
  BY <1>17 DEF Peek, module, thread, console
<1>18. CASE PostQuit
  BY <1>18 DEF PostQuit, module, thread, console
<1>19. CASE Join
  BY <1>19 DEF Join, module, thread, console
<1>20. CASE UNCHANGED <<search_command, exec_command, pc, semaphore, at>>
  BY <1>20
<1> QED
  BY <1>1, <1>2, <1>3, <1>4, <1>5, <1>6, <1>7, <1>8, <1>9, <1>10, <1>11,
     <1>12, <1>13, <1>14, <1>15, <1>16, <1>17, <1>18, <1>19, <1>20
  DEF Next, ThreadNext, ConsoleNext, UserNext, vars, module, thread, console

(* A command enters with a number above all others and leaves when it is run. *)
LEMMA OnceKept ==
  ASSUME TypeOK, KnownIssued, ExecOnce, [Next]_vars
  PROVE  ExecOnce'
<1> USE Numbers DEF KnownIssued, ExecOnce
<1>1. CASE TakeExec
  BY <1>1 DEF TakeExec, module, thread, console
<1>2. CASE Exec
  BY <1>2 DEF Exec, module, thread, console
<1>3. CASE SetFields
  BY <1>3 DEF SetFields, module, thread, console
<1>4. CASE StoreExec
  BY <1>4 DEF StoreExec, module, thread, console
<1>5. CASE Join
  BY <1>5 DEF Join, module, thread, console
<1>6. CASE UNCHANGED <<exec_command, program, ran>>
  BY <1>6
<1> QED
  BY <1>1, <1>2, <1>3, <1>4, <1>5, <1>6
  DEF Next, ThreadNext, ConsoleNext, UserNext, vars, module, thread,
      console, LockResults, PublishExec, TakeSearch, Search, PublishSearch,
      Wait, CreateThread, Post, Peek, PostQuit, Draw, Unedited, StoreSearch,
      Release

(* Answers are made by searching or filtering, and otherwise handed on. *)
LEMMA AnswersKept ==
  ASSUME TypeOK, AnswersCover, [Next]_vars
  PROVE  AnswersCover'
<1> USE Constants DEF AnswersCover, Covers
<1>1. CASE TakeExec
  BY <1>1 DEF TakeExec, module, thread, console
<1>2. CASE Search
  <2> USE DEF TypeOK, ThreadTypes
  <2>1. UNCHANGED <<search_results, shown>>
    BY <1>2 DEF Search, module, console
  <2>2. CASE caching /\ Cachable(cache, command)
    <3>1. Cached(cache)
      BY DEF Cached
    <3>2. answer' = Filtered(cache, command) /\ cache' = Refined(cache, command)
      BY <1>2, <2>2 DEF Search, Cachable
    <3>3. Covers(answer') /\ Cached(cache')
      BY <2>2, <3>1, <3>2, FilteredLemma
    <3> QED BY <2>1, <3>3 DEF Cached
  <2>3. CASE ~(caching /\ Cachable(cache, command)) /\ command # None
    <3>1. answer' = Searched(cache, command) /\ cache' = Searched(cache, command)
      BY <1>2, <2>3 DEF Search
    <3>2. Covers(answer') /\ Cached(cache')
      BY <2>3, <3>1, SearchedLemma
    <3> QED BY <2>1, <3>2 DEF Cached
  <2>4. CASE ~(caching /\ Cachable(cache, command)) /\ command = None
    BY <1>2, <2>1, <2>4 DEF Search
  <2> QED BY <2>2, <2>3, <2>4
<1>3. CASE PublishSearch
  BY <1>3 DEF PublishSearch, module, thread, console
<1>4. CASE SetFields
  BY <1>4 DEF SetFields, module, thread, console
<1>5. CASE Draw
  BY <1>5 DEF Draw, module, thread, console
<1>6. CASE Join
  BY <1>6 DEF Join, module, thread, console
<1>7. CASE UNCHANGED <<answer, search_results, shown, cache>>
  BY <1>7
<1> QED
  BY <1>1, <1>2, <1>3, <1>4, <1>5, <1>6, <1>7
  DEF Next, ThreadNext, ConsoleNext, UserNext, vars, module, thread,
      console, Exec, LockResults, PublishExec, TakeSearch, Wait,
      CreateThread, Post, Peek, PostQuit, Unedited, StoreSearch, StoreExec,
      Release

(***************************************************************************)
(* The theorems                                                            *)
(***************************************************************************)

LEMMA Inductive == Spec => []IInv
<1>1. Init => IInv
  <2> SUFFICES ASSUME Init PROVE IInv
    OBVIOUS
  <2>1. ModuleTypes
    <3>1. search_results \in [taken : BOOLEAN, answer : Answers]
      BY Constants, ResultsType DEF Init
    <3>2. caching \in BOOLEAN
      BY ConsoleAssumption DEF Init
    <3> QED BY <3>1, <3>2, Constants DEF Init, ModuleTypes
  <2>2. ThreadTypes
    BY Constants DEF Init, ThreadTypes
  <2>3. ConsoleTypes
    BY Constants DEF Init, ConsoleTypes
  <2>4. SemaphoreBound /\ Phases /\ KnownIssued
    BY DEF Init, SemaphoreBound, Phases, Releasing, KnownIssued
  <2>5. NoLostWakeUp /\ AnswersCover /\ ExecOnce
    BY Constants DEF Init, NoLostWakeUp, AnswersCover, Covers, ExecOnce
  <2> QED BY <2>1, <2>2, <2>3, <2>4, <2>5 DEF IInv, TypeOK
<1>2. IInv /\ [Next]_vars => IInv'
  BY ModuleTypesKept, ThreadTypesKept, ConsoleTypesKept, BoundKept, PhasesKept, KnownKept, WakeUpKept, AnswersKept, OnceKept DEF IInv, TypeOK
<1> QED BY <1>1, <1>2, PTL DEF Spec

(* The state of a module and its thread keeps its types; the semaphore      *)
(* counts no further than the commands issued and the posts of a release    *)
(* (console_module_release posts until it sees a count).                    *)
THEOREM ConsoleModuleTypes == Spec => []TypeOK
<1>1. IInv => TypeOK
  BY DEF IInv
<1> QED BY <1>1, Inductive, PTL

(* A command stored after the thread looked for one, and a release, find    *)
(* the semaphore above zero or about to be posted, so that the thread does  *)
(* not sleep on them (thread_run_module, console_module_command).           *)
THEOREM WakeUpsKept == Spec => []NoLostWakeUp
<1>1. IInv => NoLostWakeUp
  BY DEF IInv
<1> QED BY <1>1, Inductive, PTL

(* Answers shown, waiting or cached leave out nothing a search for their    *)
(* text finds but when the text is the one answered just before, and hold   *)
(* nothing their filter rejects, for any filter that is no finer than the   *)
(* search (cachable, cache_filter, cache_takes).                            *)
THEOREM AnswersLeaveOutNothing == Spec => []AnswersCover
<1>1. IInv => AnswersCover
  BY DEF IInv
<1> QED BY <1>1, Inductive, PTL

(* A command is executed at most once, and none after one issued later      *)
(* (thread_run_module takes it out of the module before running it).        *)
THEOREM CommandsRunOnce == Spec => []ExecOnce
<1>1. IInv => ExecOnce
  BY DEF IInv
<1> QED BY <1>1, Inductive, PTL
================================================================================
