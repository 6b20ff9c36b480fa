--------------------------- MODULE LibraryProofs ---------------------------
(***************************************************************************)
(* The smaller components, each for any values of its constants:           *)
(* the state of a task says what it does; the counter of an unbounded      *)
(* queue is true, the queue is first in first out, and nobody is left      *)
(* asleep beside an item; the level of a logger is the one of the system   *)
(* behind its callbacks, and what a module saved comes back; a scan for    *)
(* ports lists those that stayed; the pointers of the intrusive lists are  *)
(* the lists that the calls made; what a call of the functions on values   *)
(* wrote is read back and what it asked for is found.                      *)
(***************************************************************************)
EXTENDS Task, UnboundedQueue, Logger, Discovery, SList, Values, FiniteSetTheorems, ListLemmas

(* Task: any number of users and of runs. *)

TaskPlaces == {"idle", "create", "handler", "join", "set_joined"}
TaskBusy == TaskPlaces \ {"idle"}

TaskTypes ==
    /\ state \in {"READY", "RUNNING", "JOINED"}
    /\ thread \in {"none", "running", "ended"}
    /\ pc \in [Users -> TaskPlaces]
    /\ lost \in BOOLEAN
    /\ runs \in Nat

\* A run is in the hands of one user, or of a thread, which one user may join.
OneHand ==
    /\ \A u, v \in Users : pc[u] \in TaskBusy /\ pc[v] \in TaskBusy => u = v
    /\ \A u \in Users : pc[u] \in {"create", "handler", "set_joined"} => thread = "none" /\ ~lost
    /\ \A u \in Users : pc[u] = "join" => thread # "none"
    /\ thread # "none" => ~lost

\* The future is that of the last run, and ready from the end of its handler on.
FutureIsRight ==
    /\ state = "RUNNING" /\ ~lost => future \in [is : {"pending", "ready"}, of : {runs}]
    /\ state = "JOINED" => future = [is |-> "ready", of |-> runs]
    /\ thread = "ended" => future.is = "ready"
    /\ \A u \in Users : pc[u] = "set_joined" => future.is = "ready"

TaskInv ==
    ~aborted => TaskTypes /\ OneHand /\ FutureIsRight /\ (state = "RUNNING" <=> Working \/ lost)

LEMMA TaskInitInv == TaskInit => TaskInv
<1> SUFFICES ASSUME TaskInit PROVE TaskInv
    OBVIOUS
<1>1. \A u \in Users : pc[u] = "idle"
    BY DEF TaskInit
<1>2. TaskTypes
    BY DEF TaskInit, TaskTypes, TaskPlaces
<1>3. OneHand
    BY <1>1 DEF TaskInit, OneHand, TaskBusy
<1>4. FutureIsRight
    BY <1>1 DEF TaskInit, FutureIsRight
<1>5. state = "RUNNING" <=> Working \/ lost
    BY <1>1 DEF TaskInit, Working
<1> QED
    BY <1>2, <1>3, <1>4, <1>5 DEF TaskInv

LEMMA TaskNextInv == TaskInv /\ [TaskNext]_taskVars => TaskInv'
<1> SUFFICES ASSUME TaskInv, [TaskNext]_taskVars PROVE TaskInv'
    OBVIOUS
<1> USE DEF TaskInv, TaskTypes, OneHand, FutureIsRight, Working, TaskPlaces, TaskBusy, At, Goto
<1>1. CASE UNCHANGED taskVars
    BY <1>1 DEF taskVars
<1>2. CASE ThreadEnd
    BY <1>2 DEF ThreadEnd, HandlerEnd
<1>3. ASSUME NEW u \in Users, Start(u) PROVE TaskInv'
    BY <1>3 DEF Start, InitTask, MayInit
<1>4. ASSUME NEW u \in Users, Create(u) PROVE TaskInv'
    BY <1>4 DEF Create
<1>5. ASSUME NEW u \in Users, Run(u) PROVE TaskInv'
    BY <1>5 DEF Run, InitTask, MayInit
<1>6. ASSUME NEW u \in Users, RunHandlerEnd(u) PROVE TaskInv'
    BY <1>6 DEF RunHandlerEnd, HandlerEnd
<1>7. ASSUME NEW u \in Users, NEW limited \in BOOLEAN, Join(u, limited) PROVE TaskInv'
    BY <1>7 DEF Join, NobodyJoins
<1>8. ASSUME NEW u \in Users, Joined(u) PROVE TaskInv'
    BY <1>8 DEF Joined, Joinable
<1>9. ASSUME NEW u \in Users, SetJoined(u) PROVE TaskInv'
    BY <1>9 DEF SetJoined
<1>10. ASSUME NEW u \in Users, Get(u) PROVE TaskInv'
    BY <1>10 DEF Get
<1>11. ASSUME NEW u \in Users, NEW value \in BOOLEAN, SetEssential(u, value) PROVE TaskInv'
    BY <1>11 DEF SetEssential
<1> QED
    BY <1>1, <1>2, <1>3, <1>4, <1>5, <1>6, <1>7, <1>8, <1>9, <1>10, <1>11 DEF TaskNext

\* However starts, runs, joins and gets of several threads interleave, the state
\* of the task is RUNNING exactly while a run is under way, or after there was
\* no thread for one, and JOINED only with the result of the last run.
THEOREM StateIsTrueCorrect == TaskSpec => []StateIsTrue
<1>1. TaskInv => StateIsTrue
    BY DEF TaskInv, StateIsTrue, FutureIsRight
<1> QED
    BY <1>1, TaskInitInv, TaskNextInv, PTL DEF TaskSpec

-----------------------------------------------------------------------------
(* UnboundedQueue: any finite set of threads and any number of items. *)

QueueTypes ==
    /\ buffer \in Seq(Nat) /\ puts \in Nat /\ got \in Nat
    /\ getting \subseteq Threads /\ asleep \subseteq getting

\* Items are put in the order of their numbers, and leave in it.
InOrder ==
    /\ got <= puts
    /\ \A i \in 1 .. Len(buffer) : buffer[i] > got /\ buffer[i] <= puts
    /\ \A i, j \in 1 .. Len(buffer) : i < j => buffer[i] < buffer[j]

Awake == getting \ asleep

\* Each item has a thread that is awake, unless nobody sleeps.
Offered == asleep # {} => Len(buffer) <= Cardinality(Awake)

QueueInv == QueueTypes /\ size = Len(buffer) /\ InOrder /\ Offered

LEMMA QueueInitInv == QueueInit => QueueInv
BY DEF QueueInit, QueueInv, QueueTypes, InOrder, Offered

\* What the end of a put does to the sleepers.
LEMMA AnnounceWakes ==
    ASSUME QueueTypes, IsFiniteSet(Threads), Announce, UNCHANGED getting
    PROVE  /\ asleep' \subseteq asleep
           /\ asleep' # {} => Cardinality(Awake') >= Cardinality(Awake) + 1
<1>1. IsFiniteSet(Awake)
    BY FS_Subset DEF QueueTypes, Awake
<1>2. CASE asleep = {}
    BY <1>2 DEF Announce
<1>3. CASE asleep # {}
    <2>1. PICK t \in asleep : asleep' = asleep \ {t}
        BY <1>3 DEF Announce
    <2>2. Awake' = Awake \cup {t} /\ t \notin Awake
        BY <2>1 DEF Awake, QueueTypes
    <2>3. Cardinality(Awake \cup {t}) = Cardinality(Awake) + 1
        BY <1>1, <2>2, FS_AddElement
    <2>4. Cardinality(Awake) \in Nat
        BY <1>1, FS_CardinalityType
    <2> QED
        BY <2>1, <2>2, <2>3, <2>4
<1> QED
    BY <1>2, <1>3

\* What taking an item does to the queue.
LEMMA TakeKeeps ==
    ASSUME QueueTypes, size = Len(buffer), InOrder, TakeFront, UNCHANGED puts
    PROVE  /\ buffer' \in Seq(Nat) /\ got' \in Nat
           /\ size' = Len(buffer') /\ Len(buffer) = Len(buffer') + 1
           /\ InOrder'
<1>1. buffer # <<>> /\ Len(buffer) \in Nat \ {0}
    BY DEF TakeFront, QueueTypes
<1>2. /\ buffer' \in Seq(Nat) /\ Len(buffer') = Len(buffer) - 1 /\ got' = buffer[1]
      /\ \A i \in 1 .. Len(buffer) - 1 : buffer'[i] = buffer[i + 1]
    BY <1>1 DEF TakeFront, QueueTypes
<1>3. InOrder'
    BY <1>1, <1>2 DEF InOrder, QueueTypes
<1> QED
    BY <1>1, <1>2, <1>3 DEF TakeFront, QueueTypes

LEMMA QueueNextInv == ASSUME IsFiniteSet(Threads) PROVE QueueInv /\ [QueueNext]_queueVars => QueueInv'
<1> SUFFICES ASSUME QueueInv, [QueueNext]_queueVars PROVE QueueInv'
    OBVIOUS
<1>1. IsFiniteSet(Awake) /\ Cardinality(Awake) \in Nat /\ IsFiniteSet(getting)
    BY FS_Subset, FS_CardinalityType DEF QueueInv, QueueTypes, Awake
<1>2. CASE UNCHANGED queueVars
    BY <1>2 DEF queueVars, QueueInv, QueueTypes, InOrder, Offered, Awake
<1>3. CASE Put
    <2>1. buffer' \in Seq(Nat) /\ Len(buffer') = Len(buffer) + 1 /\ size' = Len(buffer')
        BY <1>3 DEF Put, QueueInv, QueueTypes
    <2>2. /\ \A i \in 1 .. Len(buffer) : buffer'[i] = buffer[i]
          /\ buffer'[Len(buffer) + 1] = puts + 1 /\ puts' = puts + 1
        BY <1>3 DEF Put, QueueInv, QueueTypes
    <2>3. InOrder'
        <3>1. got' = got /\ got \in Nat /\ puts \in Nat /\ Len(buffer) \in Nat
            BY <1>3 DEF Put, QueueInv, QueueTypes
        <3>2. \A i \in 1 .. Len(buffer') : buffer'[i] > got' /\ buffer'[i] <= puts'
            <4> SUFFICES ASSUME NEW i \in 1 .. Len(buffer')
                         PROVE  buffer'[i] > got' /\ buffer'[i] <= puts'
                OBVIOUS
            <4>1. CASE i = Len(buffer) + 1
                BY <2>2, <3>1, <4>1 DEF QueueInv, InOrder
            <4>2. CASE i \in 1 .. Len(buffer)
                <5>1. buffer[i] > got /\ buffer[i] <= puts /\ buffer[i] \in Nat
                    BY <4>2 DEF QueueInv, InOrder, QueueTypes
                <5> QED
                    BY <2>2, <3>1, <4>2, <5>1
            <4> QED
                BY <2>1, <3>1, <4>1, <4>2
        <3>3. ASSUME NEW i \in 1 .. Len(buffer'), NEW j \in 1 .. Len(buffer'), i < j
              PROVE  buffer'[i] < buffer'[j]
            <4>1. i \in 1 .. Len(buffer) /\ buffer'[i] = buffer[i]
                  /\ buffer[i] <= puts /\ buffer[i] \in Nat
                BY <2>1, <2>2, <3>1, <3>3 DEF QueueInv, InOrder, QueueTypes
            <4>2. CASE j = Len(buffer) + 1
                BY <2>2, <3>1, <4>1, <4>2
            <4>3. CASE j \in 1 .. Len(buffer)
                BY <2>2, <3>3, <4>1, <4>3 DEF QueueInv, InOrder
            <4> QED
                BY <2>1, <3>1, <4>2, <4>3
        <3>4. got' <= puts'
            BY <2>2, <3>1 DEF QueueInv, InOrder
        <3> QED
            BY <3>2, <3>3, <3>4 DEF InOrder
    <2>4. /\ asleep' \subseteq asleep
          /\ asleep' # {} => Cardinality(Awake') >= Cardinality(Awake) + 1
        BY <1>3, AnnounceWakes DEF Put, QueueInv
    <2>5. QueueTypes'
        BY <1>3, <2>1, <2>4 DEF Put, QueueInv, QueueTypes
    <2>6. Offered'
        <3> SUFFICES ASSUME asleep' # {} PROVE Len(buffer') <= Cardinality(Awake')
            BY DEF Offered
        <3>1. Len(buffer) <= Cardinality(Awake)
            BY <2>4 DEF QueueInv, Offered
        <3>2. IsFiniteSet(Awake')
            BY <1>1, <1>3, FS_Subset DEF Put, Awake
        <3>3. Cardinality(Awake') \in Nat /\ Len(buffer) \in Nat
            BY <3>2, FS_CardinalityType DEF QueueInv, QueueTypes
        <3> QED
            BY <1>1, <2>1, <2>4, <3>1, <3>3
    <2> QED
        BY <2>1, <2>3, <2>5, <2>6 DEF QueueInv
<1>4. CASE Clear
    <2>1. buffer' = <<>> /\ size' = 0 /\ UNCHANGED <<getting, asleep, puts, got>>
        BY <1>4 DEF Clear
    <2>2. Awake' = Awake
        BY <2>1 DEF Awake
    <2> QED
        BY <1>1, <2>1, <2>2 DEF QueueInv, QueueTypes, InOrder, Offered
<1>5. ASSUME NEW t \in Threads, NEW limited \in BOOLEAN, GetBegin(t, limited) PROVE QueueInv'
    <2>1. CASE TakeFront /\ UNCHANGED <<getting, asleep, puts>>
        <3>1. /\ buffer' \in Seq(Nat) /\ got' \in Nat
              /\ size' = Len(buffer') /\ Len(buffer) = Len(buffer') + 1
              /\ InOrder'
            BY <2>1, TakeKeeps DEF QueueInv
        <3>2. Awake' = Awake /\ Len(buffer') \in Nat
            BY <2>1, <3>1 DEF Awake
        <3> QED
            BY <1>1, <2>1, <3>1, <3>2 DEF QueueInv, QueueTypes, Offered
    <2>2. CASE /\ size = 0 /\ getting' = getting \cup {t} /\ asleep' = asleep \cup {t}
               /\ UNCHANGED <<buffer, size, got, puts>>
        <3>1. IsFiniteSet(Awake')
            BY <1>1, <2>2, FS_Subset DEF Awake
        <3>2. Cardinality(Awake') >= 0
            BY <3>1, FS_CardinalityType
        <3> QED
            BY <2>2, <3>2 DEF QueueInv, QueueTypes, InOrder, Offered
    <2> QED
        BY <1>5, <2>1, <2>2 DEF GetBegin
<1>6. ASSUME NEW t \in Threads, GetResume(t) PROVE QueueInv'
    <2>1. t \in Awake
        BY <1>6 DEF GetResume, Awake
    <2>2. CASE TakeFront /\ getting' = getting \ {t} /\ UNCHANGED <<asleep, puts>>
        <3>1. /\ buffer' \in Seq(Nat) /\ got' \in Nat
              /\ size' = Len(buffer') /\ Len(buffer) = Len(buffer') + 1
              /\ InOrder'
            BY <2>2, TakeKeeps DEF QueueInv
        <3>2. Awake' = Awake \ {t} /\ Len(buffer') \in Nat
            BY <2>2, <3>1 DEF Awake
        <3>3. Cardinality(Awake \ {t}) = Cardinality(Awake) - 1
            BY <1>1, <2>1, FS_RemoveElement
        <3>4. QueueTypes'
            BY <2>1, <2>2, <3>1 DEF QueueInv, QueueTypes, Awake
        <3>5. Offered'
            BY <1>1, <2>2, <3>1, <3>2, <3>3 DEF QueueInv, Offered
        <3> QED
            BY <3>1, <3>4, <3>5 DEF QueueInv
    <2>3. CASE /\ size = 0 /\ UNCHANGED <<buffer, size, got, puts>>
               /\ \/ getting' = getting \ {t} /\ asleep' = asleep
                  \/ getting' = getting /\ asleep' = asleep \cup {t}
        <3>1. IsFiniteSet(Awake')
            BY <1>1, <2>3, FS_Subset DEF Awake
        <3>2. Cardinality(Awake') >= 0
            BY <3>1, FS_CardinalityType
        <3>3. QueueTypes'
            BY <2>1, <2>3 DEF QueueInv, QueueTypes, Awake
        <3> QED
            BY <2>3, <3>2, <3>3 DEF QueueInv, InOrder, Offered
    <2> QED
        BY <1>6, <2>2, <2>3 DEF GetResume
<1>7. ASSUME NEW t \in Threads, Expire(t) \/ Stir(t) PROVE QueueInv'
    <2>1. asleep' = asleep \ {t} /\ UNCHANGED <<buffer, size, getting, puts, got>>
        BY <1>7 DEF Expire, Stir
    <2>2. Awake \subseteq Awake' /\ IsFiniteSet(Awake')
        BY <1>1, <2>1, FS_Subset DEF Awake
    <2>3. Cardinality(Awake) <= Cardinality(Awake')
        BY <2>2, FS_Subset
    <2>4. Cardinality(Awake') \in Nat /\ Len(buffer) \in Nat
        BY <2>2, FS_CardinalityType DEF QueueInv, QueueTypes
    <2> QED
        BY <1>1, <2>1, <2>3, <2>4 DEF QueueInv, QueueTypes, InOrder, Offered
<1> QED
    BY <1>2, <1>3, <1>4, <1>5, <1>6, <1>7 DEF QueueNext

\* However puts, gets, time limits, spurious wakeups and clears interleave, the
\* counter is true, items come out in order, and a thread that sleeps leaves no
\* item behind that nobody will take.
THEOREM GettersAreServedCorrect == ASSUME IsFiniteSet(Threads) PROVE QueueSpec => []GettersAreServed
<1>1. QueueInv => GettersAreServed
    <2> SUFFICES ASSUME QueueInv PROVE GettersAreServed
        OBVIOUS
    <2>1. \A i \in 1 .. size : buffer[i] > (IF i = 1 THEN got ELSE buffer[i - 1])
        BY DEF QueueInv, InOrder, QueueTypes
    <2> QED
        BY <2>1 DEF QueueInv, Offered, Awake, GettersAreServed
<1> QED
    BY <1>1, QueueInitInv, QueueNextInv, PTL DEF QueueSpec

-----------------------------------------------------------------------------
(* Logger: any modules, names and levels.  A level is not 0, which is what a  *)
(* logger has before it is made.                                               *)

Sane == NameOf \in [Modules -> Names] /\ 0 \notin Levels

LoggerTypes ==
    /\ level \in [Names -> Levels \cup {0}] /\ outside \in [Names -> Levels]
    /\ hooks \in [Names -> [set : BOOLEAN, get : BOOLEAN, sinks : {{}, Levels}]]
    /\ saved \in [Modules -> Levels \cup {0}] /\ before \in [Modules -> Levels \cup {0}]
    /\ step \in [Modules -> {"unregistered", "idle", "override", "force", "replaced", "restored"}]

\* Only a logger that was made has users and callbacks.
Made ==
    /\ \A m \in Modules : step[m] # "unregistered" => level[NameOf[m]] # 0
    /\ \A n \in Names : hooks[n].set \/ hooks[n].get => level[n] # 0

\* One module at a time is between a save and the end of its block.
OneSaver ==
    \A m, o \in Modules :
        NameOf[m] = NameOf[o] /\ ~(step[m] \in {"unregistered", "idle"})
            /\ ~(step[o] \in {"unregistered", "idle"}) => m = o

\* What was saved is kept until it is restored, and then is the level.
Kept ==
    \A m \in Modules :
        /\ step[m] \in {"override", "force", "replaced"} => saved[m] = before[m] /\ saved[m] # 0
        /\ step[m] = "restored" => level[NameOf[m]] = before[m]

LoggerInv == LoggerTypes /\ Made /\ OneSaver /\ Kept /\ LevelsAgree

LEMMA LoggerInitInv == ASSUME Sane PROVE LoggerInit => LoggerInv
BY DEF LoggerInit, Sane, LoggerInv, LoggerTypes, Made, OneSaver, Kept, LevelsAgree, NoHooks

LEMMA LoggerNextInv == ASSUME Sane PROVE LoggerInv /\ [LoggerNext]_loggerVars => LoggerInv'
<1> SUFFICES ASSUME LoggerInv, [LoggerNext]_loggerVars PROVE LoggerInv'
    OBVIOUS
<1> USE DEF Sane, LoggerInv, LoggerTypes, Made, OneSaver, Kept, LevelsAgree, Stands, Moves
<1>1. CASE UNCHANGED loggerVars
    BY <1>1 DEF loggerVars
<1>2. ASSUME NEW m \in Modules, NEW how \in {"override", "force"}, Save(m, how) PROVE LoggerInv'
    BY <1>2 DEF Save, Alone, LevelOf
<1>3. ASSUME NEW m \in Modules, NEW new \in Levels, Register(m, new) PROVE LoggerInv'
    BY <1>3 DEF Register
<1>4. ASSUME NEW m \in Modules, NEW new \in Levels, Replace(m, new) PROVE LoggerInv'
    <2>1. LoggerTypes'
        BY <1>4 DEF Replace, SetLogLevel
    <2>2. Made'
        BY <1>4 DEF Replace, SetLogLevel
    <2>3. OneSaver'
        BY <1>4 DEF Replace
    <2>4. Kept'
        BY <1>4 DEF Replace, SetLogLevel
    <2>5. LevelsAgree'
        BY <1>4 DEF Replace, SetLogLevel
    <2> QED
        BY <2>1, <2>2, <2>3, <2>4, <2>5
<1>5. ASSUME NEW m \in Modules, NEW new \in Levels, SetLevel(m, new) PROVE LoggerInv'
    BY <1>5 DEF SetLevel, SetLogLevel, Alone
<1>6. ASSUME NEW m \in Modules, NEW at \in Levels, Log(m, at) PROVE LoggerInv'
    BY <1>6 DEF Log
<1>7. ASSUME NEW m \in Modules, NEW new \in Hooks, RegisterCallbacks(m, new) PROVE LoggerInv'
    BY <1>7 DEF RegisterCallbacks, Told, Hooks
<1>8. ASSUME NEW m \in Modules, Restore(m) PROVE LoggerInv'
    <2>1. LoggerTypes'
        BY <1>8 DEF Restore, Restored, SetLogLevel
    <2>2. Made'
        BY <1>8 DEF Restore, Restored, SetLogLevel
    <2>3. OneSaver'
        BY <1>8 DEF Restore
    <2>4. Kept'
        BY <1>8 DEF Restore, Restored, SetLogLevel
    <2>5. LevelsAgree'
        BY <1>8 DEF Restore, Restored, SetLogLevel
    <2> QED
        BY <2>1, <2>2, <2>3, <2>4, <2>5
<1>9. ASSUME NEW m \in Modules, Return(m) PROVE LoggerInv'
    BY <1>9 DEF Return
<1> QED
    BY <1>1, <1>2, <1>3, <1>4, <1>5, <1>6, <1>7, <1>8, <1>9 DEF LoggerNext

\* Whenever the callbacks of a logger are registered and whoever sets its level,
\* the system behind them has that level.
THEOREM LevelsAgreeCorrect == ASSUME Sane PROVE LoggerSpec => []LevelsAgree
<1>1. LoggerInv => LevelsAgree
    BY DEF LoggerInv
<1> QED
    BY <1>1, LoggerInitInv, LoggerNextInv, PTL DEF LoggerSpec

\* A module that restores the level it saved has it back.
THEOREM RestoreGivesBackCorrect == ASSUME Sane PROVE LoggerSpec => []RestoreGivesBack
<1>1. LoggerInv => RestoreGivesBack
    BY DEF Sane, LoggerInv, LoggerTypes, Made, Kept, LevelsAgree, RestoreGivesBack, LevelOf, Stands
<1> QED
    BY <1>1, LoggerInitInv, LoggerNextInv, PTL DEF LoggerSpec

-----------------------------------------------------------------------------
(* Discovery: any number of names, families, devices and changes. *)

\* A finite set of numbers can be put in order.
LEMMA OrderExists ==
    ASSUME NEW U \in SUBSET Nat, IsFiniteSet(U)
    PROVE  \E s \in [1 .. Cardinality(U) -> U] :
              \A i, j \in 1 .. Cardinality(U) : i < j => s[i] < s[j]
<1> DEFINE Ordered(S) == \E s \in [1 .. Cardinality(S) -> S] :
                            \A i, j \in 1 .. Cardinality(S) : i < j => s[i] < s[j]
           I == {k \in Nat : \A S \in SUBSET U : Cardinality(S) = k => Ordered(S)}
<1>1. Cardinality(U) \in Nat /\ \A S \in SUBSET U : IsFiniteSet(S)
    BY FS_CardinalityType, FS_Subset
<1>2. 0 \in I
    <2> SUFFICES ASSUME NEW S \in SUBSET U, Cardinality(S) = 0
                 PROVE  Ordered(S)
        OBVIOUS
    <2>1. <<>> \in [1 .. 0 -> S] /\ \A i, j \in 1 .. 0 : FALSE
        OBVIOUS
    <2> QED
        BY <2>1
<1>3. ASSUME NEW k \in Nat, k \in I
      PROVE  k + 1 \in I
    <2> SUFFICES ASSUME NEW S \in SUBSET U, Cardinality(S) = k + 1
                 PROVE  Ordered(S)
        OBVIOUS
    <2>1. S # {} /\ S \in SUBSET Nat
        BY <1>1, FS_EmptySet
    <2>2. PICK m \in S : \A x \in S : m <= x
        BY <2>1, MinExists
    <2> DEFINE T == S \ {m}
    <2>3. Cardinality(T) = k /\ T \in SUBSET U /\ \A x \in T : m < x
        <3>1. \A x \in T : m < x
            BY <2>1, <2>2
        <3>2. IsFiniteSet(S) /\ Cardinality(S) = k + 1
            BY <1>1
        <3>3. Cardinality(T) = (k + 1) - 1
            BY <2>2, <3>2, FS_RemoveElement
        <3> QED
            BY <3>1, <3>3
    <2>4. Ordered(T)
        BY <1>3, <2>3
    <2> HIDE DEF T
    <2>5. PICK t \in [1 .. k -> T] : \A i, j \in 1 .. k : i < j => t[i] < t[j]
        BY <2>3, <2>4
    <2> DEFINE s == [i \in 1 .. k + 1 |-> IF i = 1 THEN m ELSE t[i - 1]]
    <2>6. s \in [1 .. k + 1 -> S]
        BY <2>5 DEF T
    <2>7. ASSUME NEW i \in 1 .. k + 1, NEW j \in 1 .. k + 1, i < j
          PROVE  s[i] < s[j]
        <3>1. j - 1 \in 1 .. k /\ s[j] = t[j - 1]
            BY <2>7
        <3>2. CASE i = 1
            BY <2>3, <2>5, <3>1, <3>2
        <3>3. CASE i # 1
            <4>1. i - 1 \in 1 .. k /\ s[i] = t[i - 1] /\ i - 1 < j - 1
                BY <2>7, <3>3
            <4> QED
                BY <2>5, <3>1, <4>1
        <3> QED
            BY <3>2, <3>3
    <2> HIDE DEF s
    <2> QED
        BY <2>6, <2>7
<1> HIDE DEF I
<1>4. 0 .. Cardinality(U) \subseteq I
    BY <1>1, <1>2, <1>3, SetInduction
<1>5. Cardinality(U) \in I
    BY <1>1, <1>4
<1> QED
    BY <1>5 DEF I

\* What glob returns: every name of the set, in order, and nothing else.
LEMMA SortedProperties ==
    ASSUME NEW U \in SUBSET Nat, IsFiniteSet(U)
    PROVE  /\ Sorted(U) \in Seq(U)
           /\ \A i, j \in 1 .. Len(Sorted(U)) : i < j => Sorted(U)[i] < Sorted(U)[j]
           /\ \A x \in U : \E i \in 1 .. Len(Sorted(U)) : Sorted(U)[i] = x
<1>1. PICK n \in Nat : n = Cardinality(U)
    BY FS_CardinalityType
<1>2. PICK s : s = Sorted(U)
    OBVIOUS
<1>3. s \in [1 .. n -> U] /\ \A i, j \in 1 .. n : i < j => s[i] < s[j]
    BY <1>1, <1>2, OrderExists DEF Sorted
<1>4. s \in Seq(U) /\ Len(s) = n
    BY <1>3
<1>5. ASSUME NEW x \in U, \A i \in 1 .. n : s[i] # x
      PROVE  FALSE
    <2>1. s \in [1 .. n -> U \ {x}]
        BY <1>3, <1>5
    <2>2. IsFiniteSet(U \ {x}) /\ Cardinality(U \ {x}) = n - 1
        BY <1>1, FS_RemoveElement
    <2>3. IsFiniteSet(1 .. n) /\ Cardinality(1 .. n) = n
        BY FS_Interval
    <2>4. PICK a \in 1 .. n, b \in 1 .. n : a # b /\ s[a] = s[b]
        BY <2>1, <2>2, <2>3, FS_PigeonHole
    <2>5. a < b \/ b < a
        BY <2>4
    <2>6. s[a] \in Nat /\ s[b] \in Nat
        BY <1>3
    <2> QED
        BY <1>3, <2>4, <2>5, <2>6
<1> QED
    BY <1>2, <1>3, <1>4, <1>5

ScanPhases == {"idle", "glob", "find", "subsystem", "numbers", "details", "threw"}
Entry == [name : Entries, device : Devices \cup {Nothing}, whole : BOOLEAN]

ScanTypes ==
    /\ plugged \in [Entries -> Devices \cup {Nothing}]
    /\ phase \in ScanPhases
    /\ devices \in Seq(Entries)
    /\ dev \in Devices \cup {Nothing}
    /\ ret \in Seq(Entry)
    /\ changed \subseteq Entries

\* What is left of the families, and the place of the next of them.
Turn == Len(Families) - Len(left) + 1
LeftOK ==
    /\ left \in Seq(Range(Families)) /\ Len(left) <= Len(Families)
    /\ \A i \in 1 .. Len(left) : left[i] = Families[Turn - 1 + i]

\* The results and then the names not yet looked at are in order, and of families
\* that the scan came to.
OrderOK ==
    /\ \A i, j \in 1 .. Len(ret) : i < j => Precedes(ret[i].name, ret[j].name)
    /\ \A i, j \in 1 .. Len(devices) : i < j => Precedes(devices[i], devices[j])
    /\ \A i \in 1 .. Len(ret), j \in 1 .. Len(devices) : Precedes(ret[i].name, devices[j])
    /\ phase = "glob" => /\ ret = <<>>
                         /\ \A i \in 1 .. Len(devices) : Place(devices[i]) < Turn

\* What the scan knows of a port that stayed.
Listable(n) == plugged[n] # Nothing /\ SubsystemOf[plugged[n]] # "platform"
Pending(n) == \E i \in 1 .. Len(devices) : devices[i] = n
Reported(n) == \E i \in 1 .. Len(ret) : ret[i].name = n

PortOK(n) ==
    /\ phase = "glob" /\ IsSought(n) /\ plugged[n] # Nothing /\ Place(n) < Turn => Pending(n)
    /\ phase # "glob" /\ IsSought(n) /\ Listable(n) => Pending(n) \/ Reported(n)
    /\ Pending(n) => IsSought(n) /\ plugged[n] # Nothing
    /\ \A i \in 1 .. Len(ret) : ret[i].name = n =>
          IsSought(n) /\ Listable(n) /\ ret[i].device = plugged[n] /\ ret[i].whole

\* The port that the scan looks at.
LookingOK ==
    /\ phase \in {"subsystem", "numbers", "details"} =>
          /\ devices # <<>>
          /\ devices[1] \notin changed => dev = plugged[devices[1]]
    /\ phase = "numbers" => SubsystemOf[dev] \in {"usb", "usb-serial"}

ThrewOK ==
    phase = "threw" /\ changed = {} =>
        \E n \in Entries : IsSought(n) /\ plugged[n] # Nothing
                           /\ SubsystemOf[plugged[n]] \in {"usb-serial", NoLink}

ScanInv ==
    /\ ScanTypes /\ LeftOK /\ OrderOK /\ LookingOK /\ ThrewOK
    /\ \A n \in Entries \ changed : PortOK(n)

LEMMA PlaceIsTrue ==
    ASSUME NEW n \in Entries
    PROVE  Place(n) \in 1 .. Len(Families) /\ Families[Place(n)] = FamilyOf[n]
<1>1. \E f \in DOMAIN Families : Families[f] = FamilyOf[n]
    BY ScanAssumption DEF Range
<1>2. DOMAIN Families = 1 .. Len(Families)
    BY ScanAssumption
<1> QED
    BY <1>1, <1>2 DEF Place

LEMMA ScanInitInv == ScanInit => ScanInv
<1> SUFFICES ASSUME ScanInit
             PROVE  ScanInv
    OBVIOUS
<1>1. ScanTypes
    BY DEF ScanInit, ScanTypes, ScanPhases
<1>2. LeftOK
    <2>1. Len(Families) \in Nat
        BY ScanAssumption, LenProperties
    <2>2. left = <<>> /\ left \in Seq(Range(Families)) /\ Len(left) = 0
        BY DEF ScanInit
    <2> QED
        BY <2>1, <2>2 DEF LeftOK
<1>3. OrderOK /\ LookingOK /\ ThrewOK
    BY DEF ScanInit, OrderOK, LookingOK, ThrewOK
<1>4. \A n \in Entries \ changed : PortOK(n)
    BY DEF ScanInit, PortOK, IsSought, Pending, Reported
<1> QED
    BY <1>1, <1>2, <1>3, <1>4 DEF ScanInv

\* A device that comes or goes makes its name one of those that did not stay.
LEMMA ChangeKeeps ==
    ASSUME ScanInv, NEW n \in Entries, NEW d \in Devices \cup {Nothing}, Change(n, d)
    PROVE  ScanInv'
<1>1. /\ plugged' = [plugged EXCEPT ![n] = d] /\ changed' = changed \cup {n}
      /\ UNCHANGED scan
    BY DEF Change
<1>2. /\ phase' = phase /\ sought' = sought /\ left' = left /\ devices' = devices
      /\ dev' = dev /\ ret' = ret
    BY <1>1 DEF scan
<1>3. \A m \in Entries : m # n => plugged'[m] = plugged[m]
    BY <1>1 DEF ScanInv, ScanTypes
<1>4. ScanTypes'
    BY <1>1, <1>2 DEF ScanInv, ScanTypes
<1>5. LeftOK' /\ OrderOK'
    BY <1>2 DEF ScanInv, LeftOK, OrderOK, Turn
<1>6. LookingOK'
    <2>1. phase \in {"subsystem", "numbers", "details"} => devices[1] \in Entries
        BY DEF ScanInv, ScanTypes, LookingOK
    <2> QED
        BY <1>1, <1>2, <1>3, <2>1 DEF ScanInv, LookingOK
<1>7. ThrewOK'
    BY <1>1, <1>2 DEF ThrewOK
<1>8. ASSUME NEW m \in Entries \ changed'
      PROVE  PortOK(m)'
    <2>1. m # n /\ PortOK(m) /\ plugged'[m] = plugged[m]
        BY <1>1, <1>3, <1>8 DEF ScanInv
    <2> QED
        BY <1>2, <2>1 DEF PortOK, Pending, Reported, Listable, IsSought, Turn
<1> QED
    BY <1>4, <1>5, <1>6, <1>7, <1>8 DEF ScanInv

LEMMA BeginKeeps ==
    ASSUME ScanInv, NEW wanted \in SUBSET Range(Families), Begin(wanted)
    PROVE  ScanInv'
<1>1. /\ phase' = "glob" /\ sought' = wanted /\ left' = Families
      /\ devices' = <<>> /\ ret' = <<>> /\ changed' = {}
      /\ plugged' = plugged /\ dev' = dev
    BY DEF Begin
<1>2. ScanTypes'
    BY <1>1 DEF ScanInv, ScanTypes, ScanPhases
<1>3. Len(Families) \in Nat /\ Len(left') = Len(Families) /\ Turn' = 1
    BY <1>1, ScanAssumption, LenProperties DEF Turn
<1>4. LeftOK'
    BY <1>1, <1>3, ScanAssumption DEF LeftOK
<1>5. OrderOK' /\ LookingOK' /\ ThrewOK'
    BY <1>1 DEF OrderOK, LookingOK, ThrewOK
<1>6. ASSUME NEW m \in Entries \ changed'
      PROVE  PortOK(m)'
    <2>1. ~(Place(m) < 1)
        BY PlaceIsTrue, <1>3
    <2> QED
        BY <1>1, <1>3, <2>1 DEF PortOK, Pending, Reported
<1> QED
    BY <1>2, <1>4, <1>5, <1>6 DEF ScanInv

\* One more family: its names come behind those of the families before it.
LEMMA GlobKeeps ==
    ASSUME ScanInv, Glob
    PROVE  ScanInv'
<1> DEFINE names == {n \in Entries : plugged[n] # Nothing /\ FamilyOf[n] = Head(left)}
<1>1. /\ phase = "glob" /\ left # <<>> /\ left' = Tail(left)
      /\ devices' = IF Head(left) \in sought THEN devices \o Sorted(names) ELSE devices
      /\ plugged' = plugged /\ phase' = phase /\ sought' = sought /\ dev' = dev
      /\ ret' = ret /\ changed' = changed
    BY DEF Glob
<1>2. PICK k \in Nat, l \in Nat, L \in Nat : k = Len(devices) /\ l = Len(left) /\ L = Len(Families)
    BY ScanAssumption, LenProperties DEF ScanInv, ScanTypes, LeftOK
<1>3. l >= 1 /\ l <= L /\ Turn = L - l + 1 /\ Turn \in 1 .. L
    BY <1>1, <1>2 DEF ScanInv, LeftOK, Turn
<1>4. Head(left) = Families[Turn]
    <2>1. Head(left) = left[1] /\ 1 \in 1 .. Len(left) /\ Turn - 1 + 1 = Turn
        BY <1>1, <1>2, <1>3 DEF ScanInv, LeftOK
    <2> QED
        BY <2>1 DEF ScanInv, LeftOK
<1>5. /\ left' \in Seq(Range(Families)) /\ Len(left') = l - 1 /\ Turn' = Turn + 1
      /\ \A i \in 1 .. l - 1 : left'[i] = left[i + 1]
    <2>1. /\ left' \in Seq(Range(Families)) /\ Len(left') = l - 1
          /\ \A i \in 1 .. l - 1 : left'[i] = left[i + 1]
        BY <1>1, <1>2, HeadTailProperties DEF ScanInv, LeftOK
    <2> QED
        BY <1>2, <1>3, <2>1 DEF Turn
<1>6. LeftOK'
    <2>1. ASSUME NEW i \in 1 .. l - 1
          PROVE  left'[i] = Families[Turn' - 1 + i]
        <3>1. PICK t \in 1 .. L : t = Turn /\ Turn' = t + 1
            BY <1>3, <1>5
        <3>2. i + 1 \in 1 .. l
            BY <1>3
        <3>3. t - 1 + (i + 1) = t + 1 - 1 + i
            BY <3>1
        <3>4. left'[i] = left[i + 1]
            BY <1>5
        <3>5. left[i + 1] = Families[t - 1 + (i + 1)]
            BY <1>2, <3>1, <3>2 DEF ScanInv, LeftOK
        <3> QED
            BY ONLY <3>1, <3>3, <3>4, <3>5
    <2> QED
        BY <1>2, <1>3, <1>5, <2>1 DEF LeftOK
<1>7. \A n \in Entries : FamilyOf[n] = Head(left) <=> Place(n) = Turn
    BY <1>2, <1>3, <1>4, PlaceIsTrue, ScanAssumption
<1>8. \A n \in Entries : Place(n) \in 1 .. L /\ n \in Nat
    BY <1>2, PlaceIsTrue, ScanAssumption
<1>9. PICK s \in Seq(names) :
          /\ s = Sorted(names)
          /\ \A i, j \in 1 .. Len(s) : i < j => s[i] < s[j]
          /\ \A x \in names : \E i \in 1 .. Len(s) : s[i] = x
    <2>1. names \in SUBSET Nat /\ IsFiniteSet(names)
        BY ScanAssumption, FS_Subset
    <2> HIDE DEF names
    <2> QED
        BY <2>1, SortedProperties
<1>10. PICK p \in Nat : p = Len(s)
    BY <1>9, LenProperties
<1>11. \A i \in 1 .. p : s[i] \in names
    BY <1>9, <1>10, ElementOfSeq
<1>12. CASE Head(left) \in sought
    <2>1. devices \in Seq(Entries) /\ s \in Seq(Entries)
        BY <1>9 DEF ScanInv, ScanTypes
    <2>2. /\ devices' \in Seq(Entries) /\ Len(devices') = k + p
          /\ \A i \in 1 .. k + p : devices'[i] = IF i <= k THEN devices[i] ELSE s[i - k]
        <3> HIDE DEF names
        <3>1. devices' = devices \o s
            BY <1>1, <1>9, <1>12 DEF names
        <3> QED
            BY <1>2, <1>10, <2>1, <3>1, TwoPieces
    <2>3. /\ \A i \in 1 .. k : devices'[i] = devices[i] /\ Place(devices'[i]) < Turn
          /\ \A i \in k + 1 .. k + p : i - k \in 1 .. p /\ devices'[i] = s[i - k]
                                       /\ devices'[i] \in names /\ Place(devices'[i]) = Turn
        <3>1. \A i \in 1 .. k : Place(devices[i]) < Turn
            BY <1>1, <1>2 DEF ScanInv, OrderOK
        <3>2. \A i \in 1 .. k : i \in 1 .. k + p /\ devices'[i] = devices[i]
            BY <2>2
        <3>3. \A i \in k + 1 .. k + p : i - k \in 1 .. p /\ i \in 1 .. k + p /\ ~(i <= k)
            OBVIOUS
        <3>4. \A i \in k + 1 .. k + p : devices'[i] = s[i - k]
            BY <2>2, <3>3
        <3> QED
            BY <1>7, <1>11, <3>1, <3>2, <3>3, <3>4
    <2>4. ScanTypes'
        BY <1>1, <2>2 DEF ScanInv, ScanTypes
    <2>5. ASSUME NEW i \in 1 .. k + p, NEW j \in 1 .. k + p, i < j
          PROVE  Precedes(devices'[i], devices'[j])
        <3>1. CASE j <= k
            BY <1>2, <2>3, <2>5, <3>1 DEF ScanInv, OrderOK
        <3>2. CASE i <= k /\ k < j
            <4>1. Place(devices'[i]) < Turn /\ Place(devices'[j]) = Turn
                BY <2>3, <3>2
            <4> QED
                BY <4>1 DEF Precedes
        <3>3. CASE k < i
            <4>1. /\ i - k \in 1 .. p /\ j - k \in 1 .. p /\ i - k < j - k
                  /\ Place(devices'[i]) = Place(devices'[j])
                  /\ devices'[i] = s[i - k] /\ devices'[j] = s[j - k]
                BY <2>3, <2>5, <3>3
            <4> QED
                BY <1>9, <1>10, <4>1 DEF Precedes
        <3> QED
            BY <3>1, <3>2, <3>3
    <2>6. OrderOK'
        <3>1. \A i \in 1 .. k + p : Place(devices'[i]) < Turn'
            <4>1. \A i \in 1 .. k + p : i \in 1 .. k \/ i \in k + 1 .. k + p
                OBVIOUS
            <4>2. \A i \in 1 .. k + p : devices'[i] \in Entries
                BY <2>2, ElementOfSeq
            <4>3. \A i \in 1 .. k + p : Place(devices'[i]) \in Nat
                BY <1>8, <4>2
            <4> QED
                BY <1>3, <1>5, <2>3, <4>1, <4>3
        <3>2. ret' = <<>>
            BY <1>1 DEF ScanInv, OrderOK
        <3> QED
            BY <2>2, <2>5, <3>1, <3>2 DEF OrderOK
    <2>7. ASSUME NEW m \in Entries \ changed'
          PROVE  PortOK(m)'
        <3>1. PortOK(m)
            BY <1>1, <2>7 DEF ScanInv
        <3>2. Pending(m) => Pending(m)'
            BY <1>2, <2>2, <2>3 DEF Pending
        <3>3. m \in names => Pending(m)'
            <4> SUFFICES ASSUME m \in names
                         PROVE  Pending(m)'
                OBVIOUS
            <4>1. PICK i \in 1 .. p : s[i] = m
                BY <1>9, <1>10
            <4>2. k + i \in k + 1 .. k + p /\ (k + i) - k = i /\ k + i \in 1 .. k + p
                OBVIOUS
            <4>3. devices'[k + i] = m
                BY <2>3, <4>1, <4>2
            <4> QED
                BY <2>2, <4>2, <4>3 DEF Pending
        <3>4. Pending(m)' => Pending(m) \/ m \in names
            <4> SUFFICES ASSUME NEW i \in 1 .. k + p, devices'[i] = m
                         PROVE  Pending(m) \/ m \in names
                BY <2>2 DEF Pending
            <4>1. i \in 1 .. k \/ i \in k + 1 .. k + p
                OBVIOUS
            <4> QED
                BY <1>2, <2>3, <4>1 DEF Pending
        <3>5. IsSought(m) /\ plugged[m] # Nothing /\ Place(m) < Turn' => Pending(m)'
            <4> SUFFICES ASSUME IsSought(m), plugged[m] # Nothing, Place(m) < Turn'
                         PROVE  Pending(m)'
                OBVIOUS
            <4>1. Place(m) < Turn \/ Place(m) = Turn
                BY <1>3, <1>5, <1>8
            <4> QED
                BY <1>1, <1>7, <3>1, <3>2, <3>3, <4>1 DEF PortOK
        <3>6. m \in names => IsSought(m) /\ plugged[m] # Nothing
            BY <1>12 DEF IsSought
        <3>7. IsSought(m)' = IsSought(m) /\ Place(m)' = Place(m) /\ ret' = <<>>
            BY <1>1 DEF IsSought, Place, ScanInv, OrderOK
        <3> HIDE DEF names
        <3> QED
            BY <1>1, <3>1, <3>4, <3>5, <3>6, <3>7 DEF PortOK
    <2>8. LookingOK' /\ ThrewOK'
        BY <1>1 DEF LookingOK, ThrewOK
    <2> QED
        BY <1>6, <2>4, <2>6, <2>7, <2>8 DEF ScanInv
<1>13. CASE Head(left) \notin sought
    <2>1. devices' = devices
        BY <1>1, <1>13
    <2>2. ScanTypes'
        BY <1>1, <2>1 DEF ScanInv, ScanTypes
    <2>3. OrderOK'
        <3>1. \A i \in 1 .. k : Place(devices[i]) \in Nat /\ Place(devices[i]) < Turn
            BY <1>1, <1>2, <1>8, ElementOfSeq DEF ScanInv, OrderOK, ScanTypes
        <3>2. ASSUME NEW i \in 1 .. k
              PROVE  Place(devices[i]) < Turn'
            <4>1. PICK q \in Nat : q = Place(devices[i])
                BY <3>1
            <4>2. q < Turn
                BY <3>1, <4>1
            <4> QED
                BY <1>3, <1>5, <4>1, <4>2
        <3> QED
            BY <1>1, <1>2, <2>1, <3>2 DEF ScanInv, OrderOK
    <2>4. ASSUME NEW m \in Entries \ changed'
          PROVE  PortOK(m)'
        <3>1. PortOK(m)
            BY <1>1, <2>4 DEF ScanInv
        <3>2. IsSought(m) /\ Place(m) < Turn' => Place(m) < Turn
            BY <1>3, <1>5, <1>7, <1>8, <1>13 DEF IsSought
        <3>3. IsSought(m)' = IsSought(m) /\ Place(m)' = Place(m)
            BY <1>1 DEF IsSought, Place
        <3> QED
            BY <1>1, <2>1, <3>1, <3>2, <3>3 DEF PortOK, Pending, Reported, Listable
    <2>5. LookingOK' /\ ThrewOK'
        BY <1>1 DEF LookingOK, ThrewOK
    <2> QED
        BY <1>6, <2>2, <2>3, <2>4, <2>5 DEF ScanInv
<1> QED
    BY <1>12, <1>13
\* A step that leaves the names, the results and the devices alone, and does not
\* begin to glob, keeps what the scan knows, if it knows what it looks at.
LEMMA LookKeeps ==
    ASSUME ScanInv, phase # "glob", phase' \in ScanPhases \ {"glob"},
           dev' \in Devices \cup {Nothing},
           UNCHANGED <<plugged, sought, left, devices, ret, changed>>,
           LookingOK', ThrewOK'
    PROVE  ScanInv'
<1>1. ScanTypes' /\ LeftOK' /\ OrderOK'
    BY DEF ScanInv, ScanTypes, LeftOK, OrderOK, Turn
<1>2. ASSUME NEW m \in Entries \ changed'
      PROVE  PortOK(m)'
    <2>1. PortOK(m)
        BY <1>2 DEF ScanInv
    <2> QED
        BY <2>1 DEF PortOK, Pending, Reported, Listable, IsSought
<1> QED
    BY <1>1, <1>2 DEF ScanInv

LEMMA GlobbedKeeps ==
    ASSUME ScanInv, Globbed
    PROVE  ScanInv'
<1>1. /\ phase = "glob" /\ left = <<>> /\ phase' = "find"
      /\ UNCHANGED <<plugged, sought, left, devices, dev, ret, changed>>
    BY DEF Globbed
<1>2. ScanTypes' /\ LeftOK' /\ OrderOK'
    BY <1>1 DEF ScanInv, ScanTypes, ScanPhases, LeftOK, OrderOK, Turn
<1>3. ASSUME NEW m \in Entries \ changed'
      PROVE  PortOK(m)'
    <2>1. PortOK(m)
        BY <1>1, <1>3 DEF ScanInv
    <2>2. Place(m) < Turn
        <3>1. Len(Families) \in Nat /\ Len(left) = 0
            BY <1>1, ScanAssumption, LenProperties
        <3> QED
            BY <3>1, PlaceIsTrue DEF Turn
    <2> QED
        BY <1>1, <2>1, <2>2 DEF PortOK, Pending, Reported, Listable, IsSought
<1>4. LookingOK' /\ ThrewOK'
    BY <1>1 DEF LookingOK, ThrewOK
<1> QED
    BY <1>2, <1>3, <1>4 DEF ScanInv

\* The next port that is to be looked at, while nothing changed it.
LEMMA NextPort ==
    ASSUME ScanInv, devices # <<>>
    PROVE  /\ Head(devices) = devices[1] /\ devices[1] \in Entries
           /\ devices[1] \notin changed =>
                 IsSought(devices[1]) /\ plugged[devices[1]] # Nothing
<1>1. Head(devices) = devices[1] /\ devices[1] \in Entries /\ 1 \in 1 .. Len(devices)
    BY HeadTailProperties, LenProperties, EmptySeq DEF ScanInv, ScanTypes
<1> QED
    BY <1>1 DEF ScanInv, PortOK, Pending

LEMMA FindKeeps ==
    ASSUME ScanInv, Find
    PROVE  ScanInv'
<1> DEFINE d == plugged[devices[1]]
<1>1. /\ phase = "find" /\ devices # <<>> /\ dev' = d
      /\ phase' = IF d # Nothing /\ SubsystemOf[d] # NoLink THEN "subsystem" ELSE "threw"
      /\ UNCHANGED <<plugged, sought, left, devices, ret, changed>>
    BY NextPort DEF Find, ThrowUnless
<1>2. LookingOK'
    BY <1>1 DEF LookingOK
<1>3. ThrewOK'
    <2> SUFFICES ASSUME phase' = "threw", changed = {}
                 PROVE  ThrewOK'
        BY <1>1 DEF ThrewOK
    <2>1. IsSought(devices[1]) /\ d # Nothing /\ SubsystemOf[d] = NoLink
        BY <1>1, NextPort
    <2> QED
        BY <1>1, <2>1, NextPort DEF ThrewOK, IsSought
<1>4. d \in Devices \cup {Nothing}
    BY <1>1, NextPort DEF ScanInv, ScanTypes
<1> QED
    BY <1>1, <1>2, <1>3, <1>4, LookKeeps DEF ScanPhases

\* The device that the scan looks at is there, while nothing changed its name.
LEMMA LookedAt ==
    ASSUME ScanInv, phase \in {"subsystem", "numbers", "details"}
    PROVE  /\ devices # <<>>
           /\ devices[1] \notin changed =>
                 dev = plugged[devices[1]] /\ IsSought(devices[1]) /\ Present(dev)
<1>1. devices # <<>> /\ (devices[1] \notin changed => dev = plugged[devices[1]])
    BY DEF ScanInv, LookingOK
<1> QED
    BY <1>1, NextPort DEF Present

LEMMA SubsystemKeeps ==
    ASSUME ScanInv, Subsystem
    PROVE  ScanInv'
<1>1. /\ phase = "subsystem"
      /\ phase' = IF Present(dev)
                  THEN IF SubsystemOf[dev] \in {"usb", "usb-serial"} THEN "numbers" ELSE "details"
                  ELSE "threw"
      /\ UNCHANGED <<plugged, sought, left, devices, dev, ret, changed>>
    BY DEF Subsystem, ThrowUnless
<1>2. LookingOK'
    BY <1>1 DEF ScanInv, LookingOK
<1>3. ThrewOK'
    BY <1>1, LookedAt DEF ThrewOK
<1> QED
    BY <1>1, <1>2, <1>3, LookKeeps DEF ScanPhases, ScanInv, ScanTypes

LEMMA NumbersKeeps ==
    ASSUME ScanInv, Numbers
    PROVE  ScanInv'
<1>1. /\ phase = "numbers" /\ phase' = IF HasNumbers(dev) THEN "details" ELSE "threw"
      /\ UNCHANGED <<plugged, sought, left, devices, dev, ret, changed>>
    BY DEF Numbers, ThrowUnless
<1>2. LookingOK'
    BY <1>1 DEF ScanInv, LookingOK
<1>3. ThrewOK'
    <2> SUFFICES ASSUME phase' = "threw", changed = {}
                 PROVE  ThrewOK'
        BY <1>1 DEF ThrewOK
    <2>1. SubsystemOf[dev] = "usb-serial"
        BY <1>1, LookedAt DEF ScanInv, LookingOK, HasNumbers
    <2> QED
        BY <1>1, <2>1, LookedAt, NextPort DEF ThrewOK, IsSought
<1> QED
    BY <1>1, <1>2, <1>3, LookKeeps DEF ScanPhases, ScanInv, ScanTypes

\* The port that was looked at leaves the names, and may join the results.
LEMMA DetailsKeeps ==
    ASSUME ScanInv, Details
    PROVE  ScanInv'
<1> DEFINE whole == SubsystemOf[dev] \in {"usb", "pnp"} => Present(dev)
           entry == [name |-> devices[1], device |-> dev, whole |-> whole]
<1>1. /\ phase = "details" /\ devices # <<>> /\ phase' = "find" /\ devices' = Tail(devices)
      /\ ret' = IF Listed(dev) THEN Append(ret, entry) ELSE ret
      /\ plugged' = plugged /\ sought' = sought /\ left' = left /\ dev' = dev
      /\ changed' = changed
    BY LookedAt, NextPort DEF Details
<1>2. PICK k \in Nat, r \in Nat : k + 1 = Len(devices) /\ r = Len(ret)
    <2>1. Len(devices) \in Nat /\ Len(devices) # 0 /\ Len(ret) \in Nat
        BY <1>1, LenProperties, EmptySeq DEF ScanInv, ScanTypes
    <2> QED
        BY <2>1
<1>3. /\ devices' \in Seq(Entries) /\ Len(devices') = k
      /\ \A i \in 1 .. k : devices'[i] = devices[i + 1] /\ i + 1 \in 1 .. Len(devices)
      /\ 1 \in 1 .. Len(devices)
    BY <1>1, <1>2, HeadTailProperties DEF ScanInv, ScanTypes
<1>4. /\ entry \in Entry /\ entry.name = devices[1] /\ entry.device = dev
      /\ entry.whole = whole
    <2>1. whole \in BOOLEAN
        OBVIOUS
    <2> HIDE DEF whole
    <2> QED
        BY <1>1, <2>1, NextPort DEF ScanInv, ScanTypes, Entry
<1> HIDE DEF entry, whole
<1>5. PICK q \in Nat :
          /\ q = IF Listed(dev) THEN r + 1 ELSE r
          /\ ret' \in Seq(Entry) /\ Len(ret') = q
          /\ \A i \in 1 .. r : ret'[i] = ret[i] /\ i \in 1 .. q
          /\ \A i \in 1 .. q : i \in 1 .. r \/ (i = r + 1 /\ ret'[i] = entry /\ Listed(dev))
          /\ Listed(dev) => ret'[r + 1] = entry /\ r + 1 \in 1 .. q
    <2>1. CASE Listed(dev)
        <3>1. /\ ret' \in Seq(Entry) /\ Len(ret') = r + 1 /\ ret'[r + 1] = entry
              /\ \A i \in 1 .. r : ret'[i] = ret[i]
            BY <1>1, <1>2, <1>4, <2>1, AppendProperties DEF ScanInv, ScanTypes
        <3> QED
            BY <2>1, <3>1
    <2>2. CASE ~Listed(dev)
        BY <1>1, <1>2, <2>2 DEF ScanInv, ScanTypes
    <2> QED
        BY <2>1, <2>2
<1>6. ScanTypes' /\ LeftOK'
    BY <1>1, <1>3, <1>5 DEF ScanInv, ScanTypes, ScanPhases, LeftOK, Turn
<1>7. OrderOK'
    <2>1. ASSUME NEW i \in 1 .. k, NEW j \in 1 .. k, i < j
          PROVE  Precedes(devices'[i], devices'[j])
        BY <1>2, <1>3, <2>1 DEF ScanInv, OrderOK
    <2>2. ASSUME NEW i \in 1 .. q, NEW j \in 1 .. k
          PROVE  Precedes(ret'[i].name, devices'[j])
        <3>1. CASE i \in 1 .. r
            BY <1>2, <1>3, <1>5, <3>1 DEF ScanInv, OrderOK
        <3>2. CASE i \notin 1 .. r
            <4>1. ret'[i].name = devices[1]
                BY <1>4, <1>5, <3>2
            <4>2. 1 < j + 1 /\ j + 1 \in 1 .. Len(devices) /\ devices'[j] = devices[j + 1]
                BY <1>3
            <4> QED
                BY <1>3, <4>1, <4>2 DEF ScanInv, OrderOK
        <3> QED
            BY <3>1, <3>2
    <2>3. ASSUME NEW i \in 1 .. q, NEW j \in 1 .. q, i < j
          PROVE  Precedes(ret'[i].name, ret'[j].name)
        <3>1. CASE j \in 1 .. r
            BY <1>2, <1>5, <2>3, <3>1 DEF ScanInv, OrderOK
        <3>2. CASE j \notin 1 .. r
            <4>1. ret'[j].name = devices[1] /\ i \in 1 .. r
                BY <1>4, <1>5, <2>3, <3>2
            <4> QED
                BY <1>2, <1>3, <1>5, <4>1 DEF ScanInv, OrderOK
        <3> QED
            BY <3>1, <3>2
    <2> QED
        BY <1>1, <1>3, <1>5, <2>1, <2>2, <2>3 DEF OrderOK, Precedes, Place
<1>8. ASSUME NEW m \in Entries \ changed'
      PROVE  PortOK(m)'
    <2>1. PortOK(m)
        BY <1>1, <1>8 DEF ScanInv
    <2>2. IsSought(m)' = IsSought(m) /\ Listable(m)' = Listable(m)
        BY <1>1 DEF IsSought, Listable
    <2>3. Pending(m)' => Pending(m)
        BY <1>3 DEF Pending
    <2>4. Reported(m) => Reported(m)'
        <3> SUFFICES ASSUME NEW i \in 1 .. r, ret[i].name = m
                     PROVE  Reported(m)'
            BY <1>2 DEF Reported
        <3>1. i \in 1 .. q /\ ret'[i].name = m
            BY <1>5
        <3> QED
            BY <1>5, <3>1 DEF Reported
    <2>5. m = devices[1] => dev = plugged[m] /\ whole /\ IsSought(m) /\ plugged[m] # Nothing
        BY <1>1, <1>8, LookedAt, NextPort DEF whole
    <2>6. Pending(m) /\ Listable(m) => Pending(m)' \/ Reported(m)'
        <3> SUFFICES ASSUME NEW i \in 1 .. k + 1, devices[i] = m, Listable(m)
                     PROVE  Pending(m)' \/ Reported(m)'
            BY <1>2 DEF Pending
        <3>1. CASE i = 1
            <4>1. Listed(dev)
                BY <2>5, <3>1 DEF Listable, Listed
            <4> QED
                BY <1>4, <1>5, <3>1, <4>1 DEF Reported
        <3>2. CASE i # 1
            <4>1. i - 1 \in 1 .. k /\ (i - 1) + 1 = i
                BY <3>2
            <4>2. devices'[i - 1] = m
                BY <1>3, <4>1
            <4> QED
                BY <1>3, <4>1, <4>2 DEF Pending
        <3> QED
            BY <3>1, <3>2
    <2>7. ASSUME NEW i \in 1 .. q, ret'[i].name = m
          PROVE  IsSought(m) /\ Listable(m) /\ ret'[i].device = plugged[m] /\ ret'[i].whole
        <3>1. CASE i \in 1 .. r
            BY <1>2, <1>5, <2>1, <2>7, <3>1 DEF PortOK
        <3>2. CASE i \notin 1 .. r
            <4>1. ret'[i] = entry /\ Listed(dev) /\ m = devices[1]
                BY <1>4, <1>5, <2>7, <3>2
            <4> QED
                BY <1>4, <2>5, <4>1 DEF Listable, Listed
        <3> QED
            BY <3>1, <3>2
    <2>8. Pending(m)' => IsSought(m)' /\ plugged'[m] # Nothing
        BY <1>1, <2>1, <2>2, <2>3 DEF PortOK
    <2>9. IsSought(m)' /\ Listable(m)' => Pending(m)' \/ Reported(m)'
        BY <1>1, <2>1, <2>2, <2>4, <2>6 DEF PortOK
    <2> QED
        BY <1>1, <1>5, <2>2, <2>7, <2>8, <2>9 DEF PortOK
<1>9. LookingOK' /\ ThrewOK'
    BY <1>1 DEF LookingOK, ThrewOK
<1> QED
    BY <1>6, <1>7, <1>8, <1>9 DEF ScanInv

LEMMA ScanFinishKeeps ==
    ASSUME ScanInv, Finish
    PROVE  ScanInv'
<1>1. /\ phase = "find" /\ phase' = "idle" /\ dev' = Nothing
      /\ UNCHANGED <<plugged, sought, left, devices, ret, changed>>
    BY DEF Finish
<1>2. LookingOK' /\ ThrewOK'
    BY <1>1 DEF LookingOK, ThrewOK
<1> QED
    BY <1>1, <1>2, LookKeeps DEF ScanPhases

LEMMA ScanNextInv == ScanInv /\ [ScanNext]_scanVars => ScanInv'
<1> SUFFICES ASSUME ScanInv, [ScanNext]_scanVars
             PROVE  ScanInv'
    OBVIOUS
<1>1. CASE \E n \in Entries, d \in Devices \cup {Nothing} : Change(n, d)
    BY <1>1, ChangeKeeps
<1>2. CASE \E wanted \in SUBSET Range(Families) : Begin(wanted)
    BY <1>2, BeginKeeps
<1>3. CASE Glob
    BY <1>3, GlobKeeps
<1>4. CASE Globbed
    BY <1>4, GlobbedKeeps
<1>5. CASE Find
    BY <1>5, FindKeeps
<1>6. CASE Subsystem
    BY <1>6, SubsystemKeeps
<1>7. CASE Numbers
    BY <1>7, NumbersKeeps
<1>8. CASE Details
    BY <1>8, DetailsKeeps
<1>9. CASE Finish
    BY <1>9, ScanFinishKeeps
<1>10. CASE UNCHANGED scanVars
    <2>1. /\ plugged' = plugged /\ phase' = phase /\ sought' = sought /\ left' = left
          /\ devices' = devices /\ dev' = dev /\ ret' = ret /\ changed' = changed
          /\ changes' = changes
        BY <1>10 DEF scanVars, scan
    <2>2. ScanTypes'
        BY <2>1 DEF ScanInv, ScanTypes
    <2>3. LeftOK'
        BY <2>1 DEF ScanInv, LeftOK, Turn
    <2>4. OrderOK'
        BY <2>1 DEF ScanInv, OrderOK, Turn
    <2>5. LookingOK' /\ ThrewOK'
        BY <2>1 DEF ScanInv, LookingOK, ThrewOK, IsSought
    <2>6. ASSUME NEW n \in Entries \ changed
          PROVE  PortOK(n)'
        <3>1. /\ (Pending(n) <=> Pending(n)') /\ (Reported(n) <=> Reported(n)')
              /\ (IsSought(n) <=> IsSought(n)') /\ (Listable(n) <=> Listable(n)') /\ Turn' = Turn
            BY <2>1 DEF Pending, Reported, IsSought, Listable, Turn
        <3>2. PortOK(n)
            BY DEF ScanInv
        <3> QED
            BY <2>1, <3>1, <3>2 DEF PortOK
    <2> QED
        BY <2>1, <2>2, <2>3, <2>4, <2>5, <2>6 DEF ScanInv
<1> QED
    BY <1>1, <1>2, <1>3, <1>4, <1>5, <1>6, <1>7, <1>8, <1>9, <1>10 DEF ScanNext

\* The invariant gives the property: that every port is listed once comes from
\* the order of the results.
LEMMA ScanInvGives == ScanInv /\ (phase = "idle" => devices = <<>>) => ScanIsTrue
<1> SUFFICES ASSUME ScanInv, phase = "idle" => devices = <<>>
             PROVE  ScanIsTrue
    OBVIOUS
<1>1. DOMAIN ret = 1 .. Len(ret) /\ Len(ret) \in Nat
    BY LenProperties DEF ScanInv, ScanTypes
<1>2. \A i, j \in DOMAIN ret : i < j => Precedes(ret[i].name, ret[j].name)
    BY <1>1 DEF ScanInv, OrderOK
<1>3. ASSUME phase = "idle", NEW n \in Entries \ changed
      PROVE  LET entries == {i \in DOMAIN ret : ret[i].name = n}
             IN  IF IsSought(n) /\ plugged[n] # Nothing /\ SubsystemOf[plugged[n]] # "platform"
                 THEN \E i \in entries : entries = {i} /\ ret[i].device = plugged[n] /\ ret[i].whole
                 ELSE entries = {}
    <2> DEFINE entries == {i \in DOMAIN ret : ret[i].name = n}
    <2>1. PortOK(n)
        BY <1>3 DEF ScanInv
    <2>2. CASE IsSought(n) /\ Listable(n)
        <3>1. ~Pending(n)
            BY <1>3 DEF Pending
        <3>2. PICK i \in 1 .. Len(ret) : ret[i].name = n
            BY <1>3, <2>1, <2>2, <3>1 DEF PortOK, Reported
        <3>3. ASSUME NEW j \in entries, j # i
              PROVE  FALSE
            <4>1. Precedes(n, n)
                BY <1>1, <1>2, <3>2, <3>3
            <4>2. Place(n) \in Nat /\ n \in Nat
                BY PlaceIsTrue, ScanAssumption
            <4> QED
                BY <4>1, <4>2 DEF Precedes
        <3>4. entries = {i}
            BY <1>1, <3>2, <3>3
        <3> QED
            BY <2>1, <2>2, <3>2, <3>4 DEF PortOK, Listable
    <2>3. CASE ~(IsSought(n) /\ Listable(n))
        BY <1>1, <2>1, <2>3 DEF PortOK, Listable
    <2> QED
        BY <2>2, <2>3 DEF Listable
<1> QED
    BY <1>2, <1>3 DEF ScanIsTrue, ScanInv, ThrewOK

\* A scan that returns has looked at every name.
LEMMA IdleKeeps ==
    ASSUME phase = "idle" => devices = <<>>, [ScanNext]_scanVars
    PROVE  (phase = "idle" => devices = <<>>)'
BY DEF ScanNext, scanVars, scan, Change, Begin, Glob, Globbed, Find, Subsystem, Numbers, Details,
       Finish, ThrowUnless

\* Port discovery, for any numbers of ports, families and changes: a scan that
\* returns has listed, once, whole and in order, every port of the families it
\* was asked for that stayed, and none else of those that stayed; and one that
\* throws met a port that came, went, has no link or is on the usb-serial bus.
THEOREM ScanIsTrueCorrect == ScanSpec => []ScanIsTrue
<1>1. ScanInit => ScanInv /\ (phase = "idle" => devices = <<>>)
    BY ScanInitInv DEF ScanInit
<1>2. /\ ScanInv /\ (phase = "idle" => devices = <<>>)
      /\ [ScanNext]_scanVars
      => (ScanInv /\ (phase = "idle" => devices = <<>>))'
    BY ScanNextInv, IdleKeeps
<1> QED
    BY <1>1, <1>2, ScanInvGives, PTL DEF ScanSpec

-----------------------------------------------------------------------------
(* SList: any number of lists and nodes. *)

\* What follows position i of a sequence of nodes: the next of them, or NULL.
Node(s, i) == IF i \in 1 .. Len(s) THEN s[i] ELSE NULL

Distinct(s) == \A i, j \in 1 .. Len(s) : s[i] = s[j] => i = j

\* The pointers of a list are those of a sequence.
Linked(m, l, s) ==
    /\ m.head[l] = Node(s, 1)
    /\ m.tail[l] = Node(s, Len(s))
    /\ \A i \in 1 .. Len(s) : m.next[s[i]] = Node(s, i + 1)

\* The walk through a list whose pointers are those of a sequence without
\* repetition meets that sequence.
LEMMA WalkIsList ==
    ASSUME NEW m, NEW l, NEW s \in Seq(Nodes), Distinct(s), Linked(m, l, s)
    PROVE  Walk(m, l) = s
<1> DEFINE N == Cardinality(Nodes)
           at == CHOOSE f : f = [k \in 0 .. N |-> IF k = 0 THEN m.head[l] ELSE PeekNext(m, f[k - 1])]
           meant == [k \in 0 .. N |-> Node(s, k + 1)]
<1>1. N \in Nat
    BY ListAssumption, FS_CardinalityType
<1>2. PICK n \in Nat : n = Len(s)
    BY LenProperties
<1>3. \A i \in 1 .. n : s[i] \in Nodes /\ s[i] # NULL
    BY <1>2, ElementOfSeq, ListAssumption
<1>4. n <= N
    <2> SUFFICES ASSUME N < n
                 PROVE  FALSE
        BY <1>1
    <2>1. IsFiniteSet(1 .. n) /\ Cardinality(1 .. n) = n
        BY FS_Interval
    <2>2. s \in [1 .. n -> Nodes]
        BY <1>2
    <2>3. PICK a \in 1 .. n, b \in 1 .. n : a # b /\ s[a] = s[b]
        BY <2>1, <2>2, ListAssumption, FS_PigeonHole
    <2> QED
        BY <1>2, <2>3 DEF Distinct
<1>5. ASSUME NEW k \in 1 .. N
      PROVE  Node(s, k + 1) = PeekNext(m, Node(s, k))
    <2>1. CASE k <= n
        <3>1. k \in 1 .. n /\ Node(s, k) = s[k] /\ m.next[s[k]] = Node(s, k + 1)
            BY <1>2, <2>1 DEF Node, Linked
        <3> QED
            BY <1>3, <3>1 DEF PeekNext
    <2>2. CASE ~(k <= n)
        BY <1>2, <2>2 DEF Node, PeekNext
    <2> QED
        BY <2>1, <2>2
<1>6. meant = [k \in 0 .. N |-> IF k = 0 THEN m.head[l] ELSE PeekNext(m, meant[k - 1])]
    <2>1. ASSUME NEW k \in 0 .. N
          PROVE  Node(s, k + 1) = IF k = 0 THEN m.head[l] ELSE PeekNext(m, meant[k - 1])
        <3>1. CASE k = 0
            BY <3>1 DEF Linked
        <3>2. CASE k # 0
            <4>1. k \in 1 .. N /\ k - 1 \in 0 .. N /\ (k - 1) + 1 = k
                BY <1>1, <3>2
            <4>2. meant[k - 1] = Node(s, k)
                BY <4>1
            <4> QED
                BY <1>5, <3>2, <4>1, <4>2
        <3> QED
            BY <3>1, <3>2
    <2> QED
        BY <2>1
<1>7. at = [k \in 0 .. N |-> IF k = 0 THEN m.head[l] ELSE PeekNext(m, at[k - 1])]
    BY <1>6
<1> HIDE DEF at
<1>8. \A k \in 0 .. N : at[k] = Node(s, k + 1)
    <2> DEFINE I == {k \in 0 .. N : at[k] = Node(s, k + 1)}
    <2>1. 0 \in I
        <3>1. at[0] = m.head[l]
            BY <1>1, <1>7
        <3> QED
            BY <1>1, <3>1 DEF Linked
    <2>2. ASSUME NEW k \in 0 .. N - 1, k \in I
          PROVE  k + 1 \in I
        <3>1. k + 1 \in 0 .. N /\ k + 1 # 0 /\ (k + 1) - 1 = k /\ k + 1 \in 1 .. N
            BY <1>1
        <3>2. at[k + 1] = PeekNext(m, at[k])
            BY <1>7, <3>1
        <3> QED
            BY <1>5, <2>2, <3>1, <3>2
    <2> HIDE DEF I
    <2>3. 0 .. N \subseteq I
        BY <1>1, <2>1, <2>2, SetInduction
    <2> QED
        BY <2>3 DEF I
<1>9. Cardinality({k \in DOMAIN at : at[k] # NULL}) = n
    <2>1. DOMAIN at = 0 .. N
        BY <1>7
    <2>2. {k \in DOMAIN at : at[k] # NULL} = 0 .. n - 1
        <3>1. \A k \in 0 .. N : at[k] # NULL <=> k + 1 <= n
            BY <1>2, <1>3, <1>8 DEF Node
        <3> QED
            BY <1>1, <1>4, <2>1, <3>1
    <2>3. Cardinality(0 .. n - 1) = n
        BY FS_Interval
    <2> QED
        BY <2>2, <2>3
<1>10. Walk(m, l) = [i \in 1 .. Cardinality({k \in DOMAIN at : at[k] # NULL}) |-> at[i - 1]]
    BY DEF Walk, at
<1>11. \A i \in 1 .. n : at[i - 1] = s[i]
    BY <1>1, <1>2, <1>4, <1>8 DEF Node
<1>12. s = [i \in 1 .. n |-> s[i]]
    BY <1>2
<1> QED
    BY <1>9, <1>10, <1>11, <1>12
\* The memory of all lists.
IsMemory(m) ==
    m \in [head : [Lists -> Nodes \cup {NULL}], tail : [Lists -> Nodes \cup {NULL}],
           next : [Nodes -> Nodes \cup {NULL}]]

LEMMA MemoryFields ==
    ASSUME NEW m, IsMemory(m)
    PROVE  /\ m.head \in [Lists -> Nodes \cup {NULL}] /\ m.tail \in [Lists -> Nodes \cup {NULL}]
           /\ m.next \in [Nodes -> Nodes \cup {NULL}]
BY DEF IsMemory

LEMMA SetNextMoves ==
    ASSUME NEW m, IsMemory(m), NEW n \in Nodes, NEW to \in Nodes \cup {NULL}
    PROVE  /\ IsMemory(SetNext(m, n, to))
           /\ SetNext(m, n, to).head = m.head /\ SetNext(m, n, to).tail = m.tail
           /\ SetNext(m, n, to).next = [m.next EXCEPT ![n] = to]
BY DEF IsMemory, SetNext

\* t is s with n put in at position i, without the element at position i.
Inserted(s, t, i, n) ==
    /\ t \in Seq(Nodes) /\ Len(t) = Len(s) + 1
    /\ \A j \in 1 .. Len(s) + 1 : t[j] = IF j < i THEN s[j] ELSE IF j = i THEN n ELSE s[j - 1]

Removed(s, t, i) ==
    /\ t \in Seq(Nodes) /\ Len(t) = Len(s) - 1
    /\ \A j \in 1 .. Len(s) - 1 : t[j] = IF j < i THEN s[j] ELSE s[j + 1]

\* From m to m2 only the list l changed, and the next pointers of nodes in X.
Touches(m, m2, l, X) ==
    /\ IsMemory(m2)
    /\ \A q \in Lists \ {l} : m2.head[q] = m.head[q] /\ m2.tail[q] = m.tail[q]
    /\ \A n \in Nodes \ X : m2.next[n] = m.next[n]

LEMMA InsertedIsDistinct ==
    ASSUME NEW s \in Seq(Nodes), Distinct(s), NEW i \in 1 .. Len(s) + 1,
           NEW n \in Nodes \ ToSet(s), NEW t, Inserted(s, t, i, n)
    PROVE  Distinct(t) /\ ToSet(t) = ToSet(s) \cup {n}
<1>1. PICK k \in Nat : k = Len(s)
    BY LenProperties
<1>2. /\ Len(t) = k + 1 /\ DOMAIN t = 1 .. k + 1 /\ DOMAIN s = 1 .. k
      /\ \A j \in 1 .. k + 1 : t[j] = IF j < i THEN s[j] ELSE IF j = i THEN n ELSE s[j - 1]
    BY <1>1, LenProperties DEF Inserted
<1>3. \A j \in 1 .. k : s[j] # n
    BY <1>2 DEF ToSet
<1>4. \A a, b \in 1 .. k : s[a] = s[b] => a = b
    BY <1>1 DEF Distinct
<1>5. ASSUME NEW a \in 1 .. k + 1, NEW b \in 1 .. k + 1, t[a] = t[b]
      PROVE  a = b
    <2> DEFINE from(j) == IF j < i THEN j ELSE j - 1
    <2>1. \A j \in 1 .. k + 1 : j # i => from(j) \in 1 .. k /\ t[j] = s[from(j)]
        BY <1>1, <1>2
    <2>2. CASE a = i \/ b = i
        BY <1>2, <1>3, <1>5, <2>1, <2>2
    <2>3. CASE a # i /\ b # i
        <3>1. from(a) = from(b)
            BY <1>4, <1>5, <2>1, <2>3
        <3> QED
            BY <1>1, <2>3, <3>1
    <2> QED
        BY <2>2, <2>3
<1>6. ToSet(t) \subseteq ToSet(s) \cup {n}
    <2>1. \A j \in 1 .. k + 1 : t[j] = n \/ \E a \in 1 .. k : t[j] = s[a]
        BY <1>1, <1>2
    <2> QED
        BY <1>2, <2>1 DEF ToSet
<1>7. ToSet(s) \cup {n} \subseteq ToSet(t)
    <2>1. t[i] = n /\ i \in 1 .. k + 1
        BY <1>1, <1>2
    <2>2. \A j \in 1 .. k : \E a \in 1 .. k + 1 : t[a] = s[j]
        <3> SUFFICES ASSUME NEW j \in 1 .. k
                     PROVE  \E a \in 1 .. k + 1 : t[a] = s[j]
            OBVIOUS
        <3>1. CASE j < i
            BY <1>2, <3>1
        <3>2. CASE ~(j < i)
            <4>1. j + 1 \in 1 .. k + 1 /\ ~(j + 1 < i) /\ j + 1 # i /\ (j + 1) - 1 = j
                BY <1>1, <3>2
            <4> QED
                BY <1>2, <4>1
        <3> QED
            BY <3>1, <3>2
    <2>3. n \in ToSet(t)
        BY <1>2, <2>1 DEF ToSet
    <2>4. \A j \in 1 .. k : s[j] \in ToSet(t)
        BY <1>2, <2>2 DEF ToSet
    <2> QED
        BY <1>2, <2>3, <2>4 DEF ToSet
<1> QED
    BY <1>2, <1>5, <1>6, <1>7 DEF Distinct

LEMMA RemovedIsDistinct ==
    ASSUME NEW s \in Seq(Nodes), Distinct(s), NEW i \in 1 .. Len(s), NEW t, Removed(s, t, i)
    PROVE  Distinct(t) /\ ToSet(t) \subseteq ToSet(s)
<1>1. PICK k \in Nat : k = Len(s)
    BY LenProperties
<1>2. /\ Len(t) = k - 1 /\ DOMAIN t = 1 .. k - 1 /\ DOMAIN s = 1 .. k
      /\ \A j \in 1 .. k - 1 : t[j] = IF j < i THEN s[j] ELSE s[j + 1]
    BY <1>1, LenProperties DEF Removed
<1> DEFINE from(j) == IF j < i THEN j ELSE j + 1
<1>3. \A j \in 1 .. k - 1 : from(j) \in 1 .. k /\ t[j] = s[from(j)]
    BY <1>1, <1>2
<1>4. \A a, b \in 1 .. k - 1 : t[a] = t[b] => a = b
    <2> SUFFICES ASSUME NEW a \in 1 .. k - 1, NEW b \in 1 .. k - 1, t[a] = t[b]
                 PROVE  a = b
        OBVIOUS
    <2>1. from(a) = from(b)
        BY <1>1, <1>3 DEF Distinct
    <2> QED
        BY <1>1, <2>1
<1>5. \A j \in 1 .. k - 1 : t[j] \in ToSet(s)
    BY <1>2, <1>3 DEF ToSet
<1>6. ToSet(t) \subseteq ToSet(s)
    BY <1>2, <1>5 DEF ToSet
<1> QED
    BY <1>2, <1>4, <1>6 DEF Distinct

\* sys_slist_prepend puts the node first.
LEMMA PrependLinks ==
    ASSUME NEW m, IsMemory(m), NEW l \in Lists, NEW s \in Seq(Nodes), Distinct(s), Linked(m, l, s),
           NEW n \in Nodes \ ToSet(s), NEW t, Inserted(s, t, 1, n)
    PROVE  Touches(m, Prepend(m, l, n), l, {n}) /\ Linked(Prepend(m, l, n), l, t)
<1> DEFINE m1 == SetNext(m, n, m.head[l])
           m2 == Prepend(m, l, n)
<1>1. PICK k \in Nat : k = Len(s)
    BY LenProperties
<1>2. /\ Len(t) = k + 1 /\ DOMAIN s = 1 .. k
      /\ \A j \in 1 .. k + 1 : t[j] = IF j = 1 THEN n ELSE s[j - 1]
    BY <1>1, LenProperties DEF Inserted
<1>3. \A j \in 1 .. k : s[j] # n /\ s[j] \in Nodes
    BY <1>2 DEF ToSet
<1>4. m.head[l] \in Nodes \cup {NULL} /\ m.tail[l] \in Nodes \cup {NULL}
    BY MemoryFields
<1>5. /\ IsMemory(m1) /\ m1.head = m.head /\ m1.tail = m.tail
      /\ m1.next = [m.next EXCEPT ![n] = m.head[l]]
    BY <1>4, SetNextMoves
<1> HIDE DEF m1
<1>6. /\ IsMemory(m2) /\ m2.next = m1.next
      /\ m2.head = [m.head EXCEPT ![l] = n]
      /\ m2.tail = [m.tail EXCEPT ![l] = IF m.tail[l] = NULL THEN n ELSE m.tail[l]]
    <2> DEFINE e == IF m.tail[l] = NULL THEN n ELSE m.tail[l]
    <2>1. e \in Nodes \cup {NULL}
        BY <1>4
    <2>2. m2 = [m1 EXCEPT !.head[l] = n, !.tail[l] = e]
        BY <1>5, MemoryFields DEF Prepend, m1, IsMemory
    <2> HIDE DEF e, m2
    <2>3. /\ IsMemory(m2) /\ m2.next = m1.next
          /\ m2.head = [m1.head EXCEPT ![l] = n]
          /\ m2.tail = [m1.tail EXCEPT ![l] = e]
        BY <1>5, <2>1, <2>2 DEF IsMemory
    <2> QED
        BY <1>5, <2>3 DEF e
<1> HIDE DEF m2
<1>7. Touches(m, m2, l, {n})
    BY <1>5, <1>6, MemoryFields DEF Touches
<1>8. /\ m2.head[l] = n /\ m2.next[n] = m.head[l]
      /\ m2.tail[l] = IF m.tail[l] = NULL THEN n ELSE m.tail[l]
      /\ \A j \in 1 .. k : m2.next[s[j]] = m.next[s[j]]
    BY <1>3, <1>5, <1>6, MemoryFields
<1>9. \A j \in 1 .. k : m2.next[s[j]] = Node(t, j + 2)
    BY <1>1, <1>2, <1>8 DEF Linked, Node
<1>10. m2.next[n] = Node(t, 2) /\ m2.head[l] = Node(t, 1)
    BY <1>1, <1>2, <1>8 DEF Linked, Node
<1>11. m2.tail[l] = Node(t, k + 1)
    <2>1. CASE k = 0
        BY <1>1, <1>2, <1>8, <2>1 DEF Linked, Node
    <2>2. CASE k # 0
        <3>1. m.tail[l] = s[k] /\ s[k] # NULL /\ k + 1 # 1 /\ (k + 1) - 1 = k
            BY <1>1, <1>3, <2>2, ListAssumption DEF Linked, Node
        <3> QED
            BY <1>2, <1>8, <3>1 DEF Node
    <2> QED
        BY <2>1, <2>2
<1>12. \A j \in 1 .. k + 1 : m2.next[t[j]] = Node(t, j + 1)
    <2> SUFFICES ASSUME NEW j \in 1 .. k + 1
                 PROVE  m2.next[t[j]] = Node(t, j + 1)
        OBVIOUS
    <2>1. CASE j = 1
        BY <1>2, <1>10, <2>1
    <2>2. CASE j # 1
        <3>1. j - 1 \in 1 .. k /\ (j - 1) + 2 = j + 1 /\ t[j] = s[j - 1]
            BY <1>2, <2>2
        <3> QED
            BY <1>9, <3>1
    <2> QED
        BY <2>1, <2>2
<1> QED
    BY <1>2, <1>7, <1>10, <1>11, <1>12 DEF Linked, m2
\* sys_slist_append puts the node last, whatever next pointer it came with.
LEMMA AppendLinks ==
    ASSUME NEW m, IsMemory(m), NEW l \in Lists, NEW s \in Seq(Nodes), Distinct(s), Linked(m, l, s),
           NEW n \in Nodes \ ToSet(s), NEW t, Inserted(s, t, Len(s) + 1, n)
    PROVE  /\ Touches(m, AppendNode(m, l, n), l, ToSet(s) \cup {n})
           /\ Linked(AppendNode(m, l, n), l, t)
<1> DEFINE m1 == SetNext(m, n, NULL)
           m2 == AppendNode(m, l, n)
<1>1. PICK k \in Nat : k = Len(s)
    BY LenProperties
<1>2. /\ Len(t) = k + 1 /\ DOMAIN s = 1 .. k /\ t[k + 1] = n
      /\ \A j \in 1 .. k : t[j] = s[j]
    <2>1. \A j \in 1 .. k + 1 : t[j] = IF j < k + 1 THEN s[j] ELSE IF j = k + 1 THEN n ELSE s[j - 1]
        BY <1>1 DEF Inserted
    <2> QED
        BY <1>1, <2>1, LenProperties DEF Inserted
<1>3. \A j \in 1 .. k : s[j] # n /\ s[j] \in Nodes /\ s[j] # NULL
    BY <1>2, ListAssumption DEF ToSet
<1>4. /\ IsMemory(m1) /\ m1.head = m.head /\ m1.tail = m.tail
      /\ m1.next = [m.next EXCEPT ![n] = NULL]
    BY SetNextMoves
<1>5. CASE k = 0
    <2>1. m.tail[l] = NULL
        BY <1>1, <1>5 DEF Linked, Node
    <2>2. m2 = [m1 EXCEPT !.head[l] = n, !.tail[l] = n]
        BY <2>1 DEF AppendNode
    <2> HIDE DEF m1, m2
    <2>3. /\ IsMemory(m2) /\ m2.next = [m.next EXCEPT ![n] = NULL]
          /\ m2.head = [m.head EXCEPT ![l] = n] /\ m2.tail = [m.tail EXCEPT ![l] = n]
        BY <1>4, <2>2 DEF IsMemory
    <2>4. Touches(m, m2, l, ToSet(s) \cup {n})
        BY <2>3, MemoryFields DEF Touches
    <2>5. m2.head[l] = n /\ m2.tail[l] = n /\ m2.next[n] = NULL
        BY <2>3, MemoryFields
    <2>6. Linked(m2, l, t)
        BY <1>2, <1>5, <2>5 DEF Linked, Node
    <2> QED
        BY <2>4, <2>6 DEF m2
<1>6. CASE k # 0
    <2>1. k \in 1 .. k /\ m.tail[l] = s[k] /\ s[k] # NULL /\ s[k] \in Nodes
        BY <1>1, <1>3, <1>6 DEF Linked, Node
    <2>2. m2 = [SetNext(m1, s[k], n) EXCEPT !.tail[l] = n]
        BY <2>1 DEF AppendNode
    <2> HIDE DEF m1, m2
    <2> DEFINE m3 == SetNext(m1, s[k], n)
    <2>3. /\ IsMemory(m3) /\ m3.head = m.head /\ m3.tail = m.tail
          /\ m3.next = [m1.next EXCEPT ![s[k]] = n]
        BY <1>4, <2>1 DEF SetNext, IsMemory
    <2> HIDE DEF m3
    <2>4. /\ IsMemory(m2) /\ m2.next = [[m.next EXCEPT ![n] = NULL] EXCEPT ![s[k]] = n]
          /\ m2.head = m.head /\ m2.tail = [m.tail EXCEPT ![l] = n]
        <3>1. m2 = [m3 EXCEPT !.tail[l] = n]
            BY <2>2 DEF m3
        <3> QED
            BY <1>4, <2>3, <3>1 DEF IsMemory
    <2>5. Touches(m, m2, l, ToSet(s) \cup {n})
        <3>1. s[k] \in ToSet(s)
            BY <1>2, <2>1 DEF ToSet
        <3> QED
            BY <2>1, <2>4, <3>1, MemoryFields DEF Touches
    <2>6. /\ m2.head[l] = m.head[l] /\ m2.tail[l] = n /\ m2.next[s[k]] = n /\ m2.next[n] = NULL
          /\ \A x \in Nodes : x # n /\ x # s[k] => m2.next[x] = m.next[x]
        BY <1>3, <2>1, <2>4, MemoryFields
    <2>7. ASSUME NEW j \in 1 .. k + 1
          PROVE  m2.next[t[j]] = Node(t, j + 1)
        <3>1. CASE j = k + 1
            BY <1>2, <2>6, <3>1 DEF Node
        <3>2. CASE j = k
            <4>1. t[j] = s[k] /\ Node(t, j + 1) = n
                BY <1>2, <2>1, <3>2 DEF Node
            <4> QED
                BY <2>6, <4>1
        <3>3. CASE j < k
            <4>1. j \in 1 .. k /\ j # k /\ j + 1 \in 1 .. k /\ j + 1 \in 1 .. k + 1
                BY <3>3
            <4>2. t[j] = s[j] /\ s[j] # n /\ s[j] \in Nodes /\ s[j] # s[k]
                BY <1>1, <1>2, <1>3, <2>1, <4>1 DEF Distinct
            <4>3. m.next[s[j]] = s[j + 1] /\ Node(t, j + 1) = s[j + 1]
                BY <1>1, <1>2, <4>1 DEF Linked, Node
            <4> QED
                BY <2>6, <4>2, <4>3
        <3> QED
            BY <3>1, <3>2, <3>3
    <2>8. m2.head[l] = Node(t, 1) /\ m2.tail[l] = Node(t, k + 1)
        <3>1. 1 \in 1 .. k /\ 1 \in 1 .. k + 1 /\ k + 1 \in 1 .. k + 1
            BY <1>6
        <3> QED
            BY <1>1, <1>2, <2>6, <3>1 DEF Linked, Node
    <2> QED
        BY <1>2, <2>5, <2>7, <2>8 DEF Linked, m2
<1> QED
    BY <1>5, <1>6

\* sys_slist_append_list of one node whose next pointer is NULL is an append.
LEMMA AppendListIsAppend ==
    ASSUME NEW m, IsMemory(m), NEW l \in Lists, NEW n \in Nodes, m.next[n] = NULL
    PROVE  AppendList(m, l, n, n) = AppendNode(m, l, n)
<1>1. [m.next EXCEPT ![n] = NULL] = m.next
    BY MemoryFields
<1>2. SetNext(m, n, NULL) = m
    BY <1>1 DEF SetNext, IsMemory
<1>3. n # NULL
    BY ListAssumption
<1> QED
    BY <1>2, <1>3 DEF AppendList, AppendNode

\* sys_slist_insert puts the node behind another one of the list.
LEMMA InsertLinks ==
    ASSUME NEW m, IsMemory(m), NEW l \in Lists, NEW s \in Seq(Nodes), Distinct(s), Linked(m, l, s),
           NEW n \in Nodes \ ToSet(s), NEW i \in 1 .. Len(s), NEW t, Inserted(s, t, i + 1, n)
    PROVE  /\ Touches(m, InsertNode(m, l, s[i], n), l, ToSet(s) \cup {n})
           /\ Linked(InsertNode(m, l, s[i], n), l, t)
<1> DEFINE m2 == InsertNode(m, l, s[i], n)
<1>1. PICK k \in Nat : k = Len(s)
    BY LenProperties
<1>2. DOMAIN s = 1 .. k /\ i \in 1 .. k /\ \A j \in 1 .. k : s[j] \in Nodes /\ s[j] # NULL
    BY <1>1, LenProperties, ElementOfSeq, ListAssumption
<1>3. \A j \in 1 .. k : s[j] # n
    BY <1>2 DEF ToSet
<1>4. CASE i = k
    <2>1. m.next[s[i]] = NULL
        BY <1>1, <1>2, <1>4 DEF Linked, Node
    <2>2. m2 = AppendNode(m, l, n)
        BY <1>2, <2>1 DEF InsertNode
    <2> QED
        BY <1>1, <1>4, <2>2, AppendLinks
<1>5. CASE i < k
    <2>1. i + 1 \in 1 .. k /\ m.next[s[i]] = s[i + 1]
        BY <1>1, <1>2, <1>5 DEF Linked, Node
    <2> DEFINE m1 == SetNext(m, n, s[i + 1])
    <2>2. m2 = SetNext(m1, s[i], n)
        BY <1>2, <2>1 DEF InsertNode
    <2>3. /\ IsMemory(m1) /\ m1.head = m.head /\ m1.tail = m.tail
          /\ m1.next = [m.next EXCEPT ![n] = s[i + 1]]
        BY <1>2, <2>1, SetNextMoves
    <2> HIDE DEF m1, m2
    <2>4. /\ IsMemory(m2) /\ m2.head = m.head /\ m2.tail = m.tail
          /\ m2.next = [[m.next EXCEPT ![n] = s[i + 1]] EXCEPT ![s[i]] = n]
        BY <1>2, <2>2, <2>3 DEF SetNext, IsMemory
    <2>5. Touches(m, m2, l, ToSet(s) \cup {n})
        <3>1. s[i] \in ToSet(s)
            BY <1>2 DEF ToSet
        <3> QED
            BY <1>2, <2>4, <3>1, MemoryFields DEF Touches
    <2>6. /\ m2.next[s[i]] = n /\ m2.next[n] = s[i + 1]
          /\ \A x \in Nodes : x # n /\ x # s[i] => m2.next[x] = m.next[x]
        BY <1>2, <1>3, <2>4, MemoryFields
    <2>7. /\ Len(t) = k + 1
          /\ \A j \in 1 .. k + 1 : t[j] = IF j < i + 1 THEN s[j] ELSE IF j = i + 1 THEN n ELSE s[j - 1]
        BY <1>1 DEF Inserted
    <2>8. ASSUME NEW j \in 1 .. k + 1
          PROVE  m2.next[t[j]] = Node(t, j + 1)
        <3>1. CASE j < i
            <4>1. j \in 1 .. k /\ j + 1 \in 1 .. k /\ j # i
                BY <1>2, <3>1
            <4>2. t[j] = s[j] /\ Node(t, j + 1) = s[j + 1]
                BY <1>2, <2>7, <3>1 DEF Node
            <4>3. s[j] # s[i] /\ m.next[s[j]] = s[j + 1]
                BY <1>1, <1>2, <4>1 DEF Distinct, Linked, Node
            <4> QED
                BY <1>2, <1>3, <2>6, <4>1, <4>2, <4>3
        <3>2. CASE j = i
            <4>1. t[j] = s[i] /\ Node(t, j + 1) = n
                BY <1>2, <2>7, <3>2 DEF Node
            <4> QED
                BY <2>6, <4>1
        <3>3. CASE j = i + 1
            <4>1. t[j] = n /\ j + 1 \in 1 .. k + 1 /\ ~(j + 1 < i + 1) /\ j + 1 # i + 1
                  /\ (j + 1) - 1 = i + 1
                BY <1>2, <1>5, <2>7, <3>3
            <4>2. Node(t, j + 1) = s[i + 1]
                BY <2>7, <4>1 DEF Node
            <4> QED
                BY <2>6, <4>1, <4>2
        <3>4. CASE j > i + 1
            <4>1. j - 1 \in 1 .. k /\ j - 1 # i /\ (j - 1) + 1 = j
                BY <1>2, <3>4
            <4>2. t[j] = s[j - 1]
                BY <1>2, <2>7, <3>4
            <4>3. s[j - 1] # s[i] /\ m.next[s[j - 1]] = Node(s, j)
                BY <1>1, <1>2, <4>1 DEF Distinct, Linked
            <4>4. Node(t, j + 1) = Node(s, j)
                <5>1. CASE j \in 1 .. k
                    <6>1. j + 1 \in 1 .. k + 1 /\ ~(j + 1 < i + 1) /\ j + 1 # i + 1 /\ (j + 1) - 1 = j
                        BY <1>2, <3>4, <5>1
                    <6> QED
                        BY <1>1, <2>7, <5>1, <6>1 DEF Node
                <5>2. CASE j \notin 1 .. k
                    BY <1>1, <2>7, <5>2 DEF Node
                <5> QED
                    BY <5>1, <5>2
            <4> QED
                BY <1>2, <1>3, <2>6, <4>1, <4>2, <4>3, <4>4
        <3> QED
            BY <1>2, <3>1, <3>2, <3>3, <3>4
    <2>9. m2.head[l] = Node(t, 1) /\ m2.tail[l] = Node(t, k + 1)
        <3>1. t[1] = s[1] /\ t[k + 1] = s[k]
            BY <1>2, <1>5, <2>7
        <3> QED
            BY <1>1, <1>5, <2>4, <2>7, <3>1 DEF Linked, Node
    <2> QED
        BY <2>5, <2>7, <2>8, <2>9 DEF Linked, m2
<1> QED
    BY <1>1, <1>2, <1>4, <1>5
\* sys_slist_get takes the first node, and leaves its next pointer alone.
LEMMA GotLinks ==
    ASSUME NEW m, IsMemory(m), NEW l \in Lists, NEW s \in Seq(Nodes), Distinct(s), Linked(m, l, s),
           s # <<>>, NEW t, Removed(s, t, 1)
    PROVE  Touches(m, GotNode(m, l), l, {}) /\ Linked(GotNode(m, l), l, t)
<1> DEFINE m2 == GotNode(m, l)
           e == IF m.tail[l] = s[1] THEN m.next[s[1]] ELSE m.tail[l]
<1>1. PICK k \in Nat \ {0} : k = Len(s)
    BY LenProperties, EmptySeq
<1>2. \A j \in 1 .. k : s[j] \in Nodes /\ s[j] # NULL
    BY <1>1, ElementOfSeq, ListAssumption
<1>3. /\ 1 \in 1 .. k /\ k \in 1 .. k /\ m.head[l] = s[1] /\ m.tail[l] = s[k]
      /\ s[1] \in Nodes /\ m.next[s[1]] = Node(s, 2)
    BY <1>1, <1>2 DEF Linked, Node
<1>4. m.next[s[1]] \in Nodes \cup {NULL} /\ e \in Nodes \cup {NULL}
    BY <1>3, MemoryFields
<1>5. m2 = [m EXCEPT !.head[l] = m.next[s[1]], !.tail[l] = e]
    BY <1>3 DEF GotNode, IsMemory
<1> HIDE DEF m2, e
<1>6. /\ IsMemory(m2) /\ m2.next = m.next
      /\ m2.head = [m.head EXCEPT ![l] = m.next[s[1]]] /\ m2.tail = [m.tail EXCEPT ![l] = e]
    BY <1>4, <1>5 DEF IsMemory
<1>7. Touches(m, m2, l, {})
    BY <1>6, MemoryFields DEF Touches
<1>8. Len(t) = k - 1 /\ \A j \in 1 .. k - 1 : t[j] = s[j + 1]
    BY <1>1 DEF Removed
<1>9. ASSUME NEW j \in 1 .. k - 1
      PROVE  m2.next[t[j]] = Node(t, j + 1)
    <2>1. j + 1 \in 1 .. k /\ t[j] = s[j + 1]
        BY <1>8
    <2>2. m.next[s[j + 1]] = Node(s, (j + 1) + 1)
        BY <1>1, <2>1 DEF Linked
    <2>3. Node(t, j + 1) = Node(s, (j + 1) + 1)
        BY <1>1, <1>8 DEF Node
    <2> QED
        BY <1>6, <2>1, <2>2, <2>3
<1>10. m2.head[l] = Node(t, 1) /\ m2.tail[l] = Node(t, k - 1)
    <2>1. m2.head[l] = Node(s, 2) /\ m2.tail[l] = e
        BY <1>3, <1>6, MemoryFields
    <2>2. CASE k = 1
        BY <1>1, <1>3, <1>8, <2>1, <2>2 DEF Node, e
    <2>3. CASE k > 1
        <3>1. s[k] # s[1] /\ t[1] = s[2] /\ t[k - 1] = s[(k - 1) + 1] /\ (k - 1) + 1 = k
            BY <1>1, <1>3, <1>8, <2>3 DEF Distinct
        <3> QED
            BY <1>1, <1>3, <1>8, <2>1, <2>3, <3>1 DEF Node, e
    <2> QED
        BY <2>2, <2>3
<1> QED
    BY <1>7, <1>8, <1>9, <1>10 DEF Linked, m2

\* The next pointer of a node that is not in a list is no part of it.
LEMMA OthersLink ==
    ASSUME NEW m, IsMemory(m), NEW l \in Lists, NEW s \in Seq(Nodes), Linked(m, l, s),
           NEW n \in Nodes \ ToSet(s), NEW to \in Nodes \cup {NULL}
    PROVE  IsMemory(SetNext(m, n, to)) /\ Linked(SetNext(m, n, to), l, s)
<1> DEFINE m2 == SetNext(m, n, to)
<1>1. /\ IsMemory(m2) /\ m2.head = m.head /\ m2.tail = m.tail
      /\ m2.next = [m.next EXCEPT ![n] = to]
    BY DEF SetNext, IsMemory
<1>2. \A j \in 1 .. Len(s) : s[j] # n /\ s[j] \in Nodes
    BY LenProperties, ElementOfSeq DEF ToSet
<1> HIDE DEF m2
<1> QED
    BY <1>1, <1>2, MemoryFields DEF Linked, m2

\* sys_slist_remove with the node before the one that leaves, or none.
LEMMA RemoveLinks ==
    ASSUME NEW m, IsMemory(m), NEW l \in Lists, NEW s \in Seq(Nodes), Distinct(s), Linked(m, l, s),
           NEW i \in 1 .. Len(s), NEW t, Removed(s, t, i)
    PROVE  /\ Touches(m, RemoveNode(m, l, Node(s, i - 1), s[i]), l, ToSet(s))
           /\ Linked(RemoveNode(m, l, Node(s, i - 1), s[i]), l, t)
           /\ \A n \in Nodes \ ToSet(t) : n # s[i] =>
                 RemoveNode(m, l, Node(s, i - 1), s[i]).next[n] = m.next[n]
<1> DEFINE m2 == RemoveNode(m, l, Node(s, i - 1), s[i])
<1>1. PICK k \in Nat \ {0} : k = Len(s) /\ i \in 1 .. k
    BY LenProperties
<1>2. DOMAIN s = 1 .. k /\ \A j \in 1 .. k : s[j] \in Nodes /\ s[j] # NULL
    BY <1>1, LenProperties, ElementOfSeq, ListAssumption
<1>3. /\ t \in Seq(Nodes) /\ Len(t) = k - 1
      /\ \A j \in 1 .. k - 1 : t[j] = IF j < i THEN s[j] ELSE s[j + 1]
    BY <1>1 DEF Removed
<1>4. s[i] \in ToSet(s) /\ s[i] \in Nodes \ ToSet(t)
    <2>1. DOMAIN t = 1 .. k - 1
        BY <1>3, LenProperties
    <2>2. \A j \in 1 .. k - 1 : t[j] # s[i]
        BY <1>1, <1>3 DEF Distinct
    <2> QED
        BY <1>1, <1>2, <2>1, <2>2 DEF ToSet
<1>5. CASE i = 1
    <2> DEFINE m1 == GotNode(m, l)
    <2>1. m.head[l] = s[1] /\ Node(s, i - 1) = NULL /\ s # <<>>
        BY <1>1, <1>5 DEF Linked, Node
    <2>2. m2 = SetNext(m1, s[i], NULL)
        BY <1>5, <2>1 DEF RemoveNode, GotNode
    <2>3. Touches(m, m1, l, {}) /\ Linked(m1, l, t)
        BY <1>5, <2>1, GotLinks
    <2> HIDE DEF m1, m2
    <2>4. IsMemory(m1) /\ IsMemory(m2) /\ Linked(m2, l, t)
        BY <1>3, <1>4, <2>2, <2>3, OthersLink DEF Touches
    <2>5. m2.head = m1.head /\ m2.tail = m1.tail /\ m2.next = [m1.next EXCEPT ![s[i]] = NULL]
        BY <1>4, <2>2, <2>4 DEF SetNext, IsMemory
    <2>6. \A x \in Nodes : x # s[i] => m2.next[x] = m.next[x]
        BY <1>4, <2>3, <2>4, <2>5, MemoryFields DEF Touches
    <2>7. Touches(m, m2, l, ToSet(s))
        BY <1>4, <2>3, <2>4, <2>5, <2>6 DEF Touches
    <2> QED
        BY <2>4, <2>6, <2>7 DEF m2
<1>6. CASE i # 1
    <2> DEFINE p == s[i - 1]
               e == IF m.tail[l] = s[i] THEN p ELSE m.tail[l]
               to == m.next[s[i]]
    <2>1. i - 1 \in 1 .. k /\ Node(s, i - 1) = p /\ p \in Nodes /\ p # NULL /\ p # s[i]
        BY <1>1, <1>2, <1>6 DEF Node, Distinct
    <2>2. to \in Nodes \cup {NULL} /\ to = Node(s, i + 1) /\ e \in Nodes \cup {NULL}
        BY <1>1, <1>4, <2>1, MemoryFields DEF Linked
    <2>3. m2 = SetNext([SetNext(m, p, to) EXCEPT !.tail[l] = e], s[i], NULL)
        BY <2>1 DEF RemoveNode, SetNext, IsMemory
    <2> HIDE DEF m2, e, p, to
    <2>4. /\ IsMemory(m2) /\ m2.head = m.head /\ m2.tail = [m.tail EXCEPT ![l] = e]
          /\ m2.next = [[m.next EXCEPT ![p] = to] EXCEPT ![s[i]] = NULL]
        BY <1>4, <2>1, <2>2, <2>3 DEF SetNext, IsMemory
    <2>5. /\ m2.next[p] = to
          /\ \A x \in Nodes : x # p /\ x # s[i] => m2.next[x] = m.next[x]
        BY <1>4, <2>1, <2>4, MemoryFields
    <2>6. p \in ToSet(s) /\ p \in ToSet(t)
        <3>1. i - 1 \in 1 .. k - 1 /\ t[i - 1] = p
            BY <1>1, <1>3, <2>1 DEF p
        <3>2. DOMAIN t = 1 .. k - 1
            BY <1>3, LenProperties
        <3> QED
            BY <1>2, <2>1, <3>1, <3>2 DEF ToSet, p
    <2>7. Touches(m, m2, l, ToSet(s))
        BY <1>4, <2>4, <2>5, <2>6, MemoryFields DEF Touches
    <2>8. ASSUME NEW j \in 1 .. k - 1
          PROVE  m2.next[t[j]] = Node(t, j + 1)
        <3>1. CASE j < i - 1
            <4>1. j \in 1 .. k /\ j + 1 \in 1 .. k /\ j # i - 1 /\ j # i
                BY <1>1, <3>1
            <4>2. t[j] = s[j] /\ Node(t, j + 1) = s[j + 1]
                BY <1>1, <1>3, <3>1 DEF Node
            <4>3. s[j] # s[i] /\ s[j] # p /\ m.next[s[j]] = s[j + 1]
                BY <1>1, <1>2, <2>1, <4>1 DEF Distinct, Linked, Node, p
            <4> QED
                BY <1>2, <2>5, <4>1, <4>2, <4>3
        <3>2. CASE j = i - 1
            <4>1. t[j] = p
                BY <1>1, <1>3, <3>2 DEF p
            <4>2. Node(t, j + 1) = Node(s, i + 1)
                BY <1>1, <1>3, <3>2 DEF Node
            <4> QED
                BY <2>2, <2>5, <4>1, <4>2
        <3>3. CASE j > i - 1
            <4>1. j + 1 \in 1 .. k /\ j + 1 # i - 1 /\ j + 1 # i /\ t[j] = s[j + 1]
                BY <1>1, <1>3, <3>3
            <4>2. s[j + 1] # s[i] /\ s[j + 1] # p /\ m.next[s[j + 1]] = Node(s, (j + 1) + 1)
                BY <1>1, <1>2, <2>1, <4>1 DEF Distinct, Linked, p
            <4>3. Node(t, j + 1) = Node(s, (j + 1) + 1)
                BY <1>1, <1>3, <3>3 DEF Node
            <4> QED
                BY <1>2, <2>5, <4>1, <4>2, <4>3
        <3> QED
            BY <1>1, <3>1, <3>2, <3>3
    <2>9. m2.head[l] = Node(t, 1) /\ m2.tail[l] = Node(t, k - 1)
        <3>1. m2.head[l] = s[1] /\ m2.tail[l] = e /\ m.tail[l] = s[k] /\ k > 1
            BY <1>1, <1>6, <2>4, MemoryFields DEF Linked, Node
        <3>2. Node(t, 1) = s[1]
            BY <1>1, <1>3, <1>6 DEF Node
        <3>3. CASE i = k
            BY <1>1, <1>3, <3>1, <3>2, <3>3 DEF Node, e, p
        <3>4. CASE i < k
            <4>1. k - 1 \in 1 .. k - 1 /\ t[k - 1] = s[(k - 1) + 1] /\ (k - 1) + 1 = k
                BY <1>1, <1>3, <3>4
            <4>2. s[k] # s[i]
                BY <1>1, <3>4 DEF Distinct
            <4> QED
                BY <1>3, <3>1, <3>2, <4>1, <4>2 DEF Node, e
        <3> QED
            BY <1>1, <3>3, <3>4
    <2> QED
        BY <1>3, <2>5, <2>6, <2>7, <2>8, <2>9 DEF Linked, m2
<1> QED
    BY <1>5, <1>6
\* sys_slist_find_and_remove finds the node by the pointers, and what is left is
\* the sequence without it.
LEMMA FoundLinks ==
    ASSUME NEW m, NEW l \in Lists, NEW s \in Seq(Nodes), Distinct(s), Linked(m, l, s),
           NEW n \in Nodes
    PROVE  /\ \A i \in 1 .. Len(s) : s[i] = n =>
                 /\ FindAndRemove(m, l, n) = RemoveNode(m, l, Node(s, i - 1), s[i])
                 /\ Removed(s, RemoveFirst(s, n), i)
           /\ n \notin ToSet(s) => FindAndRemove(m, l, n) = m /\ RemoveFirst(s, n) = s
<1>1. PICK k \in Nat : k = Len(s) /\ DOMAIN s = 1 .. k
    BY LenProperties
<1>2. Walk(m, l) = s
    BY WalkIsList
<1>3. ASSUME NEW i \in 1 .. k, s[i] = n
      PROVE  /\ FindAndRemove(m, l, n) = RemoveNode(m, l, Node(s, i - 1), s[i])
             /\ Removed(s, RemoveFirst(s, n), i)
    <2>1. {j \in 1 .. Len(s) : s[j] = n} = {i}
        BY <1>1, <1>3 DEF Distinct
    <2>2. Min({i}) = i
        BY DEF Min
    <2>3. SelectInSeq(s, LAMBDA x : x = n) = i
        BY <2>1, <2>2 DEF SelectInSeq
    <2>4. n \in ToSet(s)
        BY <1>1, <1>3 DEF ToSet
    <2>5. Previous(m, l, n) = Node(s, i - 1)
        BY <1>1, <1>2, <2>3, <2>4 DEF Previous, Node
    <2>6. FindAndRemove(m, l, n) = RemoveNode(m, l, Node(s, i - 1), s[i])
        BY <1>2, <1>3, <2>4, <2>5 DEF FindAndRemove
    <2>7. RemoveFirst(s, n) = RemoveAt(s, i)
        BY <1>1, <1>3, <2>3 DEF RemoveFirst
    <2>8. Removed(s, RemoveAt(s, i), i)
        BY <1>1, RemoveAtProperties DEF Removed
    <2> QED
        BY <2>6, <2>7, <2>8
<1>4. ASSUME n \notin ToSet(s)
      PROVE  FindAndRemove(m, l, n) = m /\ RemoveFirst(s, n) = s
    <2>1. FindAndRemove(m, l, n) = m
        BY <1>2, <1>4 DEF FindAndRemove
    <2>2. ~ \E i \in 1 .. Len(s) : s[i] = n
        BY <1>1, <1>4 DEF ToSet
    <2> QED
        BY <2>1, <2>2 DEF RemoveFirst
<1> QED
    BY <1>1, <1>3, <1>4

\* Every list is a sequence of nodes, and no node is in two of them.
ListsOK(m, c) ==
    /\ IsMemory(m)
    /\ c \in [Lists -> Seq(Nodes)]
    /\ \A l \in Lists : Distinct(c[l]) /\ Linked(m, l, c[l])
    /\ \A l, q \in Lists : l # q => ToSet(c[l]) \cap ToSet(c[q]) = {}

\* The iteration is at the jth node of what is left of the list: it saw the
\* nodes before it, and those from there on are the ones it did not see.
CursorAt(j) ==
    LET c == contents[cursor.list]
    IN  /\ cursor.sn = Node(c, j) /\ cursor.sns = Node(c, j + 1)
        /\ Len(cursor.all) = Len(cursor.seen) + (Len(c) + 1 - j)
        /\ \A a \in 1 .. Len(cursor.seen) : cursor.all[a] = cursor.seen[a]
        /\ \A b \in j .. Len(c) : cursor.all[Len(cursor.seen) + (b + 1 - j)] = c[b]

CursorOK ==
    /\ cursor \in [list : Lists \cup {NULL}, sn : Nodes \cup {NULL}, sns : Nodes \cup {NULL},
                   seen : Seq(Nodes), all : Seq(Nodes)]
    /\ cursor.list # NULL => \E j \in 1 .. Len(contents[cursor.list]) + 1 : CursorAt(j)

ListInv == ListsOK(mem, contents) /\ CursorOK

\* A call that changes one list leaves the others as they are.
LEMMA OneList ==
    ASSUME NEW m, NEW c, ListsOK(m, c), NEW l \in Lists, NEW m2, NEW X, Touches(m, m2, l, X),
           NEW t \in Seq(Nodes), Distinct(t), Linked(m2, l, t),
           \A q \in Lists \ {l} : X \cap ToSet(c[q]) = {} /\ ToSet(t) \cap ToSet(c[q]) = {}
    PROVE  ListsOK(m2, [c EXCEPT ![l] = t])
<1> DEFINE c2 == [c EXCEPT ![l] = t]
<1>1. c2 \in [Lists -> Seq(Nodes)] /\ c2[l] = t /\ \A q \in Lists \ {l} : c2[q] = c[q]
    BY DEF ListsOK
<1>2. ASSUME NEW q \in Lists \ {l}
      PROVE  Linked(m2, q, c[q])
    <2>1. c[q] \in Seq(Nodes) /\ Linked(m, q, c[q])
        BY DEF ListsOK
    <2>2. \A i \in 1 .. Len(c[q]) : c[q][i] \in ToSet(c[q]) /\ c[q][i] \in Nodes
        BY <2>1, LenProperties, ElementOfSeq DEF ToSet
    <2>3. \A i \in 1 .. Len(c[q]) : m2.next[c[q][i]] = m.next[c[q][i]]
        BY <1>2, <2>2 DEF Touches
    <2>4. m2.head[q] = m.head[q] /\ m2.tail[q] = m.tail[q]
        BY <1>2 DEF Touches
    <2> QED
        BY <2>1, <2>3, <2>4 DEF Linked
<1> HIDE DEF c2
<1>3. \A q \in Lists : Distinct(c2[q]) /\ Linked(m2, q, c2[q])
    <2> SUFFICES ASSUME NEW q \in Lists
                 PROVE  Distinct(c2[q]) /\ Linked(m2, q, c2[q])
        OBVIOUS
    <2>1. CASE q = l
        BY <1>1, <2>1
    <2>2. CASE q # l
        BY <1>1, <1>2, <2>2 DEF ListsOK
    <2> QED
        BY <2>1, <2>2
<1>4. \A p, q \in Lists : p # q => ToSet(c2[p]) \cap ToSet(c2[q]) = {}
    <2> SUFFICES ASSUME NEW p \in Lists, NEW q \in Lists, p # q
                 PROVE  ToSet(c2[p]) \cap ToSet(c2[q]) = {}
        OBVIOUS
    <2>1. CASE p = l
        BY <1>1, <2>1
    <2>2. CASE q = l
        BY <1>1, <2>2
    <2>3. CASE p # l /\ q # l
        BY <1>1, <2>3 DEF ListsOK
    <2> QED
        BY <2>1, <2>2, <2>3
<1>5. IsMemory(m2)
    BY DEF Touches
<1> QED
    BY <1>1, <1>3, <1>4, <1>5 DEF ListsOK, c2

LEMMA ListInitInv == ListInit => ListInv
<1> SUFFICES ASSUME ListInit
             PROVE  ListInv
    OBVIOUS
<1>1. IsMemory(mem)
    BY DEF ListInit, IsMemory
<1>2. contents \in [Lists -> Seq(Nodes)] /\ \A l \in Lists : contents[l] = <<>>
    BY DEF ListInit
<1>3. \A l \in Lists : Distinct(contents[l]) /\ Linked(mem, l, contents[l])
    BY <1>2 DEF ListInit, Distinct, Linked, Node
<1>4. \A l, q \in Lists : ToSet(contents[l]) \cap ToSet(contents[q]) = {}
    BY <1>2 DEF ToSet
<1>5. CursorOK
    BY DEF ListInit, Over, CursorOK
<1> QED
    BY <1>1, <1>2, <1>3, <1>4, <1>5 DEF ListInv, ListsOK

\* Between two iterations a call keeps the invariant if it keeps the lists.
LEMMA CallKeeps ==
    ASSUME ListInv, Idle, UNCHANGED cursor, ListsOK(mem', contents')
    PROVE  ListInv'
BY DEF ListInv, CursorOK, Idle

LEMMA StepKeeps ==
    ASSUME ListInv, NEW l \in Lists, NEW m2, NEW s, Step(m2, l, s),
           ListsOK(m2, [contents EXCEPT ![l] = s])
    PROVE  ListInv'
BY CallKeeps DEF Step
LEMMA AddKeeps ==
    ASSUME ListInv, NEW l \in Lists, NEW n \in Nodes, Add(l, n)
    PROVE  ListInv'
<1>1. PICK s \in Seq(Nodes) : s = contents[l]
    BY DEF ListInv, ListsOK
<1>2. PICK k \in Nat : k = Len(s)
    BY LenProperties
<1>3. IsMemory(mem) /\ Distinct(s) /\ Linked(mem, l, s)
    BY <1>1 DEF ListInv, ListsOK
<1>4. n \in Nodes \ ToSet(s) /\ \A q \in Lists : n \notin ToSet(contents[q])
    BY <1>1 DEF Add, Free
<1>5. ASSUME NEW i \in 1 .. k + 1, NEW t, Inserted(s, t, i, n), NEW m2, Step(m2, l, t),
             Linked(m2, l, t), Touches(mem, m2, l, ToSet(s) \cup {n})
      PROVE  ListInv'
    <2>1. t \in Seq(Nodes) /\ Distinct(t) /\ ToSet(t) = ToSet(s) \cup {n}
        <3>1. i \in 1 .. Len(s) + 1
            BY <1>2
        <3>2. Distinct(t) /\ ToSet(t) = ToSet(s) \cup {n}
            BY <1>3, <1>4, <1>5, <3>1, InsertedIsDistinct
        <3> QED
            BY <1>5, <3>2 DEF Inserted
    <2>2. \A q \in Lists \ {l} : (ToSet(s) \cup {n}) \cap ToSet(contents[q]) = {}
        BY <1>1, <1>4 DEF ListInv, ListsOK
    <2>3. ListsOK(m2, [contents EXCEPT ![l] = t])
        BY <1>5, <2>1, <2>2, OneList DEF ListInv
    <2> QED
        BY <1>5, <2>3, StepKeeps
<1>6. \A i \in 1 .. k + 1 : Inserted(s, InsertAt(s, i, n), i, n)
    BY <1>2, InsertAtProperties DEF Inserted
<1>7. Inserted(s, Cons(n, s), 1, n)
    <2>1. /\ Cons(n, s) \in Seq(Nodes) /\ Len(Cons(n, s)) = k + 1
          /\ \A j \in 1 .. k + 1 : Cons(n, s)[j] = IF j = 1 THEN n ELSE s[j - 1]
        BY <1>2, ConsProperties
    <2>2. \A j \in 1 .. k + 1 : ~(j < 1)
        OBVIOUS
    <2> QED
        BY <1>2, <2>1, <2>2 DEF Inserted
<1>8. Inserted(s, Append(s, n), k + 1, n)
    BY <1>2, AppendProperties DEF Inserted
<1>9. CASE Step(Prepend(mem, l, n), l, Cons(n, contents[l]))
    <2>1. /\ Touches(mem, Prepend(mem, l, n), l, {n})
          /\ Linked(Prepend(mem, l, n), l, Cons(n, s))
        BY <1>3, <1>4, <1>7, PrependLinks
    <2>2. Touches(mem, Prepend(mem, l, n), l, ToSet(s) \cup {n})
        BY <2>1 DEF Touches
    <2> QED
        BY <1>1, <1>2, <1>5, <1>7, <1>9, <2>1, <2>2
<1>10. /\ Touches(mem, AppendNode(mem, l, n), l, ToSet(s) \cup {n})
       /\ Linked(AppendNode(mem, l, n), l, Append(s, n))
    BY <1>2, <1>3, <1>4, <1>8, AppendLinks
<1>11. CASE Step(AppendNode(mem, l, n), l, Append(contents[l], n))
    BY <1>1, <1>2, <1>5, <1>8, <1>10, <1>11
<1>12. CASE mem.next[n] = NULL /\ Step(AppendList(mem, l, n, n), l, Append(contents[l], n))
    <2>1. Step(AppendNode(mem, l, n), l, Append(contents[l], n))
        BY <1>3, <1>12, AppendListIsAppend
    <2> QED
        BY <1>1, <1>2, <1>5, <1>8, <1>10, <2>1
<1>13. CASE \E i \in 1 .. Len(contents[l]) :
                Step(InsertNode(mem, l, contents[l][i], n), l, InsertAt(contents[l], i + 1, n))
    <2>1. PICK i \in 1 .. k : Step(InsertNode(mem, l, s[i], n), l, InsertAt(s, i + 1, n))
        BY <1>1, <1>2, <1>13
    <2>2. i + 1 \in 1 .. k + 1 /\ Inserted(s, InsertAt(s, i + 1, n), i + 1, n)
        BY <1>6
    <2>3. /\ Touches(mem, InsertNode(mem, l, s[i], n), l, ToSet(s) \cup {n})
          /\ Linked(InsertNode(mem, l, s[i], n), l, InsertAt(s, i + 1, n))
        BY <1>2, <1>3, <1>4, <2>2, InsertLinks
    <2> QED
        BY <1>5, <2>1, <2>2, <2>3
<1> QED
    BY <1>9, <1>11, <1>12, <1>13 DEF Add

LEMMA GetNodeKeeps ==
    ASSUME ListInv, NEW l \in Lists, GetNode(l)
    PROVE  ListInv'
<1>1. PICK s \in Seq(Nodes) : s = contents[l]
    BY DEF ListInv, ListsOK
<1>2. IsMemory(mem) /\ Distinct(s) /\ Linked(mem, l, s)
    BY <1>1 DEF ListInv, ListsOK
<1>3. s # <<>>
    BY <1>2 DEF GetNode, Linked, Node
<1>4. 1 \in 1 .. Len(s) /\ Removed(s, Tail(s), 1)
    BY <1>3, HeadTailProperties, LenProperties, EmptySeq DEF Removed
<1>5. Touches(mem, GotNode(mem, l), l, {}) /\ Linked(GotNode(mem, l), l, Tail(s))
    BY <1>2, <1>3, <1>4, GotLinks
<1>6. Tail(s) \in Seq(Nodes) /\ Distinct(Tail(s)) /\ ToSet(Tail(s)) \subseteq ToSet(s)
    BY <1>2, <1>4, RemovedIsDistinct DEF Removed
<1>7. \A q \in Lists \ {l} : {} \cap ToSet(contents[q]) = {}
                             /\ ToSet(Tail(s)) \cap ToSet(contents[q]) = {}
    BY <1>1, <1>6 DEF ListInv, ListsOK
<1>8. ListsOK(GotNode(mem, l), [contents EXCEPT ![l] = Tail(s)])
    BY <1>5, <1>6, <1>7, OneList DEF ListInv
<1> QED
    BY <1>1, <1>8, StepKeeps DEF GetNode

\* A node that is found and removed leaves all lists as they should be.
LEMMA FindAndRemoveKeeps ==
    ASSUME ListsOK(mem, contents), NEW l \in Lists, NEW n \in Nodes
    PROVE  ListsOK(FindAndRemove(mem, l, n),
                   [contents EXCEPT ![l] = RemoveFirst(contents[l], n)])
<1>1. PICK s \in Seq(Nodes) : s = contents[l]
    BY DEF ListsOK
<1>2. IsMemory(mem) /\ Distinct(s) /\ Linked(mem, l, s)
    BY <1>1 DEF ListsOK
<1>3. CASE n \notin ToSet(s)
    <2>1. FindAndRemove(mem, l, n) = mem /\ RemoveFirst(s, n) = s
        BY <1>2, <1>3, FoundLinks
    <2>2. [contents EXCEPT ![l] = s] = contents
        BY <1>1 DEF ListsOK
    <2> QED
        BY <1>1, <2>1, <2>2
<1>4. CASE n \in ToSet(s)
    <2>1. PICK i \in 1 .. Len(s) : s[i] = n
        BY <1>4, LenProperties DEF ToSet
    <2> DEFINE m2 == RemoveNode(mem, l, Node(s, i - 1), s[i])
               t == RemoveFirst(s, n)
    <2>2. FindAndRemove(mem, l, n) = m2 /\ Removed(s, t, i)
        BY <1>2, <2>1, FoundLinks
    <2>3. Touches(mem, m2, l, ToSet(s)) /\ Linked(m2, l, t)
        BY <1>2, <2>2, RemoveLinks
    <2>4. t \in Seq(Nodes) /\ Distinct(t) /\ ToSet(t) \subseteq ToSet(s)
        BY <1>2, <2>2, RemovedIsDistinct DEF Removed
    <2> HIDE DEF m2, t
    <2>5. \A q \in Lists \ {l} : ToSet(s) \cap ToSet(contents[q]) = {}
                                 /\ ToSet(t) \cap ToSet(contents[q]) = {}
        BY <1>1, <2>4 DEF ListsOK
    <2>6. ListsOK(m2, [contents EXCEPT ![l] = t])
        BY <2>3, <2>4, <2>5, OneList
    <2> QED
        BY <1>1, <2>2, <2>6 DEF t
<1> QED
    BY <1>3, <1>4

\* sys_slist_merge_slist puts one list behind the other.
LEMMA MergeLinks ==
    ASSUME NEW m, IsMemory(m), NEW l \in Lists, NEW other \in Lists, l # other,
           NEW s \in Seq(Nodes), Distinct(s), Linked(m, l, s),
           NEW r \in Seq(Nodes), Distinct(r), Linked(m, other, r), ToSet(s) \cap ToSet(r) = {}
    PROVE  /\ IsMemory(MergeList(m, l, other))
           /\ Linked(MergeList(m, l, other), l, s \o r)
           /\ Linked(MergeList(m, l, other), other, <<>>)
           /\ \A q \in Lists \ {l, other} : /\ MergeList(m, l, other).head[q] = m.head[q]
                                            /\ MergeList(m, l, other).tail[q] = m.tail[q]
           /\ \A x \in Nodes \ ToSet(s) : MergeList(m, l, other).next[x] = m.next[x]
<1> DEFINE m1 == AppendList(m, l, m.head[other], m.tail[other])
           m2 == MergeList(m, l, other)
           t == s \o r
<1>1. PICK k \in Nat, p \in Nat : k = Len(s) /\ p = Len(r)
    BY LenProperties
<1>2. /\ t \in Seq(Nodes) /\ Len(t) = k + p
      /\ \A j \in 1 .. k + p : t[j] = IF j <= k THEN s[j] ELSE r[j - k]
    BY <1>1, TwoPieces
<1>3. /\ DOMAIN s = 1 .. k /\ DOMAIN r = 1 .. p
      /\ \A j \in 1 .. k : s[j] \in Nodes /\ s[j] # NULL
      /\ \A j \in 1 .. p : r[j] \in Nodes /\ r[j] # NULL
    BY <1>1, LenProperties, ElementOfSeq, ListAssumption
<1>4. /\ m.head[l] \in Nodes \cup {NULL} /\ m.tail[l] \in Nodes \cup {NULL}
      /\ m.head[other] \in Nodes \cup {NULL} /\ m.tail[other] \in Nodes \cup {NULL}
    BY MemoryFields
<1>5. m2 = [m1 EXCEPT !.head[other] = NULL, !.tail[other] = NULL]
    BY DEF MergeList, Emptied
<1> HIDE DEF t
<1>6. \A i \in 1 .. p : Node(t, k + i + 1) = Node(r, i + 1) /\ t[k + i] = r[i]
    <2> SUFFICES ASSUME NEW i \in 1 .. p
                 PROVE  Node(t, k + i + 1) = Node(r, i + 1) /\ t[k + i] = r[i]
        OBVIOUS
    <2>1. k + i \in 1 .. k + p /\ ~(k + i <= k) /\ (k + i) - k = i
        OBVIOUS
    <2>2. CASE i = p
        BY <1>1, <1>2, <2>1, <2>2 DEF Node
    <2>3. CASE i # p
        <3>1. /\ k + i + 1 \in 1 .. k + p /\ ~(k + i + 1 <= k) /\ (k + i + 1) - k = i + 1
              /\ i + 1 \in 1 .. p
            BY <2>3
        <3> QED
            BY <1>1, <1>2, <2>1, <3>1 DEF Node
    <2> QED
        BY <2>2, <2>3
\* The pointers of the list that the nodes go to follow from those of m1.
<1>7. ASSUME IsMemory(m1), Linked(m1, l, t),
             \A q \in Lists \ {l} : m1.head[q] = m.head[q] /\ m1.tail[q] = m.tail[q],
             \A x \in Nodes \ ToSet(s) : m1.next[x] = m.next[x]
      PROVE  /\ IsMemory(m2) /\ Linked(m2, l, t) /\ Linked(m2, other, <<>>)
             /\ \A q \in Lists \ {l, other} : m2.head[q] = m.head[q] /\ m2.tail[q] = m.tail[q]
             /\ \A x \in Nodes \ ToSet(s) : m2.next[x] = m.next[x]
    <2> HIDE DEF m1, m2
    <2>1. /\ IsMemory(m2) /\ m2.next = m1.next
          /\ m2.head = [m1.head EXCEPT ![other] = NULL] /\ m2.tail = [m1.tail EXCEPT ![other] = NULL]
        BY <1>5, <1>7 DEF IsMemory
    <2>2. /\ \A q \in Lists \ {other} : m2.head[q] = m1.head[q] /\ m2.tail[q] = m1.tail[q]
          /\ m2.head[other] = NULL /\ m2.tail[other] = NULL
        BY <1>7, <2>1, MemoryFields
    <2>3. Linked(m2, other, <<>>)
        BY <2>2 DEF Linked, Node
    <2>4. Linked(m2, l, t)
        BY <1>7, <2>1, <2>2 DEF Linked
    <2> QED
        BY <1>7, <2>1, <2>2, <2>3, <2>4
<1>8. CASE p = 0
    <2>1. m.head[other] = NULL
        BY <1>1, <1>8 DEF Linked, Node
    <2>2. m1 = m
        BY <2>1 DEF AppendList
    <2>3. t = s
        BY <1>1, <1>2, <1>8
    <2> QED
        BY <1>7, <2>2, <2>3 DEF t
<1>9. CASE p # 0
    <2>1. /\ 1 \in 1 .. p /\ p \in 1 .. p /\ m.head[other] = r[1] /\ m.tail[other] = r[p]
          /\ r[1] \in Nodes /\ r[p] \in Nodes /\ r[1] # NULL /\ r[p] # NULL
        BY <1>1, <1>3, <1>9 DEF Linked, Node
    <2>2. \A i \in 1 .. p : m.next[r[i]] = Node(t, k + i + 1) /\ r[i] \in Nodes \ ToSet(s)
        <3>1. \A i \in 1 .. p : r[i] \in ToSet(r)
            BY <1>3 DEF ToSet
        <3> QED
            BY <1>1, <1>3, <1>6, <3>1 DEF Linked
    <2>3. CASE k = 0
        <3>1. m.tail[l] = NULL
            BY <1>1, <2>3 DEF Linked, Node
        <3>2. m1 = [m EXCEPT !.head[l] = r[1], !.tail[l] = r[p]]
            BY <2>1, <3>1 DEF AppendList
        <3> HIDE DEF m1, m2
        <3>3. /\ IsMemory(m1) /\ m1.next = m.next
              /\ m1.head = [m.head EXCEPT ![l] = r[1]] /\ m1.tail = [m.tail EXCEPT ![l] = r[p]]
            BY <2>1, <3>2 DEF IsMemory
        <3>4. m1.head[l] = r[1] /\ m1.tail[l] = r[p]
            BY <3>3, MemoryFields
        <3>5. \A q \in Lists \ {l} : m1.head[q] = m.head[q] /\ m1.tail[q] = m.tail[q]
            BY <3>3, MemoryFields
        <3>6. \A j \in 1 .. p : t[j] = r[j] /\ m.next[t[j]] = Node(t, j + 1)
            BY <1>1, <1>2, <1>6, <2>2, <2>3
        <3>7. Linked(m1, l, t)
            BY <1>2, <2>1, <2>3, <3>3, <3>4, <3>6 DEF Linked, Node
        <3> QED
            BY <1>7, <3>3, <3>5, <3>7 DEF m1, m2, t
    <2>4. CASE k # 0
        <3>1. /\ k \in 1 .. k /\ m.tail[l] = s[k] /\ s[k] # NULL /\ s[k] \in Nodes
              /\ s[k] \in ToSet(s) /\ 1 \in 1 .. k /\ m.head[l] = s[1]
            BY <1>1, <1>3, <2>4 DEF Linked, Node, ToSet
        <3>2. m1 = [SetNext(m, s[k], r[1]) EXCEPT !.tail[l] = r[p]]
            BY <2>1, <3>1 DEF AppendList
        <3> HIDE DEF m1, m2
        <3>3. /\ IsMemory(m1) /\ m1.next = [m.next EXCEPT ![s[k]] = r[1]]
              /\ m1.head = m.head /\ m1.tail = [m.tail EXCEPT ![l] = r[p]]
            BY <2>1, <3>1, <3>2 DEF SetNext, IsMemory
        <3>4. /\ m1.head[l] = s[1] /\ m1.tail[l] = r[p] /\ m1.next[s[k]] = r[1]
              /\ \A x \in Nodes : x # s[k] => m1.next[x] = m.next[x]
            BY <3>1, <3>3, MemoryFields
        <3>5. \A q \in Lists \ {l} : m1.head[q] = m.head[q] /\ m1.tail[q] = m.tail[q]
            BY <3>3, MemoryFields
        <3>6. ASSUME NEW j \in 1 .. k + p
              PROVE  m1.next[t[j]] = Node(t, j + 1)
            <4>1. CASE j < k
                <5>1. j \in 1 .. k /\ j + 1 \in 1 .. k /\ j # k /\ j + 1 \in 1 .. k + p
                    BY <4>1
                <5>2. t[j] = s[j] /\ Node(t, j + 1) = s[j + 1]
                    BY <1>2, <4>1, <5>1 DEF Node
                <5>3. s[j] # s[k] /\ m.next[s[j]] = s[j + 1]
                    BY <1>1, <3>1, <5>1 DEF Distinct, Linked, Node
                <5> QED
                    BY <1>3, <3>4, <5>1, <5>2, <5>3
            <4>2. CASE j = k
                <5>1. t[j] = s[k] /\ k + 1 \in 1 .. k + p /\ ~(k + 1 <= k) /\ (k + 1) - k = 1
                    BY <1>2, <1>9, <4>2
                <5>2. Node(t, j + 1) = r[1]
                    BY <1>2, <4>2, <5>1 DEF Node
                <5> QED
                    BY <3>4, <5>1, <5>2
            <4>3. CASE j > k
                <5>1. PICK i \in 1 .. p : j = k + i
                    <6>1. j - k \in 1 .. p /\ j = k + (j - k)
                        BY <4>3
                    <6> QED
                        BY <6>1
                <5>2. t[j] = r[i] /\ m.next[r[i]] = Node(t, j + 1) /\ r[i] \in Nodes \ ToSet(s)
                    BY <1>6, <2>2, <5>1
                <5> QED
                    BY <3>1, <3>4, <5>2
            <4> QED
                BY <4>1, <4>2, <4>3
        <3>7. Node(t, 1) = s[1] /\ Node(t, k + p) = r[p]
            <4>1. 1 \in 1 .. k + p /\ 1 <= k /\ k + p \in 1 .. k + p /\ ~(k + p <= k) /\ (k + p) - k = p
                BY <1>9, <2>4
            <4> QED
                BY <1>2, <4>1 DEF Node
        <3>8. Linked(m1, l, t)
            BY <1>2, <3>4, <3>6, <3>7 DEF Linked
        <3>9. \A x \in Nodes \ ToSet(s) : m1.next[x] = m.next[x]
            BY <3>1, <3>4
        <3> QED
            BY <1>7, <3>3, <3>5, <3>8, <3>9 DEF m1, m2, t
    <2> QED
        BY <2>3, <2>4
<1> QED
    BY <1>8, <1>9
LEMMA UnlinkKeeps ==
    ASSUME ListInv, NEW l \in Lists, NEW n \in Nodes, Unlink(l, n)
    PROVE  ListInv'
BY FindAndRemoveKeeps, StepKeeps DEF Unlink, ListInv

LEMMA MergeKeeps ==
    ASSUME ListInv, NEW l \in Lists, NEW other \in Lists, Merge(l, other)
    PROVE  ListInv'
<1> DEFINE m2 == MergeList(mem, l, other)
<1>1. /\ Idle /\ l # other /\ mem' = m2 /\ cursor' = cursor
      /\ contents' = [contents EXCEPT ![l] = contents[l] \o contents[other], ![other] = <<>>]
    BY DEF Merge
<1>2. PICK s \in Seq(Nodes), r \in Seq(Nodes) : s = contents[l] /\ r = contents[other]
    BY DEF ListInv, ListsOK
<1>3. PICK k \in Nat, p \in Nat : k = Len(s) /\ p = Len(r)
    BY LenProperties
<1>4. PICK t \in Seq(Nodes) : t = s \o r
    BY ConcatProperties
<1>5. /\ Len(t) = k + p /\ DOMAIN t = 1 .. k + p /\ DOMAIN s = 1 .. k /\ DOMAIN r = 1 .. p
      /\ \A j \in 1 .. k + p : t[j] = IF j <= k THEN s[j] ELSE r[j - k]
    BY <1>3, <1>4, TwoPieces, LenProperties
<1>6. /\ IsMemory(mem) /\ Distinct(s) /\ Distinct(r) /\ Linked(mem, l, s) /\ Linked(mem, other, r)
      /\ ToSet(s) \cap ToSet(r) = {}
    BY <1>1, <1>2 DEF ListInv, ListsOK
<1>7. \A j \in 1 .. k : s[j] \in ToSet(s)
    BY <1>5 DEF ToSet
<1>8. \A j \in 1 .. p : r[j] \in ToSet(r)
    BY <1>5 DEF ToSet
<1>9. \A j \in 1 .. k + p : t[j] \in ToSet(s) \cup ToSet(r)
    <2>1. \A j \in 1 .. k + p : ~(j <= k) => j - k \in 1 .. p
        OBVIOUS
    <2> QED
        BY <1>5, <1>7, <1>8, <2>1
<1>10. Distinct(t) /\ ToSet(t) \subseteq ToSet(s) \cup ToSet(r)
    <2>1. ASSUME NEW a \in 1 .. k + p, NEW b \in 1 .. k + p, t[a] = t[b]
          PROVE  a = b
        <3>1. CASE a <= k /\ b <= k
            BY <1>3, <1>5, <1>6, <2>1, <3>1 DEF Distinct
        <3>2. CASE ~(a <= k) /\ ~(b <= k)
            <4>1. a - k \in 1 .. p /\ b - k \in 1 .. p /\ r[a - k] = r[b - k]
                BY <1>5, <2>1, <3>2
            <4>2. a - k = b - k
                BY <1>3, <1>6, <4>1 DEF Distinct
            <4> QED
                BY <4>2
        <3>3. CASE a <= k /\ ~(b <= k)
            <4>1. a \in 1 .. k /\ b - k \in 1 .. p /\ s[a] = r[b - k]
                BY <1>5, <2>1, <3>3
            <4> QED
                BY <1>6, <1>7, <1>8, <4>1
        <3>4. CASE ~(a <= k) /\ b <= k
            <4>1. b \in 1 .. k /\ a - k \in 1 .. p /\ s[b] = r[a - k]
                BY <1>5, <2>1, <3>4
            <4> QED
                BY <1>6, <1>7, <1>8, <4>1
        <3> QED
            BY <3>1, <3>2, <3>3, <3>4
    <2>2. ToSet(t) \subseteq ToSet(s) \cup ToSet(r)
        BY <1>5, <1>9 DEF ToSet
    <2> QED
        BY <1>5, <2>1, <2>2 DEF Distinct
<1>11. /\ IsMemory(m2) /\ Linked(m2, l, t) /\ Linked(m2, other, <<>>)
       /\ \A q \in Lists \ {l, other} : m2.head[q] = mem.head[q] /\ m2.tail[q] = mem.tail[q]
       /\ \A x \in Nodes \ ToSet(s) : m2.next[x] = mem.next[x]
    BY <1>1, <1>4, <1>6, MergeLinks
<1> HIDE DEF m2
<1>12. /\ contents' \in [Lists -> Seq(Nodes)] /\ contents'[l] = t /\ contents'[other] = <<>>
       /\ \A q \in Lists \ {l, other} : contents'[q] = contents[q]
    <2>1. /\ contents' = [contents EXCEPT ![l] = t, ![other] = <<>>]
          /\ <<>> \in Seq(Nodes)
        BY <1>1, <1>2, <1>4
    <2> QED
        BY <1>1, <2>1 DEF ListInv, ListsOK
<1>13. \A q \in Lists \ {l, other} : Linked(m2, q, contents[q])
    <2> SUFFICES ASSUME NEW q \in Lists \ {l, other}
                 PROVE  Linked(m2, q, contents[q])
        OBVIOUS
    <2>1. /\ contents[q] \in Seq(Nodes) /\ Linked(mem, q, contents[q])
          /\ ToSet(s) \cap ToSet(contents[q]) = {}
        BY <1>2 DEF ListInv, ListsOK
    <2>2. \A i \in 1 .. Len(contents[q]) :
              contents[q][i] \in ToSet(contents[q]) /\ contents[q][i] \in Nodes
        BY <2>1, LenProperties, ElementOfSeq DEF ToSet
    <2>3. \A i \in 1 .. Len(contents[q]) : m2.next[contents[q][i]] = mem.next[contents[q][i]]
        BY <1>11, <2>1, <2>2
    <2> QED
        BY <1>11, <2>1, <2>3 DEF Linked
<1>14. Distinct(<<>>) /\ ToSet(<<>>) = {}
    BY DEF Distinct, ToSet
<1>15. \A q \in Lists : Distinct(contents'[q]) /\ Linked(m2, q, contents'[q])
    <2> SUFFICES ASSUME NEW q \in Lists
                 PROVE  Distinct(contents'[q]) /\ Linked(m2, q, contents'[q])
        OBVIOUS
    <2>1. CASE q = l
        BY <1>10, <1>11, <1>12, <2>1
    <2>2. CASE q = other
        BY <1>11, <1>12, <1>14, <2>2
    <2>3. CASE q \notin {l, other}
        BY <1>12, <1>13, <2>3 DEF ListInv, ListsOK
    <2> QED
        BY <2>1, <2>2, <2>3
<1>16. \A q \in Lists \ {l} : ToSet(contents'[q]) \cap (ToSet(s) \cup ToSet(r)) = {}
    <2> SUFFICES ASSUME NEW q \in Lists \ {l}
                 PROVE  ToSet(contents'[q]) \cap (ToSet(s) \cup ToSet(r)) = {}
        OBVIOUS
    <2>1. CASE q = other
        BY <1>12, <1>14, <2>1
    <2>2. CASE q # other
        BY <1>2, <1>12, <2>2 DEF ListInv, ListsOK
    <2> QED
        BY <2>1, <2>2
<1>17. \A a, q \in Lists : a # q => ToSet(contents'[a]) \cap ToSet(contents'[q]) = {}
    <2> SUFFICES ASSUME NEW a \in Lists, NEW q \in Lists, a # q
                 PROVE  ToSet(contents'[a]) \cap ToSet(contents'[q]) = {}
        OBVIOUS
    <2>1. CASE a = l \/ q = l
        BY <1>10, <1>12, <1>16, <2>1
    <2>2. CASE a = other \/ q = other
        BY <1>12, <1>14, <2>2
    <2>3. CASE a \notin {l, other} /\ q \notin {l, other}
        BY <1>12, <2>3 DEF ListInv, ListsOK
    <2> QED
        BY <2>1, <2>2, <2>3
<1>18. ListsOK(mem', contents')
    BY <1>1, <1>11, <1>12, <1>15, <1>17 DEF ListsOK
<1> QED
    BY <1>1, <1>18, CallKeeps

\* The node after one of a list is the next one of the list.
LEMMA PeekIsNode ==
    ASSUME NEW m, NEW c, ListsOK(m, c), NEW l \in Lists, NEW j \in 1 .. Len(c[l]) + 1
    PROVE  PeekNext(m, Node(c[l], j)) = Node(c[l], j + 1)
<1>1. c[l] \in Seq(Nodes) /\ Linked(m, l, c[l]) /\ Len(c[l]) \in Nat
    BY LenProperties DEF ListsOK
<1>2. CASE j \in 1 .. Len(c[l])
    <2>1. Node(c[l], j) = c[l][j] /\ c[l][j] \in Nodes /\ c[l][j] # NULL
        BY <1>1, <1>2, ElementOfSeq, ListAssumption DEF Node
    <2> QED
        BY <1>1, <1>2, <2>1 DEF PeekNext, Linked
<1>3. CASE j \notin 1 .. Len(c[l])
    BY <1>1, <1>3 DEF PeekNext, Node
<1> QED
    BY <1>2, <1>3

LEMMA NodeType ==
    ASSUME NEW s \in Seq(Nodes), NEW j
    PROVE  Node(s, j) \in Nodes \cup {NULL}
BY ElementOfSeq DEF Node

LEMMA IterateBeginKeeps ==
    ASSUME ListInv, NEW l \in Lists, IterateBegin(l)
    PROVE  ListInv'
<1> DEFINE c == contents[l]
<1>1. ListsOK(mem', contents') /\ mem' = mem /\ contents' = contents
    BY DEF IterateBegin, ListInv
<1>2. c \in Seq(Nodes) /\ Len(c) \in Nat /\ Linked(mem, l, c)
    BY LenProperties DEF ListInv, ListsOK
<1>3. mem.head[l] = Node(c, 1) /\ PeekNext(mem, mem.head[l]) = Node(c, 2)
    BY <1>2, PeekIsNode DEF ListInv, Linked
<1>4. /\ cursor' \in [list : Lists \cup {NULL}, sn : Nodes \cup {NULL}, sns : Nodes \cup {NULL},
                      seen : Seq(Nodes), all : Seq(Nodes)]
      /\ cursor'.list = l /\ cursor'.sn = Node(c, 1) /\ cursor'.sns = Node(c, 2)
      /\ cursor'.seen = <<>> /\ cursor'.all = c
    <2>1. cursor' = [[cursor EXCEPT !.list = l, !.sn = Node(c, 1), !.sns = Node(c, 2)]
                        EXCEPT !.seen = <<>>, !.all = c]
        BY <1>3 DEF IterateBegin, Visit
    <2>2. Node(c, 1) \in Nodes \cup {NULL} /\ Node(c, 2) \in Nodes \cup {NULL}
        BY <1>2, NodeType
    <2>3. <<>> \in Seq(Nodes)
        OBVIOUS
    <2> HIDE DEF c
    <2> QED
        BY <1>2, <2>1, <2>2, <2>3 DEF ListInv, CursorOK
<1>5. CursorAt(1)'
    BY <1>1, <1>2, <1>4 DEF CursorAt
<1>6. 1 \in 1 .. Len(contents'[cursor'.list]) + 1
    BY <1>1, <1>2, <1>4
<1> QED
    BY <1>1, <1>4, <1>5, <1>6 DEF ListInv, CursorOK

LEMMA IterateKeeps ==
    ASSUME ListInv, NEW removes \in BOOLEAN, Iterate(removes)
    PROVE  ListInv'
<1> DEFINE l == cursor.list
           c == contents[l]
           n == cursor.sn
<1>1. /\ l \in Lists /\ n \in Nodes /\ cursor.sns \in Nodes \cup {NULL}
      /\ cursor.seen \in Seq(Nodes) /\ cursor.all \in Seq(Nodes)
      /\ c \in Seq(Nodes) /\ Distinct(c) /\ Linked(mem, l, c) /\ IsMemory(mem)
    BY DEF ListInv, ListsOK, CursorOK, Iterate, Idle
<1>2. PICK k \in Nat, h \in Nat : k = Len(c) /\ h = Len(cursor.seen)
    BY <1>1, LenProperties
<1>3. PICK j \in 1 .. k + 1 : CursorAt(j)
    BY <1>1, <1>2 DEF ListInv, CursorOK, Iterate, Idle
<1>4. j \in 1 .. k /\ n = c[j] /\ cursor.sns = Node(c, j + 1)
    BY <1>1, <1>2, <1>3, ListAssumption DEF CursorAt, Node
<1>5. /\ Len(cursor.all) = h + (k + 1 - j)
      /\ \A a \in 1 .. h : cursor.all[a] = cursor.seen[a]
      /\ \A b \in j .. k : cursor.all[h + (b + 1 - j)] = c[b]
    BY <1>2, <1>3 DEF CursorAt
<1>6. /\ Append(cursor.seen, n) \in Seq(Nodes) /\ Len(Append(cursor.seen, n)) = h + 1
      /\ Append(cursor.seen, n)[h + 1] = n
      /\ \A a \in 1 .. h : Append(cursor.seen, n)[a] = cursor.seen[a]
    BY <1>1, <1>2, AppendProperties
<1>7. \A a \in 1 .. h + 1 : cursor.all[a] = Append(cursor.seen, n)[a]
    <2>1. j \in j .. k /\ h + (j + 1 - j) = h + 1
        BY <1>4
    <2>2. cursor.all[h + 1] = n
        BY <1>4, <1>5, <2>1
    <2>3. \A a \in 1 .. h + 1 : a \in 1 .. h \/ a = h + 1
        OBVIOUS
    <2> QED
        BY <1>5, <1>6, <2>2, <2>3
\* Where the iteration goes on: in what is left of the list, at position i.
<1>8. ASSUME NEW t \in Seq(Nodes), NEW i \in 1 .. Len(t) + 1, ListsOK(mem', contents'),
             contents'[l] = t, Node(t, i) = Node(c, j + 1), Len(t) + 1 - i = k - j,
             \A b \in i .. Len(t) : t[b] = c[b + (j + 1 - i)],
             cursor' = [Visit(mem', l, cursor.sns) EXCEPT !.seen = Append(cursor.seen, n)]
      PROVE  ListInv'
    <2>1. PICK u \in Nat : u = Len(t)
        BY LenProperties
    <2>2. PeekNext(mem', cursor.sns) = Node(t, i + 1)
        <3>1. IsMemory(mem') /\ Linked(mem', l, t) /\ cursor.sns = Node(t, i)
            BY <1>1, <1>4, <1>8 DEF ListsOK
        <3> HIDE DEF l, c, n
        <3>2. PeekNext(mem', Node(t, i)) = Node(t, i + 1)
            BY <1>1, <1>8, <3>1, PeekIsNode
        <3> QED
            BY <3>1, <3>2
    <2>3. cursor' = [[cursor EXCEPT !.list = l, !.sn = Node(t, i), !.sns = Node(t, i + 1)]
                        EXCEPT !.seen = Append(cursor.seen, n)]
        BY <1>4, <1>8, <2>2 DEF Visit
    <2>4. Node(t, i) \in Nodes \cup {NULL} /\ Node(t, i + 1) \in Nodes \cup {NULL}
        BY NodeType
    <2> HIDE DEF l, n, c
    <2>5. /\ cursor' \in [list : Lists \cup {NULL}, sn : Nodes \cup {NULL}, sns : Nodes \cup {NULL},
                          seen : Seq(Nodes), all : Seq(Nodes)]
          /\ cursor'.list = l /\ cursor'.sn = Node(t, i) /\ cursor'.sns = Node(t, i + 1)
          /\ cursor'.seen = Append(cursor.seen, n) /\ cursor'.all = cursor.all
        BY <1>1, <1>6, <2>3, <2>4 DEF ListInv, CursorOK
    <2>6. Len(cursor.all) = (h + 1) + (u + 1 - i)
        BY <1>5, <1>8, <2>1
    <2>7. ASSUME NEW b \in i .. u
          PROVE  cursor.all[(h + 1) + (b + 1 - i)] = t[b]
        <3>1. PICK d \in j .. k : d = b + (j + 1 - i)
            BY <1>8, <2>1
        <3>2. h + (d + 1 - j) = (h + 1) + (b + 1 - i)
            BY <3>1
        <3> QED
            BY <1>5, <1>8, <2>1, <3>1, <3>2
    <2>8. CursorAt(i)'
        BY <1>6, <1>7, <1>8, <2>1, <2>5, <2>6, <2>7 DEF CursorAt
    <2> QED
        BY <1>8, <2>5, <2>8 DEF ListInv, CursorOK
<1>9. CASE removes
    <2> DEFINE t == RemoveFirst(c, n)
    <2>1. /\ mem' = FindAndRemove(mem, l, n) /\ contents' = [contents EXCEPT ![l] = t]
          /\ cursor' = [Visit(mem', l, cursor.sns) EXCEPT !.seen = Append(cursor.seen, n)]
        <3>1. Visit(mem', l, cursor.sns).seen = cursor.seen
            BY DEF Visit, ListInv, CursorOK
        <3> QED
            BY <1>9, <3>1 DEF Iterate, NextNode
    <2>2. ListsOK(mem', contents') /\ contents'[l] = t
        BY <1>1, <2>1, FindAndRemoveKeeps DEF ListInv, ListsOK
    <2>3. Removed(c, t, j)
        BY <1>1, <1>2, <1>4, FoundLinks
    <2> HIDE DEF t
    <2>4. /\ t \in Seq(Nodes) /\ Len(t) = k - 1 /\ j \in 1 .. Len(t) + 1
          /\ \A b \in 1 .. k - 1 : t[b] = IF b < j THEN c[b] ELSE c[b + 1]
        BY <1>2, <1>4, <2>3 DEF Removed
    <2>5. Node(t, j) = Node(c, j + 1)
        BY <1>2, <1>4, <2>4 DEF Node
    <2>6. Len(t) + 1 - j = k - j
        BY <1>4, <2>4
    <2>7. \A b \in j .. Len(t) : t[b] = c[b + (j + 1 - j)]
        <3>1. \A b \in j .. k - 1 : b \in 1 .. k - 1 /\ ~(b < j) /\ b + (j + 1 - j) = b + 1
            BY <1>4
        <3> QED
            BY <2>4, <3>1
    <2> QED
        BY <1>8, <2>1, <2>2, <2>4, <2>5, <2>6, <2>7
<1>10. CASE ~removes
    <2>1. /\ mem' = mem /\ contents' = contents
          /\ cursor' = [Visit(mem', l, cursor.sns) EXCEPT !.seen = Append(cursor.seen, n)]
        <3>1. Visit(mem', l, cursor.sns).seen = cursor.seen
            BY DEF Visit, ListInv, CursorOK
        <3>2. [contents EXCEPT ![l] = contents[l]] = contents
            BY DEF ListInv, ListsOK
        <3> QED
            BY <1>10, <3>1, <3>2 DEF Iterate, NextNode
    <2>2. ListsOK(mem', contents') /\ contents'[l] = c
        BY <2>1 DEF ListInv
    <2> HIDE DEF c
    <2>3. PICK i \in Nat : i = j + 1
        BY <1>4
    <2>4. i \in 1 .. Len(c) + 1
        BY <1>2, <1>4, <2>3
    <2>5. Len(c) + 1 - i = k - j
        BY <1>2, <1>4, <2>3
    <2>6. \A b \in i .. Len(c) : c[b] = c[b + (j + 1 - i)]
        <3>1. ASSUME NEW b \in i .. Len(c)
              PROVE  b + (j + 1 - i) = b
            BY <1>4, <2>3
        <3> QED
            BY <3>1
    <2> QED
        BY <1>1, <1>8, <2>1, <2>2, <2>3, <2>4, <2>5, <2>6
<1> QED
    BY <1>9, <1>10

LEMMA IterateEndKeeps ==
    ASSUME ListInv, IterateEnd
    PROVE  ListInv'
<1>1. Over \in [list : Lists \cup {NULL}, sn : Nodes \cup {NULL}, sns : Nodes \cup {NULL},
                seen : Seq(Nodes), all : Seq(Nodes)]
      /\ Over.list = NULL
    BY DEF Over
<1> QED
    BY <1>1 DEF IterateEnd, ListInv, CursorOK

LEMMA ListNextInv == ListInv /\ [ListNext]_listVars => ListInv'
<1> SUFFICES ASSUME ListInv, [ListNext]_listVars
             PROVE  ListInv'
    OBVIOUS
<1>1. CASE \E l \in Lists : GetNode(l)
    BY <1>1, GetNodeKeeps
<1>2. CASE \E l \in Lists : IterateBegin(l)
    BY <1>2, IterateBeginKeeps
<1>3. CASE \E l \in Lists, n \in Nodes : Add(l, n)
    BY <1>3, AddKeeps
<1>4. CASE \E l \in Lists, n \in Nodes : Unlink(l, n)
    BY <1>4, UnlinkKeeps
<1>5. CASE \E l \in Lists, other \in Lists : Merge(l, other)
    BY <1>5, MergeKeeps
<1>6. CASE \E removes \in BOOLEAN : Iterate(removes)
    BY <1>6, IterateKeeps
<1>7. CASE IterateEnd
    BY <1>7, IterateEndKeeps
<1>8. CASE UNCHANGED listVars
    BY <1>8 DEF listVars, ListInv, CursorOK, CursorAt
<1> QED
    BY <1>1, <1>2, <1>3, <1>4, <1>5, <1>6, <1>7, <1>8 DEF ListNext

LEMMA ListInvGives == ListInv => ListsAgree
<1> SUFFICES ASSUME ListInv
             PROVE  ListsAgree
    OBVIOUS
<1>1. ASSUME NEW l \in Lists
      PROVE  /\ Walk(mem, l) = contents[l]
             /\ mem.tail[l] = IF contents[l] = <<>> THEN NULL ELSE Last(contents[l])
             /\ contents[l] # <<>> => mem.next[mem.tail[l]] = NULL
    <2>1. PICK s \in Seq(Nodes) : s = contents[l] /\ Distinct(s) /\ Linked(mem, l, s)
        BY DEF ListInv, ListsOK
    <2>2. Walk(mem, l) = s
        BY <2>1, WalkIsList
    <2>3. PICK k \in Nat : k = Len(s) /\ (s = <<>> <=> k = 0)
        BY LenProperties, EmptySeq
    <2>4. CASE k = 0
        BY <2>1, <2>2, <2>3, <2>4 DEF Linked, Node
    <2>5. CASE k # 0
        <3>1. k \in 1 .. k /\ mem.tail[l] = s[k] /\ mem.next[s[k]] = NULL
            BY <2>1, <2>3, <2>5 DEF Linked, Node
        <3> QED
            BY <2>1, <2>2, <2>3, <3>1 DEF Last
    <2> QED
        BY <2>4, <2>5
<1>2. ~Idle /\ cursor.sn = NULL => cursor.seen = cursor.all
    <2> SUFFICES ASSUME ~Idle, cursor.sn = NULL
                 PROVE  cursor.seen = cursor.all
        OBVIOUS
    <2>1. PICK c \in Seq(Nodes) : c = contents[cursor.list] /\ cursor.list \in Lists
        BY DEF ListInv, ListsOK, CursorOK, Idle
    <2>2. cursor.seen \in Seq(Nodes) /\ cursor.all \in Seq(Nodes)
        BY DEF ListInv, CursorOK
    <2>3. PICK k \in Nat, h \in Nat : k = Len(c) /\ h = Len(cursor.seen)
        BY <2>2, LenProperties
    <2>4. PICK j \in 1 .. k + 1 : CursorAt(j)
        BY <2>1, <2>3 DEF ListInv, CursorOK, Idle
    <2>5. j = k + 1
        <3>1. j \in 1 .. k => c[j] \in Nodes
            BY <2>3, ElementOfSeq
        <3>2. j \notin 1 .. k
            BY <2>1, <2>3, <2>4, <3>1, ListAssumption DEF CursorAt, Node
        <3> QED
            BY <3>2
    <2>6. /\ Len(cursor.all) = Len(cursor.seen) + (Len(c) + 1 - j)
          /\ \A a \in 1 .. Len(cursor.seen) : cursor.all[a] = cursor.seen[a]
        BY <2>1, <2>4 DEF CursorAt
    <2>7. h + (k + 1 - j) = h
        BY <2>5
    <2>8. Len(cursor.all) = h /\ \A a \in 1 .. h : cursor.all[a] = cursor.seen[a]
        BY <2>3, <2>6, <2>7
    <2> QED
        BY <2>2, <2>3, <2>8, SeqEqual
<1> QED
    BY <1>1, <1>2 DEF ListsAgree

\* Intrusive lists, for any numbers of lists and nodes and any sequence of calls:
\* the pointers are the lists that the calls made, and a safe iteration sees
\* each node once although its body removes nodes.
THEOREM ListsAgreeCorrect == ListSpec => []ListsAgree
BY ListInitInv, ListNextInv, ListInvGives, PTL DEF ListSpec

-----------------------------------------------------------------------------
(* Values: any widths, clock, zone, buffers, arguments and mounts.  First  *)
(* bit fields.                                                             *)

\* Below the width of the shifted type a mask has the n lowest bits.
LEMMA LowMaskIs ==
    ASSUME NEW w \in Nat, NEW n \in 0 .. w, n < Promoted(w)
    PROVE  LowMasks(w, n) = {Word(n)}
<1>1. {b \in Word(w) : b < n} = Word(n)
    BY DEF Word
<1> QED
    BY <1>1 DEF LowMasks

\* The bits of a field after it was set.
LEMMA FieldIsSet ==
    ASSUME NEW w \in Nat, NEW lsb \in Word(w), NEW n \in 1 .. w - lsb,
           NEW word \in SUBSET Word(w), NEW value \in SUBSET Word(w), n < Promoted(w),
           NEW new \in SetBitfield(w, word, lsb, n, value)
    PROVE  /\ new \subseteq Word(w)
           /\ \A b \in Word(w) :
                b \in new <=> IF b \in lsb .. lsb + n - 1 THEN b - lsb \in value ELSE b \in word
<1>0. n \in 0 .. w /\ lsb \in 0 .. w - 1 /\ lsb + n <= w
    BY DEF Word
<1>1. LowMasks(w, n) = {Word(n)}
    BY <1>0, LowMaskIs
<1> DEFINE field == ShiftLeft(w, Word(n), lsb)
           put == ShiftLeft(w, value \cap Word(n), lsb)
<1>2. new = (word \ field) \cup put
    BY <1>1 DEF SetBitfield, Cleared
<1>3. \A b \in Word(w) : b \in field <=> b \in lsb .. lsb + n - 1
    <2> SUFFICES ASSUME NEW b \in Word(w)
                 PROVE  b \in field <=> b \in lsb .. lsb + n - 1
        OBVIOUS
    <2>1. b \in field => b \in lsb .. lsb + n - 1
        BY <1>0 DEF ShiftLeft, Word
    <2>2. ASSUME b \in lsb .. lsb + n - 1
          PROVE  b \in field
        <3>1. b - lsb \in Word(n) /\ (b - lsb) + lsb = b
            BY <1>0, <2>2 DEF Word
        <3> QED
            BY <3>1 DEF ShiftLeft
    <2> QED
        BY <2>1, <2>2
<1>4. \A b \in Word(w) : b \in put <=> b \in lsb .. lsb + n - 1 /\ b - lsb \in value
    <2> SUFFICES ASSUME NEW b \in Word(w)
                 PROVE  b \in put <=> b \in lsb .. lsb + n - 1 /\ b - lsb \in value
        OBVIOUS
    <2>1. ASSUME b \in put
          PROVE  b \in lsb .. lsb + n - 1 /\ b - lsb \in value
        <3>1. PICK a \in value \cap Word(n) : b = a + lsb
            BY <2>1 DEF ShiftLeft
        <3>2. a \in 0 .. n - 1
            BY <3>1 DEF Word
        <3>3. b - lsb = a /\ b \in lsb .. lsb + n - 1
            BY <1>0, <3>1, <3>2
        <3> QED
            BY <3>1, <3>3
    <2>2. ASSUME b \in lsb .. lsb + n - 1, b - lsb \in value
          PROVE  b \in put
        <3>1. b - lsb \in value \cap Word(n) /\ (b - lsb) + lsb = b
            BY <1>0, <2>2 DEF Word
        <3> QED
            BY <3>1 DEF ShiftLeft
    <2> QED
        BY <2>1, <2>2
<1>5. put \subseteq Word(w)
    BY DEF ShiftLeft
<1> HIDE DEF field, put
<1> QED
    BY <1>2, <1>3, <1>4, <1>5

\* A legal field.
LEMMA FieldCorrect ==
    ASSUME NEW c, IsField(c)
    PROVE  FieldReadsBack(c)
<1> SUFFICES ASSUME c.n < Promoted(c.width),
                    NEW new \in SetBitfield(c.width, c.word, c.lsb, c.n, c.value)
             PROVE  /\ GetBitfield(c.width, new, c.lsb, c.n) = {c.value \cap Word(c.n)}
                    /\ \A b \in Word(c.width) : b \notin c.lsb .. c.lsb + c.n - 1 =>
                          CheckBit(c.width, new, b) = {(b \in c.word)}
    BY DEF FieldReadsBack
<1>1. PICK w, lsb, n, word, value : /\ w = c.width /\ lsb = c.lsb /\ n = c.n
                                    /\ word = c.word /\ value = c.value
    OBVIOUS
<1>2. /\ w \in Nat /\ lsb \in Word(w) /\ n \in 1 .. w - lsb
      /\ word \in SUBSET Word(w) /\ value \in SUBSET Word(w)
    BY <1>1 DEF IsField
<1>3. n \in 0 .. w /\ lsb \in 0 .. w - 1 /\ lsb + n <= w /\ n \in Nat
    BY <1>2 DEF Word
<1>4. n < Promoted(w) /\ new \in SetBitfield(w, word, lsb, n, value)
    BY <1>1
<1>5. /\ new \subseteq Word(w)
      /\ \A b \in Word(w) :
            b \in new <=> IF b \in lsb .. lsb + n - 1 THEN b - lsb \in value ELSE b \in word
    BY <1>2, <1>4, FieldIsSet
<1>6. GetBitfield(w, new, lsb, n) = {value \cap Word(n)}
    <2>1. GetBitfield(w, new, lsb, n) = {ShiftRight(w, new, lsb) \cap Word(n)}
        BY <1>2, <1>3, <1>4, LowMaskIs DEF GetBitfield
    <2>2. ASSUME NEW a \in ShiftRight(w, new, lsb) \cap Word(n)
          PROVE  a \in value
        <3>1. PICK b \in new : a = b - lsb
            BY <2>2 DEF ShiftRight
        <3>2. b \in Word(w) /\ a \in 0 .. n - 1 /\ b \in 0 .. w - 1
            BY <1>5, <2>2, <3>1 DEF Word
        <3>3. b \in lsb .. lsb + n - 1
            BY <1>3, <3>1, <3>2
        <3> QED
            BY <1>5, <3>1, <3>2, <3>3
    <2>3. ASSUME NEW a \in value \cap Word(n)
          PROVE  a \in ShiftRight(w, new, lsb)
        <3>1. a \in 0 .. n - 1 /\ a \in Word(w)
            BY <1>2, <2>3 DEF Word
        <3>2. a + lsb \in lsb .. lsb + n - 1 /\ a + lsb \in 0 .. w - 1 /\ (a + lsb) - lsb = a
            BY <1>2, <1>3, <3>1
        <3>3. a + lsb \in new
            BY <1>5, <2>3, <3>2 DEF Word
        <3>4. \E b \in new : a = b - lsb
            BY <3>2, <3>3
        <3> QED
            BY <3>1, <3>4 DEF ShiftRight
    <2> QED
        BY <2>1, <2>2, <2>3
<1>7. ASSUME NEW b \in Word(w), b \notin lsb .. lsb + n - 1
      PROVE  CheckBit(w, new, b) = {(b \in word)}
    <2>1. b < Promoted(w)
        BY <1>2, <1>7, ValuesAssumption DEF Promoted, Word, ValuesAssumption
    <2>2. {b} \cap Word(w) = {b}
        BY <1>7
    <2>3. Masks(w, b) = {{b}}
        BY <2>1, <2>2 DEF Masks
    <2>4. CheckBit(w, new, b) = {new \cap {b} # {}}
        BY <2>3 DEF CheckBit
    <2>5. (new \cap {b} # {}) = (b \in word)
        BY <1>5, <1>7
    <2> QED
        BY <2>4, <2>5
<1> QED
    BY <1>1, <1>6, <1>7

\* A legal bit.
LEMMA BitCorrect ==
    ASSUME NEW c, IsBit(c)
    PROVE  BitReadsBack(c)
<1> SUFFICES ASSUME c.bit < c.width,
                    NEW new \in SetBit(c.width, c.word, c.bit, c.value)
             PROVE  /\ CheckBit(c.width, new, c.bit) = {c.value}
                    /\ SetFlags(c.width, c.word, c.bit, <<c.value>>) = new
                    /\ GetFlags(c.width, new, c.bit, 1) = <<c.value>>
    BY DEF BitReadsBack
<1>1. PICK w, bit, word, value : w = c.width /\ bit = c.bit /\ word = c.word /\ value = c.value
    OBVIOUS
<1>2. w \in Nat /\ bit \in 0 .. w - 1 /\ word \subseteq Word(w) /\ value \in BOOLEAN
    BY <1>1 DEF IsBit
<1>3. Masks(w, bit) = {{bit}}
    <2>1. bit < Promoted(w)
        BY <1>2, ValuesAssumption DEF Promoted, ValuesAssumption
    <2>2. {bit} \cap Word(w) = {bit}
        BY <1>2 DEF Word
    <2> QED
        BY <2>1, <2>2 DEF Masks
<1>4. new = IF value THEN word \cup {bit} ELSE word \ {bit}
    BY <1>1, <1>3 DEF SetBit
<1>5. (bit \in new) = value
    BY <1>2, <1>4
<1>6. CheckBit(w, new, bit) = {value}
    <2>1. CheckBit(w, new, bit) = {new \cap {bit} # {}}
        BY <1>3 DEF CheckBit
    <2>2. (new \cap {bit} # {}) = (bit \in new)
        OBVIOUS
    <2> QED
        BY <1>5, <2>1, <2>2
<1>7. SetFlags(w, word, bit, <<value>>) = new
    <2>1. ASSUME NEW b \in Word(w)
          PROVE  (b \in SetFlags(w, word, bit, <<value>>)) <=> (b \in new)
        <3>1. Len(<<value>>) = 1 /\ <<value>>[1] = value
            OBVIOUS
        <3>2. b - bit \in 0 .. 1 - 1 <=> b = bit
            BY <1>2 DEF Word
        <3>3. b = bit => b - bit + 1 = 1
            BY <1>2 DEF Word
        <3>4. b \in SetFlags(w, word, bit, <<value>>) <=> IF b = bit THEN value ELSE b \in word
            BY <3>1, <3>2, <3>3 DEF SetFlags
        <3> QED
            BY <1>4, <1>5, <3>4
    <2>2. new \subseteq Word(w) /\ SetFlags(w, word, bit, <<value>>) \subseteq Word(w)
        BY <1>2, <1>4 DEF SetFlags, Word
    <2> QED
        BY <2>1, <2>2
<1>8. GetFlags(w, new, bit, 1) = <<value>>
    <2>1. \A i \in 1 .. 1 : (bit + i - 1 \in new) = value
        BY <1>2, <1>5
    <2>2. GetFlags(w, new, bit, 1) = [i \in 1 .. 1 |-> value]
        BY <2>1 DEF GetFlags
    <2> QED
        BY <2>2
<1> QED
    BY <1>1, <1>6, <1>7, <1>8

-----------------------------------------------------------------------------
(* Division.                                                               *)

\* The quotient and the rest.
LEMMA Divides ==
    ASSUME NEW x \in Nat, NEW y \in Nat \ {0}
    PROVE  /\ x \div y \in Nat
           /\ \E r \in 0 .. y - 1 : x = y * (x \div y) + r
<1>1. x \div y \in Nat
    OBVIOUS
<1>2. x % y \in 0 .. y - 1
    OBVIOUS
<1>3. x = y * (x \div y) + (x % y)
    OBVIOUS
<1> QED
    BY <1>1, <1>2, <1>3

LEMMA TimesIsNat ==
    ASSUME NEW a \in Nat, NEW b \in Nat
    PROVE  a * b \in Nat /\ a * b = b * a
    OBVIOUS

LEMMA TimesMonotone ==
    ASSUME NEW y \in Nat, NEW a \in Int, NEW b \in Int, a <= b
    PROVE  y * a <= y * b
    OBVIOUS

\* A legal number of objects.
LEMMA BlockCorrect ==
    ASSUME NEW c, IsBlock(c)
    PROVE  BlockIsLargeEnough(c)
<1> SUFFICES ASSUME c.n <= MaxSize(c.align, c.size),
                    NEW block \in Blocks(c.align, c.n, c.size) \ {0}
             PROVE  block = c.n * c.size /\ block + c.align < 2 ^ SizeWidth
    BY DEF BlockIsLargeEnough
<1>1. PICK M, align, n, each : M = 2 ^ SizeWidth /\ align = c.align /\ n = c.n /\ each = c.size
    OBVIOUS
<1>2. /\ M \in Nat \ {0} /\ align \in 0 .. M - 1
      /\ n \in 0 .. M - 1 /\ each \in 1 .. M - 1
    BY <1>1, ValuesAssumption DEF IsBlock, ValuesAssumption
<1>3. PICK room : room = M - 1 - align
    OBVIOUS
<1>4. room \in Nat /\ each \in Nat \ {0}
    BY <1>2, <1>3
<1>5. n <= room \div each
    BY <1>1, <1>3 DEF MaxSize
<1>6. PICK r \in 0 .. each - 1 : room = each * (room \div each) + r
    BY <1>4, Divides
<1>7. room \div each \in Nat
    BY <1>4, Divides
<1>8. each * n <= each * (room \div each)
    BY <1>2, <1>4, <1>5, <1>7, TimesMonotone
<1>9. each * n \in Nat /\ n * each = each * n /\ each * (room \div each) \in Nat
    BY <1>2, <1>4, <1>7, TimesIsNat
<1>10. PICK need : need = n * each
    OBVIOUS
<1>11. need \in Nat /\ need <= room
    <2>1. PICK most : most = each * (room \div each)
        OBVIOUS
    <2>2. most \in Nat /\ need <= most /\ room = most + r /\ need \in Nat
        BY <1>6, <1>8, <1>9, <1>10, <2>1
    <2> QED
        BY <1>4, <2>2
<1>12. need < M /\ need + align < M
    BY <1>2, <1>3, <1>11
<1>13. block = need
    <2>1. block = need % M
        BY <1>1, <1>10 DEF Blocks, Product
    <2>2. need % M = need
        BY <1>2, <1>11, <1>12
    <2> QED
        BY <2>1, <2>2
<1> QED
    BY <1>1, <1>10, <1>12, <1>13

\* A quotient is the only one with a rest below the divisor.
LEMMA QuotientIs ==
    ASSUME NEW x \in Nat, NEW y \in Nat \ {0}, NEW k \in Int, NEW r \in 0 .. y - 1,
           x = y * k + r
    PROVE  x \div y = k /\ k \in Nat
<1>1. x \div y \in Nat
    BY Divides
<1>2. PICK p : p = x \div y
    OBVIOUS
<1>3. PICK s \in 0 .. y - 1 : x = y * p + s
    BY <1>2, Divides
<1>4. p \in Nat
    BY <1>1, <1>2
<1>5. ~(p < k)
    <2> SUFFICES ASSUME p + 1 <= k PROVE FALSE
        BY <1>4
    <2>1. y * (p + 1) <= y * k
        BY <1>4, TimesMonotone
    <2>2. y * (p + 1) = y * p + y /\ y * p \in Int /\ y * k \in Int
        BY <1>4
    <2>3. y * p + y <= y * k
        BY <2>1, <2>2
    <2> QED
        BY <1>3, <2>2, <2>3
<1>6. ~(k < p)
    <2> SUFFICES ASSUME k + 1 <= p PROVE FALSE
        BY <1>4
    <2>1. y * (k + 1) <= y * p
        BY <1>4, TimesMonotone
    <2>2. y * (k + 1) = y * k + y /\ y * p \in Int /\ y * k \in Int
        BY <1>4
    <2>3. y * k + y <= y * p
        BY <2>1, <2>2
    <2> QED
        BY <1>3, <2>2, <2>3
<1> QED
    BY <1>2, <1>4, <1>5, <1>6

-----------------------------------------------------------------------------
(* Dates: an instant is k seconds, u microseconds and e ticks away from    *)
(* the epoch.                                                              *)

LEMMA SecondIs == Second = Micros * MicroTicks /\ Second \in Nat \ {0} /\ MicroTicks <= Second
<1>1. PICK m, n : m = Micros /\ n = MicroTicks
    OBVIOUS
<1>2. m \in Nat \ {0} /\ n \in Nat \ {0}
    BY <1>1, ValuesAssumption DEF ValuesAssumption
<1>3. 1 <= m
    BY <1>2
<1>4. n * 1 <= n * m
    BY <1>2, <1>3, TimesMonotone
<1>5. n * 1 = n /\ n * m = m * n /\ m * n \in Nat
    BY <1>2
<1> QED
    BY <1>1, <1>2, <1>4, <1>5 DEF Second

LEMMA Parts ==
    ASSUME NEW a \in Nat
    PROVE  \E k \in Nat, u \in 0 .. Micros - 1, e \in 0 .. MicroTicks - 1 :
              /\ a = Second * k + (MicroTicks * u + e)
              /\ MicroTicks * u + e \in 0 .. Second - 1
              /\ a \div Second = k
              /\ (MicroTicks * u + e) \div MicroTicks = u
              /\ a \div MicroTicks = Micros * k + u
<1>1. PICK S, T, M : S = Second /\ T = MicroTicks /\ M = Micros
    OBVIOUS
<1>2. S \in Nat \ {0} /\ T \in Nat \ {0} /\ M \in Nat \ {0} /\ S = M * T
    BY <1>1, SecondIs, ValuesAssumption DEF ValuesAssumption
<1>3. PICK k : k = a \div S
    OBVIOUS
<1>4. k \in Nat
    BY <1>2, <1>3, Divides
<1>5. PICK r \in 0 .. S - 1 : a = S * k + r
    BY <1>2, <1>3, Divides
<1>6. r \in Nat
    BY <1>2
<1>7. PICK u : u = r \div T
    OBVIOUS
<1>8. u \in Nat
    BY <1>2, <1>6, <1>7, Divides
<1>9. PICK e \in 0 .. T - 1 : r = T * u + e
    BY <1>2, <1>6, <1>7, Divides
<1>10. u <= M - 1
    <2> SUFFICES ASSUME M <= u PROVE FALSE
        BY <1>2, <1>8
    <2>1. T * M <= T * u
        BY <1>2, <1>8, TimesMonotone
    <2>2. T * M = S /\ T * u \in Nat
        BY <1>2, <1>8
    <2>3. S <= T * u
        BY <2>1, <2>2
    <2> QED
        BY <1>2, <1>5, <1>9, <2>2, <2>3
<1>11. a \div T = M * k + u
    <2>1. PICK q : q = M * k + u
        OBVIOUS
    <2>2. q \in Nat
        BY <1>2, <1>4, <1>8, <2>1
    <2>3. S * k = T * (M * k)
        BY <1>2, <1>4
    <2>4. T * q = T * (M * k) + T * u
        BY <1>2, <1>4, <1>8, <2>1
    <2>5. T * (M * k) \in Nat /\ T * u \in Nat /\ T * q \in Nat
        BY <1>2, <1>4, <1>8, <2>2
    <2>6. a = T * q + e
        BY <1>2, <1>5, <1>9, <2>3, <2>4, <2>5
    <2>7. a \div T = q
        BY <1>2, <2>2, <2>6, QuotientIs
    <2> QED
        BY <2>1, <2>7
<1>12. u \in 0 .. M - 1 /\ T * u + e \in 0 .. S - 1
    BY <1>2, <1>5, <1>8, <1>9, <1>10
<1> QED
    BY <1>1, <1>3, <1>4, <1>5, <1>7, <1>9, <1>11, <1>12

\* What the operators of a date give, for its parts.
DateIs(t, s, m, back) ==
    /\ s \in {Cut(t, Second), Cut(t, Second) - 1}
    /\ m \in 0 .. Micros - 1 /\ MicroOf(t) = m
    /\ Cut(t - m * MicroTicks, Second) = s
    /\ s * Second + m * MicroTicks = back
    /\ MicroTicks * Cut(t, MicroTicks) = back

LEMMA AfterTheEpoch ==
    ASSUME NEW t \in Nat
    PROVE  \E s, m, back \in Int : DateIs(t, s, m, back)
<1>1. PICK S, T, M : S = Second /\ T = MicroTicks /\ M = Micros
    OBVIOUS
<1>2. S \in Nat \ {0} /\ T \in Nat \ {0} /\ M \in Nat \ {0} /\ S = M * T /\ T <= S
    BY <1>1, SecondIs, ValuesAssumption DEF ValuesAssumption
<1>3. PICK k \in Nat, u \in 0 .. M - 1, e \in 0 .. T - 1 :
              /\ t = S * k + (T * u + e)
              /\ T * u + e \in 0 .. S - 1
              /\ t \div S = k
              /\ (T * u + e) \div T = u
              /\ t \div T = M * k + u
    BY <1>1, Parts
<1>4. S * k \in Nat /\ T * u \in Nat /\ M * k \in Nat /\ u * T = T * u /\ k * S = S * k
    BY <1>2, <1>3
<1>5. Cut(t, S) = k /\ Cut(t, T) = M * k + u
    BY <1>3 DEF Cut
<1>6. MicroOf(t) = u
    <2>1. t - S * Cut(t, S) = T * u + e
        BY <1>3, <1>4, <1>5
    <2>2. Cut(T * u + e, T) = u
        BY <1>2, <1>3 DEF Cut
    <2>3. u \in Nat
        BY <1>2, <1>3
    <2> QED
        BY <1>1, <2>1, <2>2, <2>3 DEF MicroOf
<1>7. Cut(t - u * T, S) = k
    <2>1. t - u * T = S * k + e
        BY <1>2, <1>3, <1>4
    <2>2. e \in 0 .. S - 1 /\ S * k + e \in Nat
        BY <1>2, <1>3, <1>4
    <2>3. (S * k + e) \div S = k
        BY <1>2, <2>2, QuotientIs
    <2> QED
        BY <1>2, <2>1, <2>2, <2>3 DEF Cut
<1>8. k * S + u * T = T * (M * k + u)
    <2>1. k * S = T * (M * k)
        BY <1>2, <1>3
    <2>2. T * (M * k + u) = T * (M * k) + T * u
        BY <1>2, <1>3, <1>4
    <2> QED
        BY <1>4, <2>1, <2>2
<1>9. DateIs(t, k, u, k * S + u * T)
    BY <1>1, <1>3, <1>5, <1>6, <1>7, <1>8 DEF DateIs
<1> QED
    BY <1>2, <1>3, <1>4, <1>9

LEMMA BeforeTheEpoch ==
    ASSUME NEW t \in Int, t < 0
    PROVE  \E s, m, back \in Int : DateIs(t, s, m, back)
<1>1. PICK S, T, M : S = Second /\ T = MicroTicks /\ M = Micros
    OBVIOUS
<1>2. S \in Nat \ {0} /\ T \in Nat \ {0} /\ M \in Nat \ {0} /\ S = M * T /\ T <= S
    BY <1>1, SecondIs, ValuesAssumption DEF ValuesAssumption
<1>3. PICK a \in Nat : a = -t
    OBVIOUS
<1>4. PICK k \in Nat, u \in 0 .. M - 1, e \in 0 .. T - 1 :
              /\ a = S * k + (T * u + e)
              /\ T * u + e \in 0 .. S - 1
              /\ a \div S = k
              /\ (T * u + e) \div T = u
              /\ a \div T = M * k + u
    BY <1>1, <1>3, Parts
<1>5. /\ S * k \in Nat /\ T * u \in Nat /\ M * k \in Nat /\ u * T = T * u /\ k * S = S * k
      /\ u \in Nat /\ e \in Nat
    BY <1>2, <1>4
<1>6. Cut(t, S) = -k /\ Cut(t, T) = -(M * k + u)
    BY <1>3, <1>4 DEF Cut
<1>7. PICK r \in 0 .. S - 1 : r = T * u + e
    BY <1>4
<1>8. Cut(-r, T) = -u
    <2>0. PICK x \in Int : x = -r
        BY <1>2
    <2>1. r \div T = u /\ x + r = 0
        BY <1>2, <1>4, <1>7, <2>0
    <2>2. CASE r = 0
        <3>1. x = 0
            BY <2>1, <2>2
        <3>2. u = 0
            <4>1. T * u \in Nat /\ T * u + e = 0
                BY <1>2, <1>5, <1>7, <2>2
            <4>2. u <= T * u
                <5>1. u * 1 <= u * T
                    BY <1>2, <1>5, TimesMonotone
                <5> QED
                    BY <1>5, <5>1
            <4> QED
                BY <1>5, <4>1, <4>2
        <3>3. x \div T = u
            BY <2>1, <2>2, <3>1
        <3>4. Cut(x, T) = u
            BY <3>1, <3>3 DEF Cut
        <3>5. PICK v \in Int : v = -u
            BY <1>5
        <3>6. v + u = 0
            BY <1>5, <3>5
        <3>7. v = u
            BY <3>2, <3>6
        <3> QED
            BY <2>0, <3>4, <3>5, <3>7
    <2>3. CASE r # 0
        <3>1. x < 0 /\ -x = r
            BY <1>2, <2>1, <2>3
        <3>2. Cut(x, T) = -u
            BY <2>1, <3>1 DEF Cut
        <3> QED
            BY <2>0, <3>2
    <2> QED
        BY <2>2, <2>3
<1>9. MicroOf(t) = IF u = 0 THEN 0 ELSE M - u
    <2>1. S * (-k) = -(S * k)
        BY <1>2, <1>4
    <2>2. t = -(S * k) - r
        BY <1>3, <1>4, <1>5, <1>7
    <2>3. t - S * Cut(t, S) = -r
        BY <1>5, <1>6, <2>1, <2>2
    <2>4. MicroOf(t) = IF -u < 0 THEN -u + M ELSE -u
        BY <1>1, <1>8, <2>3 DEF MicroOf
    <2> QED
        BY <1>2, <1>5, <2>4
<1>10. CASE u = 0
    <2>1. Cut(t - 0 * T, S) = -k
        BY <1>2, <1>6
    <2>2. (-k) * S + 0 * T = T * (-(M * k + u))
        <3>1. (-k) * S = -(T * (M * k))
            BY <1>2, <1>4
        <3>2. M * k + u = M * k
            BY <1>5, <1>10
        <3>3. T * (-(M * k)) = -(T * (M * k)) /\ T * (M * k) \in Nat
            BY <1>2, <1>5
        <3> QED
            BY <1>2, <3>1, <3>2, <3>3
    <2>3. DateIs(t, -k, 0, (-k) * S + 0 * T)
        BY <1>1, <1>2, <1>6, <1>9, <1>10, <2>1, <2>2 DEF DateIs
    <2> QED
        BY <1>2, <1>4, <2>3
<1>11. CASE u # 0
    <2>1. PICK m \in 1 .. M - 1 : m = M - u
        BY <1>2, <1>4, <1>11
    <2>2. m * T = S - T * u /\ m * T \in Nat
        BY <1>2, <1>4, <2>1
    <2>3. S * (k + 1) = S * k + S
        BY <1>2, <1>4
    <2>4. t - m * T = -(S * (k + 1) + e)
        BY <1>2, <1>3, <1>4, <1>5, <2>2, <2>3
    <2>5. S * (k + 1) + e \in Nat /\ S * (k + 1) + e > 0 /\ e \in 0 .. S - 1
        BY <1>2, <1>4, <1>5, <2>3
    <2>6. (S * (k + 1) + e) \div S = k + 1
        BY <1>2, <1>4, <2>5, QuotientIs
    <2>7. Cut(t - m * T, S) = -(k + 1)
        <3>1. PICK x \in Nat : x = S * (k + 1) + e
            BY <2>5
        <3>2. t - m * T = -x /\ -x < 0 /\ -(-x) = x
            BY <2>4, <2>5, <3>1
        <3> QED
            BY <2>6, <3>1, <3>2 DEF Cut
    <2>8. (-(k + 1)) * S + m * T = T * (-(M * k + u))
        <3>1. (-(k + 1)) * S = -(S * k) - S
            BY <1>2, <1>4
        <3>2. (-(k + 1)) * S + m * T = -(S * k) - T * u
            BY <1>2, <1>5, <2>2, <3>1
        <3>3. S * k = T * (M * k)
            BY <1>2, <1>4
        <3>4. T * (-(M * k + u)) = -(T * (M * k)) - T * u
            BY <1>2, <1>4, <1>5
        <3> QED
            BY <3>2, <3>3, <3>4
    <2>9. -(k + 1) = -k - 1 /\ m \in 0 .. M - 1
        BY <1>2, <1>4
    <2>10. DateIs(t, -(k + 1), m, (-(k + 1)) * S + m * T)
        BY <1>1, <1>6, <1>9, <1>11, <2>1, <2>7, <2>8, <2>9 DEF DateIs
    <2> QED
        BY <1>2, <1>4, <2>1, <2>2, <2>10
<1> QED
    BY <1>10, <1>11

\* A legal instant.
LEMMA DateCorrect ==
    ASSUME NEW c, IsDate(c)
    PROVE  DateReadsBack(c)
<1>1. PICK t, zone : t = c.instant /\ zone = c.zone
    OBVIOUS
<1>2. /\ t \in Int /\ DOMAIN zone \subseteq Int
      /\ \A d \in -1 .. 0 : Cut(t, Second) + d \in DOMAIN zone
    BY <1>1 DEF IsDate
<1>3. PICK s \in Int, m \in Int, back \in Int : DateIs(t, s, m, back)
    <2>1. CASE t < 0
        BY <1>2, <2>1, BeforeTheEpoch
    <2>2. CASE ~(t < 0)
        BY <1>2, <2>2, AfterTheEpoch
    <2> QED
        BY <2>1, <2>2
<1>4. Fields(zone, t) = [local |-> s + zone[s], micro |-> m]
    BY <1>3 DEF Fields, DateIs
<1>5. s \in DOMAIN zone
    <2>1. Cut(t, Second) \in Int
        <3>1. Cut(t, Second) = s \/ Cut(t, Second) - 1 = s
            BY <1>3 DEF DateIs
        <3>2. t \in Nat => t \div Second \in Nat
            BY SecondIs, Divides
        <3>3. t < 0 => (-t) \in Nat /\ (-t) \div Second \in Nat
            BY <1>2, SecondIs, Divides
        <3> QED
            BY <1>2, <3>2, <3>3 DEF Cut
    <2>2. Cut(t, Second) + 0 = Cut(t, Second) /\ Cut(t, Second) + (-1) = Cut(t, Second) - 1
        BY <2>1
    <2>3. 0 \in -1 .. 0 /\ -1 \in -1 .. 0
        OBVIOUS
    <2> QED
        BY <1>2, <1>3, <2>2, <2>3 DEF DateIs
<1>6. s * Second + m * MicroTicks = back /\ MicroTicks * Cut(t, MicroTicks) = back
      /\ m \in 0 .. Micros - 1
    BY <1>3 DEF DateIs
<1> DEFINE fields == [local |-> s + zone[s], micro |-> m]
           Local(x) == x + zone[x] = fields.local
<1>7. back \in TimePoints(zone, fields)
    BY <1>5, <1>6 DEF TimePoints
<1>8. ASSUME \A x, y \in DOMAIN zone : Local(x) /\ Local(y) => x = y
      PROVE  TimePoints(zone, fields) = {back}
    <2>1. Local(s)
        OBVIOUS
    <2>2. \A x \in DOMAIN zone : Local(x) => x = s
        BY <1>5, <1>8, <2>1
    <2>3. {x \in DOMAIN zone : Local(x)} = {s}
        BY <1>5, <2>2
    <2>4. TimePoints(zone, fields) = {s * Second + fields.micro * MicroTicks}
        BY <2>3 DEF TimePoints
    <2> QED
        BY <1>6, <2>4
<1>9. fields.micro \in 0 .. Micros - 1
    BY <1>6
<1> QED
    BY <1>1, <1>4, <1>6, <1>7, <1>8, <1>9 DEF DateReadsBack

-----------------------------------------------------------------------------
(* Arguments from Python.                                                  *)

\* Without a bad argument each field that is given is assigned.
LEMMA AllAreAssigned ==
    ASSUME NEW struct, NEW names, NEW kwargs,
           \A i \in 1 .. Len(names) : Given(kwargs, names[i]) => kwargs[names[i]] # Bad,
           DOMAIN struct = {names[i] : i \in 1 .. Len(names)}
    PROVE  FromKwargs(struct, names, kwargs)
             = [name \in DOMAIN struct |-> IF Given(kwargs, name) THEN kwargs[name] ELSE struct[name]]
<1>1. {i \in 1 .. Len(names) : Given(kwargs, names[i]) /\ kwargs[names[i]] = Bad} = {}
    OBVIOUS
<1>2. ASSUME NEW name \in DOMAIN struct
      PROVE  \E i \in 1 .. Len(names) : names[i] = name
    OBVIOUS
<1>3. FromKwargs(struct, names, kwargs)
        = [name \in DOMAIN struct |->
             IF \E i \in 1 .. Len(names) : names[i] = name /\ Given(kwargs, name)
             THEN kwargs[name] ELSE struct[name]]
    BY <1>1 DEF FromKwargs
<1>4. ASSUME NEW name \in DOMAIN struct
      PROVE  (\E i \in 1 .. Len(names) : names[i] = name /\ Given(kwargs, name)) <=> Given(kwargs, name)
    BY <1>2
<1> QED
    BY <1>3, <1>4

\* What is not given, and what cannot be cast, does not change its field.
LEMMA NotAssigned ==
    ASSUME NEW struct, NEW names \in Seq(STRING), NEW kwargs, NEW i \in 1 .. Len(names),
           names[i] \in DOMAIN struct,
           names[i] \notin DOMAIN kwargs \/ kwargs[names[i]] \in {None, Bad}
    PROVE  FromKwargs(struct, names, kwargs)[names[i]] = struct[names[i]]
<1> DEFINE throws == {k \in 1 .. Len(names) : Given(kwargs, names[k]) /\ kwargs[names[k]] = Bad}
           Reached(k) == \A j \in throws : k < j
           Assigned(name) == \E k \in 1 .. Len(names) :
                                names[k] = name /\ Reached(k) /\ Given(kwargs, name)
<1>1. FromKwargs(struct, names, kwargs)
        = [name \in DOMAIN struct |-> IF Assigned(name) THEN kwargs[name] ELSE struct[name]]
    BY DEF FromKwargs
<1>2. ~Assigned(names[i])
    <2> SUFFICES ASSUME NEW k \in 1 .. Len(names), names[k] = names[i], Reached(k),
                        Given(kwargs, names[i])
                 PROVE  FALSE
        OBVIOUS
    <2>1. kwargs[names[k]] = Bad /\ Given(kwargs, names[k])
        BY DEF Given
    <2>2. k \in throws
        BY <2>1
    <2>3. k < k
        BY <2>2
    <2>4. k \in Nat
        BY LenProperties
    <2> QED
        BY <2>3, <2>4
<1> HIDE DEF Assigned
<1> QED
    BY <1>1, <1>2

\* Legal arguments.
LEMMA ArgumentsCorrect ==
    ASSUME NEW c, IsArguments(c)
    PROVE  ArgumentsReadBack(c)
<1>1. PICK struct, other, names, kwargs, checked :
          /\ struct = c.struct /\ other = c.other /\ names = c.names
          /\ kwargs = c.kwargs /\ checked = c.checked
    OBVIOUS
<1>2. PICK fields : fields = {names[i] : i \in 1 .. Len(names)}
    OBVIOUS
<1>3. /\ names \in Seq(STRING) /\ DOMAIN other = fields
      /\ struct = [name \in fields |-> struct[name]]
      /\ \A name \in fields : struct[name] \notin {None, Bad}
    <2>1. fields = {c.names[i] : i \in 1 .. Len(c.names)}
        BY <1>1, <1>2
    <2>2. /\ c.names \in Seq(STRING) /\ DOMAIN c.other = fields
          /\ c.struct = [name \in fields |-> c.struct[name]]
          /\ \A name \in fields : c.struct[name] \notin {None, Bad}
        BY <2>1 DEF IsArguments
    <2> QED
        BY <1>1, <2>2
<1>4. DOMAIN struct = fields
    BY <1>3
<1> DEFINE absent == {name \in checked : struct[name] = 0}
           Dict(set) == ToDict(struct, set)
<1>5. ASSUME NEW set
      PROVE  FromKwargs(other, names, Dict(set))
               = [name \in fields |-> IF Dict(set)[name] # None THEN Dict(set)[name] ELSE other[name]]
    <2>1. PICK dict : dict = Dict(set)
        OBVIOUS
    <2>2. dict = [name \in fields |-> IF name \in set THEN None ELSE struct[name]]
        BY <1>4, <2>1 DEF ToDict
    <2>3. \A name \in fields : Given(dict, name) <=> dict[name] # None
        BY <2>2 DEF Given
    <2>4. \A name \in fields : Given(dict, name) => dict[name] # Bad
        BY <1>3, <2>2, <2>3
    <2>5. \A i \in 1 .. Len(names) : names[i] \in fields
        BY <1>2
    <2>6. FromKwargs(other, names, dict)
            = [name \in fields |-> IF Given(dict, name) THEN dict[name] ELSE other[name]]
        BY <1>2, <1>3, <2>4, <2>5, AllAreAssigned
    <2> QED
        BY <2>1, <2>3, <2>6
<1>6. FromKwargs(other, names, Dict({})) = struct
    <2>1. \A name \in fields : Dict({})[name] = struct[name] /\ struct[name] # None
        BY <1>3, <1>4 DEF ToDict
    <2>2. FromKwargs(other, names, Dict({})) = [name \in fields |-> struct[name]]
        BY <1>5, <2>1
    <2> QED
        BY <1>3, <2>2
<1>7. ASSUME NEW name \in fields
      PROVE  FromKwargs(other, names, Dict(absent))[name]
               = IF Dict(absent)[name] = None THEN other[name] ELSE struct[name]
    <2>1. Dict(absent)[name] # None => Dict(absent)[name] = struct[name]
        BY <1>4 DEF ToDict
    <2> HIDE DEF absent, Dict
    <2>2. FromKwargs(other, names, Dict(absent))[name]
            = IF Dict(absent)[name] # None THEN Dict(absent)[name] ELSE other[name]
        BY <1>5
    <2> QED
        BY <2>1, <2>2
<1>8. ASSUME NEW i \in 1 .. Len(names),
             names[i] \notin DOMAIN kwargs \/ kwargs[names[i]] \in {None, Bad}
      PROVE  FromKwargs(struct, names, kwargs)[names[i]] = struct[names[i]]
    <2>1. names[i] \in DOMAIN struct
        BY <1>2, <1>4
    <2> QED
        BY <1>3, <1>8, <2>1, NotAssigned
<1> QED
    BY <1>1, <1>4, <1>6, <1>7, <1>8 DEF ArgumentsReadBack

-----------------------------------------------------------------------------
(* Mounted file systems.                                                   *)

\* A legal list of mounts.
LEMMA MountCorrect ==
    ASSUME NEW c, IsMount(c)
    PROVE  MountIsFound(c)
<1>1. PICK mounts, hidden, dir : mounts = c.mounts /\ hidden = c.hidden /\ dir = c.dir
    OBVIOUS
<1> SUFFICES ASSUME ~(\E i, j \in DOMAIN mounts : i < j /\ mounts[i].dir = mounts[j].dir),
                    dir \notin hidden, NEW i \in DOMAIN mounts, mounts[i].dir = dir
             PROVE  FindMountDevice(mounts, hidden, dir) = mounts[i].name
    BY <1>1 DEF MountIsFound
<1>2. /\ mounts \in Seq([dir : STRING, name : STRING, dev : STRING])
      /\ \A k, l \in DOMAIN mounts : mounts[k].dev = mounts[l].dev => mounts[k].name = mounts[l].name
    BY <1>1 DEF IsMount
<1>3. DOMAIN mounts \subseteq Nat
    BY <1>2, LenProperties
<1>4. \A k, l \in DOMAIN mounts : mounts[k].dir = mounts[l].dir => k = l
    BY <1>3
<1>5. ASSUME NEW k \in DOMAIN mounts
      PROVE  StDev(mounts, mounts[k].dir) = mounts[k].dev
    <2> DEFINE Is(l) == /\ mounts[l].dir = mounts[k].dir
                        /\ \A j \in DOMAIN mounts : mounts[j].dir = mounts[k].dir => j <= l
    <2>1. Is(k)
        BY <1>3, <1>4
    <2>2. \A l \in DOMAIN mounts : Is(l) => l = k
        BY <1>4
    <2> HIDE DEF Is
    <2>3. (CHOOSE l \in DOMAIN mounts : Is(l)) = k
        BY <2>1, <2>2
    <2> QED
        BY <2>3 DEF StDev, Is
<1> DEFINE fits == {k \in DOMAIN mounts : mounts[k].dir \notin hidden
                                          /\ StDev(mounts, mounts[k].dir) = StDev(mounts, dir)}
<1>6. i \in fits
    OBVIOUS
<1>7. \A k \in fits : mounts[k].name = mounts[i].name
    BY <1>2, <1>5
<1>8. fits \in SUBSET Nat /\ fits # {}
    BY <1>3, <1>6
<1>9. PICK m \in fits : \A j \in fits : m <= j
    <2> HIDE DEF fits
    <2> QED
        BY <1>8, MinExists
<1>10. PICK f \in fits : f = CHOOSE k \in fits : \A j \in fits : k <= j
    <2> HIDE DEF fits
    <2> QED
        BY <1>9
<1>11. FindMountDevice(mounts, hidden, dir) = mounts[f].name
    BY <1>6, <1>10 DEF FindMountDevice
<1> QED
    BY <1>7, <1>11

-----------------------------------------------------------------------------
(* Buffers.                                                                *)

\* What is put together from pieces is cut into these pieces.
LEMMA DeserializeIs ==
    ASSUME NEW S, NEW seqs \in Seq(Seq(S))
    PROVE  Deserialize(FlattenSeq(seqs), [i \in 1 .. Len(seqs) |-> Len(seqs[i])]) = seqs
<1>1. PICK f : ArePieces(S, seqs, f)
    BY PiecesExist
<1>2. PICK full : full = f[Len(seqs)]
    OBVIOUS
<1>3. FlattenSeq(seqs) = full
    BY <1>1, <1>2, FlattenIs
<1>4. \A i \in 0 .. Len(seqs) :
              /\ f[i] \in Seq(S) /\ Len(f[i]) <= Len(full)
              /\ \A j \in 1 .. Len(f[i]) : full[j] = f[i][j]
    BY <1>1, <1>2, PiecesArePrefixes
<1>5. PICK n \in Nat : n = Len(seqs)
    BY LenProperties
<1>6. PICK sizes : sizes = [i \in 1 .. n |-> Len(seqs[i])]
    OBVIOUS
<1>7. Len(sizes) = n
    BY <1>5, <1>6
<1> DEFINE Rule(g) == [i \in 1 .. n + 1 |-> IF i = 1 THEN 1 ELSE g[i - 1] + sizes[i - 1]]
<1>8. PICK from : from = CHOOSE g : g = Rule(g)
    OBVIOUS
<1>9. Deserialize(full, sizes) = [i \in 1 .. n |-> SubSeq(full, from[i], from[i + 1] - 1)]
    BY <1>7, <1>8 DEF Deserialize
<1>10. ASSUME NEW i \in 1 .. n
       PROVE  /\ seqs[i] \in Seq(S) /\ Len(seqs[i]) \in Nat /\ Len(f[i - 1]) \in Nat
              /\ Len(f[i]) = Len(f[i - 1]) + sizes[i] /\ sizes[i] = Len(seqs[i])
              /\ f[i] = f[i - 1] \o seqs[i]
    <2>1. i - 1 \in 0 .. n
        BY <1>5
    <2>2. PICK a \in Seq(S), b \in Seq(S) : a = f[i - 1] /\ b = seqs[i]
        BY <1>4, <1>5, <2>1, ElementOfSeq
    <2>3. f[i] = a \o b
        BY <1>1, <1>5, <2>2 DEF ArePieces
    <2>4. Len(f[i]) = Len(a) + Len(b) /\ Len(a) \in Nat /\ Len(b) \in Nat
        BY <2>3, ConcatProperties, LenProperties
    <2>5. sizes[i] = Len(seqs[i])
        BY <1>6
    <2> QED
        BY <2>2, <2>3, <2>4, <2>5
<1>11. PICK h : h = [i \in 1 .. n + 1 |-> Len(f[i - 1]) + 1]
    OBVIOUS
<1>12. h[1] = 1
    <2>1. f[0] = <<>> /\ Len(<<>>) = 0
        BY <1>1 DEF ArePieces
    <2>2. 1 \in 1 .. n + 1 /\ 1 - 1 = 0
        BY <1>5
    <2> QED
        BY <1>11, <2>1, <2>2
<1>13. ASSUME NEW i \in 1 .. n
       PROVE  h[i + 1] = h[i] + sizes[i]
    <2>1. i \in 1 .. n + 1 /\ i + 1 \in 1 .. n + 1 /\ (i + 1) - 1 = i
        BY <1>5
    <2>2. h[i] = Len(f[i - 1]) + 1 /\ h[i + 1] = Len(f[i]) + 1
        BY <1>11, <2>1
    <2>3. PICK a, b, more : a = Len(f[i - 1]) /\ b = Len(f[i]) /\ more = sizes[i]
        OBVIOUS
    <2>4. a \in Nat /\ more \in Nat /\ b = a + more
        BY <1>10, <2>3
    <2>5. h[i] = a + 1 /\ h[i + 1] = b + 1
        BY <2>2, <2>3
    <2>6. b + 1 = (a + 1) + more
        BY <2>4
    <2> QED
        BY <2>3, <2>5, <2>6
<1>14. h = Rule(h)
    <2>1. ASSUME NEW i \in 1 .. n + 1
          PROVE  h[i] = IF i = 1 THEN 1 ELSE h[i - 1] + sizes[i - 1]
        <3>1. CASE i = 1
            BY <1>12, <3>1
        <3>2. CASE i # 1
            <4>1. i - 1 \in 1 .. n /\ (i - 1) + 1 = i
                BY <1>5, <3>2
            <4> QED
                BY <1>13, <3>2, <4>1
        <3> QED
            BY <3>1, <3>2
    <2>2. h = [i \in 1 .. n + 1 |-> h[i]]
        BY <1>11
    <2> QED
        BY <2>1, <2>2
<1>15. from = Rule(from)
    <2> HIDE DEF Rule
    <2> QED
        BY <1>8, <1>14
<1>16. \A i \in 1 .. n + 1 : from[i] = IF i = 1 THEN 1 ELSE from[i - 1] + sizes[i - 1]
    BY <1>15
<1> HIDE DEF Rule
<1>17. \A i \in 1 .. n + 1 : from[i] = h[i]
    <2> DEFINE Same == {i \in 0 .. n : from[i + 1] = h[i + 1]}
    <2>1. 0 \in Same
        <3>1. 1 \in 1 .. n + 1
            BY <1>5
        <3>2. from[1] = 1
            BY <1>16, <3>1
        <3> QED
            BY <1>5, <1>12, <3>2
    <2>2. ASSUME NEW i \in 0 .. n - 1, i \in Same
          PROVE  i + 1 \in Same
        <3>1. /\ i + 2 \in 1 .. n + 1 /\ i + 2 # 1 /\ (i + 2) - 1 = i + 1 /\ i + 1 \in 1 .. n
              /\ i + 1 \in 0 .. n /\ (i + 1) + 1 = i + 2
            BY <1>5
        <3>2. from[i + 2] = from[i + 1] + sizes[i + 1]
            BY <1>16, <3>1
        <3>3. h[i + 2] = h[i + 1] + sizes[i + 1]
            BY <1>13, <3>1
        <3> QED
            BY <2>2, <3>1, <3>2, <3>3
    <2> HIDE DEF Same
    <2>3. 0 .. n \subseteq Same
        BY <1>5, <2>1, <2>2, SetInduction
    <2> QED
        <3>1. ASSUME NEW i \in 1 .. n + 1
              PROVE  from[i] = h[i]
            <4>1. i - 1 \in 0 .. n /\ (i - 1) + 1 = i
                BY <1>5
            <4> QED
                BY <2>3, <4>1 DEF Same
        <3> QED
            BY <3>1
<1>18. ASSUME NEW i \in 1 .. n
       PROVE  SubSeq(full, from[i], from[i + 1] - 1) = seqs[i]
    <2>1. i \in 1 .. n + 1 /\ i + 1 \in 1 .. n + 1 /\ (i + 1) - 1 = i /\ i - 1 \in 0 .. n /\ i \in 0 .. n
        BY <1>5
    <2>2. PICK a \in Seq(S), b \in Seq(S) : a = f[i - 1] /\ b = seqs[i]
        BY <1>4, <1>5, <1>10, <2>1
    <2>3. Len(a) \in Nat /\ Len(b) \in Nat /\ Len(f[i]) = Len(a) + Len(b)
        BY <1>10, <2>2
    <2>4. from[i] = Len(a) + 1 /\ from[i + 1] - 1 = Len(a) + Len(b)
        <3>1. from[i] = Len(f[i - 1]) + 1 /\ from[i + 1] = Len(f[i]) + 1
            <4>1. h[i] = Len(f[i - 1]) + 1 /\ h[i + 1] = Len(f[i]) + 1
                BY <1>11, <2>1
            <4> QED
                BY <1>17, <2>1, <4>1
        <3>2. from[i + 1] = (Len(a) + Len(b)) + 1
            BY <2>3, <3>1
        <3> QED
            BY <2>2, <2>3, <3>1, <3>2
    <2>5. \A j \in 1 .. Len(b) : full[Len(a) + j] = b[j]
        <3> SUFFICES ASSUME NEW j \in 1 .. Len(b)
                     PROVE  full[Len(a) + j] = b[j]
            OBVIOUS
        <3>1. Len(a) + j \in 1 .. Len(f[i]) /\ ~(Len(a) + j <= Len(a)) /\ (Len(a) + j) - Len(a) = j
            BY <2>3
        <3>2. full[Len(a) + j] = f[i][Len(a) + j]
            BY <1>4, <1>5, <2>1, <3>1
        <3>3. f[i] = a \o b
            BY <1>10, <2>2
        <3>4. (a \o b)[Len(a) + j] = b[(Len(a) + j) - Len(a)]
            BY <2>3, <3>1, ConcatProperties
        <3> QED
            BY <3>1, <3>2, <3>3, <3>4
    <2>6. PICK s : s = SubSeq(full, Len(a) + 1, Len(a) + Len(b))
        OBVIOUS
    <2>7. s \in Seq(S) /\ Len(s) = Len(b) /\ \A j \in 1 .. Len(b) : s[j] = full[Len(a) + j]
        <3>1. ASSUME NEW k \in Len(a) + 1 .. Len(a) + Len(b)
              PROVE  full[k] \in S
            <4>1. k - Len(a) \in 1 .. Len(b) /\ Len(a) + (k - Len(a)) = k
                BY <2>3
            <4> QED
                BY <2>5, <4>1, ElementOfSeq
        <3>2. Len(a) + 1 \in Int /\ Len(a) + Len(b) \in Int
            BY <2>3
        <3>3. /\ s \in Seq(S)
              /\ Len(s) = IF Len(a) + 1 <= Len(a) + Len(b) THEN Len(a) + Len(b) - (Len(a) + 1) + 1 ELSE 0
              /\ \A j \in 1 .. Len(a) + Len(b) - (Len(a) + 1) + 1 : s[j] = full[Len(a) + 1 + j - 1]
            BY <2>6, <3>1, <3>2, SubSeqProperties
        <3>4. Len(a) + Len(b) - (Len(a) + 1) + 1 = Len(b)
            BY <2>3
        <3>5. \A j \in 1 .. Len(b) : Len(a) + 1 + j - 1 = Len(a) + j
            BY <2>3
        <3>6. Len(s) = Len(b)
            BY <2>3, <3>3
        <3> QED
            BY <3>3, <3>4, <3>5, <3>6
    <2>8. s = b
        BY <2>5, <2>7, SeqEqual
    <2> QED
        BY <2>2, <2>4, <2>6, <2>8
<1>19. Deserialize(full, sizes) = [i \in 1 .. n |-> seqs[i]]
    BY <1>9, <1>18
<1>20. seqs = [i \in 1 .. n |-> seqs[i]]
    BY <1>5, LenProperties
<1> QED
    BY <1>3, <1>5, <1>6, <1>19, <1>20

\* The lines of a dump are full, but for the last, and together the whole.
LEMMA HexdumpIs ==
    ASSUME NEW S, NEW full \in Seq(S), NEW dump, dump = Hexdump(full, Len(full))
    PROVE  /\ FlattenSeq(dump) = full
           /\ \A i \in 1 .. Len(dump) - 1 : Len(dump[i]) = PerLine
<1>1. PICK n \in Nat, P \in Nat \ {0} : n = Len(full) /\ P = PerLine
    BY LenProperties, ValuesAssumption DEF ValuesAssumption
<1>2. PICK lines : lines = (n + P - 1) \div P
    OBVIOUS
<1>3. lines \in Nat /\ P * lines \in n .. n + P - 1
    <2>1. n + P - 1 \in Nat
        BY <1>1
    <2>2. PICK x \in Nat : x = n + P - 1
        BY <2>1
    <2>3. lines = x \div P
        BY <1>2, <2>2
    <2>4. PICK r \in 0 .. P - 1 : x = P * lines + r
        BY <2>3, Divides
    <2>5. lines \in Nat
        BY <2>3, Divides
    <2>6. P * lines \in Nat
        BY <1>1, <2>5
    <2> QED
        BY <1>1, <2>2, <2>4, <2>5, <2>6
<1> DEFINE End(i) == IF i * P < n THEN i * P ELSE n
<1>4. dump = [i \in 1 .. lines |-> SubSeq(full, (i - 1) * P + 1, End(i))]
    <2>1. ~(Len(full) < Len(full))
        BY <1>1
    <2> QED
        BY <1>1, <1>2, <2>1 DEF Hexdump
<1>5. ASSUME NEW i \in 0 .. lines - 1
      PROVE  i * P \in Nat /\ (i + 1) * P = i * P + P /\ i * P < n
    <2>1. i \in Nat /\ i + 1 <= lines
        BY <1>3
    <2>2. P * (i + 1) <= P * lines
        BY <1>1, <1>3, <2>1, TimesMonotone
    <2>3. P * (i + 1) = i * P + P /\ (i + 1) * P = P * (i + 1) /\ i * P \in Nat
        BY <1>1, <2>1
    <2> QED
        BY <1>1, <1>3, <2>2, <2>3
<1>6. ASSUME NEW i \in 1 .. lines
      PROVE  /\ End(i - 1) = (i - 1) * P /\ End(i - 1) \in 0 .. n
             /\ End(i) \in End(i - 1) .. n
             /\ i < lines => End(i) = i * P /\ i * P = (i - 1) * P + P
    <2>1. i - 1 \in 0 .. lines - 1 /\ (i - 1) + 1 = i
        BY <1>3
    <2>2. (i - 1) * P \in Nat /\ i * P = (i - 1) * P + P /\ (i - 1) * P < n
        BY <1>5, <2>1
    <2>3. i < lines => i * P < n
        <3>1. i < lines => i \in 0 .. lines - 1
            BY <1>3
        <3> QED
            BY <1>5, <3>1
    <2> QED
        BY <1>1, <2>2, <2>3
<1>7. \A j \in 1 .. n : full[j] \in S
    BY <1>1, ElementOfSeq
<1>8. ASSUME NEW i \in 1 .. lines
      PROVE  /\ dump[i] = SubSeq(full, End(i - 1) + 1, End(i))
             /\ dump[i] \in Seq(S) /\ Len(dump[i]) = End(i) - End(i - 1)
    <2> HIDE DEF End
    <2>1. PICK b, e \in Nat : b = End(i - 1) /\ e = End(i) /\ b <= e /\ e <= n /\ b = (i - 1) * P
        BY <1>1, <1>6
    <2>2. dump[i] = SubSeq(full, b + 1, e)
        BY <1>4, <2>1
    <2>3. \A j \in b + 1 .. e : full[j] \in S
        BY <1>1, <1>7, <2>1
    <2>4. b + 1 \in Int /\ e \in Int
        BY <2>1
    <2>5. /\ SubSeq(full, b + 1, e) \in Seq(S)
          /\ Len(SubSeq(full, b + 1, e)) = IF b + 1 <= e THEN e - (b + 1) + 1 ELSE 0
        BY <2>3, <2>4, SubSeqProperties
    <2>6. (IF b + 1 <= e THEN e - (b + 1) + 1 ELSE 0) = e - b
        BY <2>1
    <2> QED
        BY <2>1, <2>2, <2>5, <2>6
<1>9. dump \in Seq(Seq(S)) /\ Len(dump) = lines
    <2>1. dump \in [1 .. lines -> Seq(S)]
        BY <1>4, <1>8
    <2> QED
        BY <1>3, <2>1
<1>10. PICK f : f = [i \in 0 .. lines |-> SubSeq(full, 1, End(i))]
    OBVIOUS
<1>11. \A i \in 0 .. lines : End(i) \in 0 .. n
    <2>1. ASSUME NEW i \in 0 .. lines
          PROVE  End(i) \in 0 .. n
        <3>1. i = lines \/ (i + 1 \in 1 .. lines /\ (i + 1) - 1 = i)
            BY <1>3
        <3>2. lines * P \in Nat
            BY <1>1, <1>3
        <3> QED
            BY <1>1, <1>6, <3>1, <3>2
    <2> QED
        BY <2>1
<1>12. ASSUME NEW i \in 0 .. lines
       PROVE  f[i] = SubSeq(full, 1, End(i)) /\ f[i] \in Seq(S)
    <2> HIDE DEF End
    <2>1. f[i] = SubSeq(full, 1, End(i))
        BY <1>10
    <2>2. \A j \in 1 .. End(i) : full[j] \in S
        BY <1>1, <1>7, <1>11
    <2>3. 1 \in Int /\ End(i) \in Int
        BY <1>1, <1>11
    <2> QED
        BY <2>1, <2>2, <2>3, SubSeqProperties
<1>13. f[0] = <<>>
    <2>1. 0 \in 0 .. lines /\ 0 * P = 0
        BY <1>1, <1>3
    <2>2. End(0) = 0
        BY <1>1, <2>1
    <2>3. SubSeq(full, 1, 0) = <<>>
        BY SubSeqEmpty
    <2> QED
        BY <1>12, <2>1, <2>2, <2>3
<1>14. ASSUME NEW i \in 1 .. lines
       PROVE  f[i] = f[i - 1] \o dump[i]
    <2> HIDE DEF End
    <2>1. i \in 0 .. lines /\ i - 1 \in 0 .. lines
        BY <1>3
    <2>2. PICK b \in 0 .. n : b = End(i - 1)
        BY <1>6
    <2>3. PICK e \in b .. n : e = End(i)
        BY <1>6, <2>2
    <2>4. 1 \in 1 .. Len(full) + 1 /\ b \in 1 - 1 .. Len(full) /\ e \in b .. Len(full)
        BY <1>1, <2>2, <2>3
    <2>5. SubSeq(full, 1, b) \o SubSeq(full, b + 1, e) = SubSeq(full, 1, e)
        BY <2>4, ConcatAdjacentSubSeq
    <2> QED
        BY <1>8, <1>12, <2>1, <2>2, <2>3, <2>5
<1>15. ArePieces(S, dump, f)
    <2>1. f \in [0 .. lines -> Seq(S)]
        BY <1>10, <1>12
    <2> QED
        BY <1>9, <1>13, <1>14, <2>1 DEF ArePieces
<1>16. FlattenSeq(dump) = full
    <2>1. FlattenSeq(dump) = f[lines]
        BY <1>9, <1>15, FlattenIs
    <2>2. lines * P \in Nat /\ lines * P = P * lines /\ lines \in 0 .. lines
        BY <1>1, <1>3
    <2>3. End(lines) = n
        BY <1>1, <1>3, <2>2
    <2>4. f[lines] = SubSeq(full, 1, n)
        BY <1>12, <2>2, <2>3
    <2> QED
        BY <1>1, <2>1, <2>4, SubSeqFull
<1>17. ASSUME NEW i \in 1 .. lines - 1
       PROVE  Len(dump[i]) = P
    <2>1. i \in 1 .. lines /\ i < lines
        BY <1>3
    <2> HIDE DEF End
    <2>2. PICK b \in Nat : b = End(i - 1) /\ End(i) = b + P
        BY <1>1, <1>6, <2>1
    <2>3. (b + P) - b = P
        BY <1>1, <2>2
    <2> QED
        BY <1>8, <2>1, <2>2, <2>3
<1> QED
    BY <1>1, <1>9, <1>16, <1>17

\* A legal buffer.
LEMMA BufferCorrect ==
    ASSUME NEW c, IsBuffer(c)
    PROVE  BufferReadsBack(c)
<1>1. PICK S : S = 0 .. 255
    OBVIOUS
<1>2. PICK bytes \in Seq(S), items \in Seq(Seq(S)) : bytes = c.buffer /\ items = c.items
    BY <1>1 DEF IsBuffer
<1>3. PICK n \in Nat : n = Len(items)
    BY LenProperties
<1>4. PICK all : all = <<bytes>> \o items
    OBVIOUS
<1>5. PICK full : full = Serialize(bytes, items)
    OBVIOUS
<1>6. PICK sizes : sizes = <<Len(bytes)>> \o [i \in 1 .. n |-> Len(items[i])]
    OBVIOUS
<1>7. full = FlattenSeq(all)
    BY <1>4, <1>5, FlattenCons DEF Serialize
<1>8. /\ all \in Seq(Seq(S)) /\ Len(all) = n + 1
      /\ \A i \in 1 .. n + 1 : all[i] = IF i = 1 THEN bytes ELSE items[i - 1]
    <2>1. PICK one : one = <<bytes>>
        OBVIOUS
    <2>2. one \in Seq(Seq(S)) /\ Len(one) = 1 /\ one[1] = bytes
        BY <2>1
    <2>3. /\ all \in Seq(Seq(S)) /\ Len(all) = 1 + n
          /\ \A j \in 1 .. 1 + n : all[j] = IF j <= 1 THEN one[j] ELSE items[j - 1]
        BY <1>3, <1>4, <2>1, <2>2, ConcatProperties
    <2>4. 1 + n = n + 1 /\ \A j \in 1 .. n + 1 : j <= 1 <=> j = 1
        BY <1>3
    <2> QED
        BY <2>2, <2>3, <2>4
<1>9. sizes = [i \in 1 .. n + 1 |-> Len(all[i])]
    <2>1. PICK one, rest : one = <<Len(bytes)>> /\ rest = [i \in 1 .. n |-> Len(items[i])]
        OBVIOUS
    <2>2. one \in Seq(Nat) /\ Len(one) = 1 /\ one[1] = Len(bytes)
        BY <2>1, LenProperties
    <2>3. rest \in Seq(Nat) /\ Len(rest) = n
        <3>1. \A i \in 1 .. n : Len(items[i]) \in Nat
            BY <1>3, ElementOfSeq, LenProperties
        <3>2. rest \in [1 .. n -> Nat]
            BY <2>1, <3>1
        <3> QED
            BY <3>2
    <2>4. /\ sizes \in Seq(Nat) /\ Len(sizes) = 1 + n
          /\ \A j \in 1 .. 1 + n : sizes[j] = IF j <= 1 THEN one[j] ELSE rest[j - 1]
        BY <1>6, <2>1, <2>2, <2>3, ConcatProperties
    <2>5. ASSUME NEW i \in 1 .. n + 1
          PROVE  sizes[i] = Len(all[i])
        <3>1. i \in 1 .. 1 + n /\ (i <= 1 <=> i = 1) /\ (i # 1 => i - 1 \in 1 .. n)
            BY <1>3
        <3>2. CASE i = 1
            BY <1>8, <2>2, <2>4, <3>1, <3>2
        <3>3. CASE i # 1
            BY <1>8, <2>1, <2>4, <3>1, <3>3
        <3> QED
            BY <3>2, <3>3
    <2>6. sizes = [i \in 1 .. 1 + n |-> sizes[i]]
        BY <2>4, LenProperties
    <2>7. 1 + n = n + 1
        BY <1>3
    <2> QED
        BY <2>5, <2>6, <2>7
<1>10. Deserialize(full, sizes) = all
    <2>1. Deserialize(FlattenSeq(all), [i \in 1 .. Len(all) |-> Len(all[i])]) = all
        BY <1>8, DeserializeIs
    <2> QED
        BY <1>7, <1>8, <1>9, <2>1
<1>11. full \in Seq(S)
    <2>1. PICK f : ArePieces(S, all, f)
        BY <1>8, PiecesExist
    <2>2. full = f[n + 1]
        BY <1>7, <1>8, <2>1, FlattenIs
    <2>3. n + 1 \in 0 .. n + 1
        BY <1>3
    <2> QED
        BY <1>8, <2>1, <2>2, <2>3 DEF ArePieces
<1>12. PICK dump : dump = Hexdump(full, Len(full))
    OBVIOUS
<1>13. /\ FlattenSeq(dump) = full
       /\ \A i \in 1 .. Len(dump) - 1 : Len(dump[i]) = PerLine
    BY <1>11, <1>12, HexdumpIs
<1> QED
    BY <1>2, <1>3, <1>4, <1>5, <1>6, <1>10, <1>12, <1>13 DEF BufferReadsBack

-----------------------------------------------------------------------------
(* Any call of a program.                                                  *)

LEMMA CallCorrect ==
    ASSUME given = NoCall \/ given \in Calls
    PROVE  ReadBack
<1>1. CASE given = NoCall
    BY <1>1 DEF NoCall, ReadBack
<1>2. CASE given \in Calls
    <2>1. IsCall(given)
        BY <1>2, CallsAreLegal
    <2>2. CASE given.kind = "field"
        BY <2>1, <2>2, FieldCorrect DEF IsCall, ReadBack
    <2>3. CASE given.kind = "bit"
        BY <2>1, <2>3, BitCorrect DEF IsCall, ReadBack
    <2>4. CASE given.kind = "buffer"
        BY <2>1, <2>4, BufferCorrect DEF IsCall, ReadBack
    <2>5. CASE given.kind = "block"
        BY <2>1, <2>5, BlockCorrect DEF IsCall, ReadBack
    <2>6. CASE given.kind = "date"
        BY <2>1, <2>6, DateCorrect DEF IsCall, ReadBack
    <2>7. CASE given.kind = "arguments"
        BY <2>1, <2>7, ArgumentsCorrect DEF IsCall, ReadBack
    <2>8. CASE given.kind = "mount"
        BY <2>1, <2>8, MountCorrect DEF IsCall, ReadBack
    <2>9. given.kind \in {"field", "bit", "buffer", "block", "date", "arguments", "mount"}
        BY <2>1 DEF IsCall
    <2> QED
        BY <2>2, <2>3, <2>4, <2>5, <2>6, <2>7, <2>8, <2>9
<1> QED
    BY <1>1, <1>2

\* For any widths, clock and legal calls, what a call wrote is read back and
\* what it asked for is found (serialization.hpp, the allocators, datetime.cpp,
\* pyutil.hpp, logger.cpp).
THEOREM ReadBackCorrect == ValuesSpec => []ReadBack
<1> DEFINE Called == given = NoCall \/ given \in Calls
<1>1. ValuesInit => Called
    BY DEF ValuesInit
<1>2. Called /\ [Evaluate]_given => Called'
    BY DEF Evaluate
<1>3. Called => ReadBack
    BY CallCorrect
<1> QED
    BY <1>1, <1>2, <1>3, PTL DEF ValuesSpec

=============================================================================
