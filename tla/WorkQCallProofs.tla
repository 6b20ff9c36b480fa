-------------------------- MODULE WorkQCallProofs --------------------------
(***************************************************************************)
(* Theorems about the calls that wait in WorkQ: drains, stops,             *)
(* destructors, flushes and cancellations, for any sets of queues, works   *)
(* and clients.                                                            *)
(***************************************************************************)
EXTENDS WorkQProofs

-----------------------------------------------------------------------------
(* What a call is about.                                                   *)

OnWork == {"flush", "cancel_sync"}
OnQueue == {"drain", "stop", "stop_for", "run", "destroy", "join"}

CallsOK ==
    \A c \in Clients :
        /\ call[c] = "idle" <=> on[c] = None
        /\ call[c] \in OnWork <=> on[c] \in Works
        /\ call[c] \in OnQueue <=> on[c] \in Queues

LEMMA CallsStep ==
    ASSUME TypeOK, CallsOK, [Next]_vars
    PROVE  CallsOK'
<1> USE DistinctObjects DEF OnWork, OnQueue
<1>1. ASSUME UNCHANGED <<call, on>>
      PROVE  CallsOK'
    BY <1>1 DEF CallsOK
<1>2. ASSUME NEW c \in Clients, Leave(c)
      PROVE  CallsOK'
    BY <1>2 DEF CallsOK, Leave, TypeOK
<1>3. ASSUME NEW c \in Clients, NEW what \in OnWork, NEW w \in Works, Enter(c, what, w)
      PROVE  CallsOK'
    BY <1>3 DEF CallsOK, Enter, TypeOK
<1>4. ASSUME NEW c \in Clients, NEW what \in OnQueue, NEW q \in Queues, Enter(c, what, q)
      PROVE  CallsOK'
    BY <1>4 DEF CallsOK, Enter, TypeOK
<1>5. ASSUME NEW c \in Clients, ClientNext(c)
      PROVE  CallsOK'
    <2>1. ASSUME NEW w \in Works, CancelSync(c, w) \/ Flush(c, w)
          PROVE  CallsOK'
        BY <1>1, <1>3, <2>1 DEF CancelSync, Flush
    <2>2. ASSUME NEW q \in Queues, Start(c, q) \/ Run(c, q) \/ Destroy(c, q)
          PROVE  CallsOK'
        BY <1>1, <1>4, <2>2 DEF Start, Run, Destroy
    <2>3. ASSUME NEW q \in Queues, NEW plug \in BOOLEAN, Drain(c, q, plug)
          PROVE  CallsOK'
        BY <1>4, <2>3 DEF Drain
    <2>4. ASSUME NEW q \in Queues, NEW how \in {"stop", "stop_for"}, Stop(c, q, how)
          PROVE  CallsOK'
        BY <1>4, <2>4 DEF Stop
    <2>5. ASSUME DestroyDrained(c)
          PROVE  CallsOK'
        <3>1. on[c] \in Queues
            BY <2>5 DEF DestroyDrained, TokenTaken, CallsOK
        <3> QED
            BY <1>4, <2>5, <3>1 DEF DestroyDrained
    <2>6. ASSUME FlushReturn(c) \/ CancelReturn(c) \/ DrainReturn(c) \/ StopReturn(c)
                   \/ StopForReturn(c) \/ RunReturn(c) \/ DestroyReturn(c)
          PROVE  CallsOK'
        BY <1>2, <2>6 DEF FlushReturn, CancelReturn, SemTaken, DrainReturn, StopReturn,
             StopForReturn, RunReturn, DestroyReturn
    <2> QED
        BY <1>5, <2>1, <2>2, <2>3, <2>4, <2>5, <2>6 DEF ClientNext
<1>6. ASSUME NEW t \in Threads, ThreadNext(t)
      PROVE  CallsOK'
    BY <1>1, <1>6 DEF ThreadNext, Submit, Resubmit, Cancel, SetHandler, Unplug, SubmitLocked,
         callVars
<1>7. ASSUME NEW q \in Queues, WorkerStep(q) \/ Throw(q)
      PROVE  CallsOK'
    BY <1>1, <1>7 DEF WorkerStep, Take, AnswerDrain, Quit, Sleep, Wake, Finish, Throw, callVars
<1>8. CASE UNCHANGED vars
    BY <1>1, <1>8 DEF vars, callVars
<1> QED
    BY <1>5, <1>6, <1>7, <1>8 DEF Next

-----------------------------------------------------------------------------
(* Drains, one queue at a time: what a step can do to them.                *)

\* The clients that wait for the token of a queue.
Draining(q) == {c \in Clients : on[c] = q /\ call[c] \in {"drain", "destroy"}}

\* Of the clients C nobody starts or ends a drain, and none learns anything.
Unmoved(C) ==
    \A c \in C : call'[c] = call[c] /\ on'[c] = on[c] /\ drained'[c] = drained[c]

NothingAsked(q) ==
    /\ "DRAIN" \in qflags'[q] => "DRAIN" \in qflags[q]
    /\ drainq'[q] => drainq[q]

DrainKept(q) ==
    /\ Draining(q)' = Draining(q) /\ Unmoved(Draining(q))
    /\ NothingAsked(q)

DrainBegun(q) ==
    /\ \E c \in Clients \ Draining(q) : Draining(q)' = Draining(q) \cup {c}
    /\ Unmoved(Draining(q))
    /\ drainq'[q] = drainq[q]
    /\ life[q] = "open"
    /\ "one_drainer" \in Discipline => \A d \in Draining(q) : call[d] # "drain"

DrainAnswered(q) ==
    /\ "DRAIN" \in qflags[q] /\ "DRAIN" \notin qflags'[q]
    /\ Draining(q)' = Draining(q)
    /\ \A c \in Draining(q) : call'[c] = call[c] /\ drained'[c]

DrainTaken(q) ==
    /\ drainq[q] /\ ~drainq'[q]
    /\ \E c \in Draining(q) :
          /\ Draining(q)' = Draining(q) \ {c}
          /\ Unmoved(Draining(q) \ {c})
    /\ "DRAIN" \in qflags'[q] => "DRAIN" \in qflags[q]

DrainStep(q) == DrainKept(q) \/ DrainBegun(q) \/ DrainAnswered(q) \/ DrainTaken(q)

\* Calls that are no drains, before and after.
LEMMA OtherCallStep ==
    ASSUME TypeOK, NEW c \in Clients, NEW q \in Queues,
           call[c] \notin {"drain", "destroy"}, call'[c] \notin {"drain", "destroy"},
           \A d \in Clients \ {c} : call'[d] = call[d] /\ on'[d] = on[d],
           drained' = drained, NothingAsked(q)
    PROVE  DrainKept(q)
    BY DEF DrainKept, Draining, Unmoved

LEMMA BeginDrainStep ==
    ASSUME TypeOK, NEW c \in Clients, NEW p \in Queues, NEW plug \in BOOLEAN, NEW what \in {"drain", "destroy"},
           MayCall(c), life[p] = "open", BeginDrain(c, p, plug), Enter(c, what, p),
           "one_drainer" \in Discipline => NoDrainOn(p),
           NEW q \in Queues
    PROVE  DrainStep(q)
<1>1. call[c] = "idle"
    BY DistinctObjects DEF MayCall
<1>2. /\ call'[c] = what /\ on'[c] = p
      /\ \A d \in Clients : d # c => call'[d] = call[d] /\ on'[d] = on[d] /\ drained'[d] = drained[d]
    BY DEF Enter, BeginDrain, TypeOK
<1>3. CASE q = p
    <2>1. c \notin Draining(q) /\ Draining(q)' = Draining(q) \cup {c}
        BY <1>1, <1>2, <1>3 DEF Draining
    <2>2. Unmoved(Draining(q))
        BY <1>2, <2>1 DEF Unmoved, Draining
    <2> QED
        BY <1>3, <2>1, <2>2 DEF DrainStep, DrainBegun, BeginDrain, NoDrainOn, Draining
<1>4. CASE q # p
    <2>1. NothingAsked(q)
        BY <1>4 DEF NothingAsked, BeginDrain, TypeOK
    <2>2. Draining(q)' = Draining(q)
        BY <1>1, <1>2, <1>4 DEF Draining
    <2>3. Unmoved(Draining(q))
        BY <1>1, <1>2 DEF Unmoved, Draining
    <2> QED
        BY <2>1, <2>2, <2>3 DEF DrainStep, DrainKept
<1> QED
    BY <1>3, <1>4

LEMMA TokenTakenStep ==
    ASSUME TypeOK, CallsOK, NEW c \in Clients, NEW what \in {"drain", "destroy"},
           TokenTaken(c, what), call'[c] \notin {"drain", "destroy"},
           \A d \in Clients \ {c} : call'[d] = call[d] /\ on'[d] = on[d],
           \A q \in Queues : "DRAIN" \in qflags'[q] => "DRAIN" \in qflags[q],
           NEW q \in Queues
    PROVE  DrainStep(q)
<1>1. /\ call[c] = what /\ on[c] \in Queues /\ drained' = drained
      /\ drainq[on[c]] /\ drainq' = [drainq EXCEPT ![on[c]] = FALSE]
    BY DEF TokenTaken, CallsOK, OnQueue, ghostVars
<1>2. CASE q = on[c]
    <2>1. c \in Draining(q) /\ Draining(q)' = Draining(q) \ {c}
        BY <1>1, <1>2 DEF Draining
    <2>2. Unmoved(Draining(q) \ {c})
        BY <1>1 DEF Unmoved, Draining
    <2> QED
        BY <1>1, <1>2, <2>1, <2>2 DEF DrainStep, DrainTaken, TypeOK
<1>3. CASE q # on[c]
    <2>1. Draining(q)' = Draining(q) /\ Unmoved(Draining(q))
        BY <1>1, <1>3 DEF Draining, Unmoved
    <2> QED
        BY <1>1, <1>3, <2>1 DEF DrainStep, DrainKept, NothingAsked, TypeOK
<1> QED
    BY <1>2, <1>3

LEMMA DrainSteps ==
    ASSUME TypeOK, CallsOK, [Next]_vars, NEW q \in Queues
    PROVE  DrainStep(q)
<1>1. ASSUME UNCHANGED <<call, on, drained>>, NothingAsked(q)
      PROVE  DrainStep(q)
    BY <1>1 DEF DrainStep, DrainKept, Draining, Unmoved
<1>2. ASSUME NEW c \in Clients, NEW what \in OnWork \cup (OnQueue \ {"drain", "destroy"}), NEW x,
             MayCall(c), Enter(c, what, x), drained' = drained, NothingAsked(q)
      PROVE  DrainStep(q)
    <2>1. call[c] = "idle" /\ call'[c] = what
        BY <1>2, DistinctObjects DEF MayCall, Enter, TypeOK
    <2>2. \A d \in Clients \ {c} : call'[d] = call[d] /\ on'[d] = on[d]
        BY <1>2 DEF Enter, TypeOK
    <2> QED
        BY <1>2, <2>1, <2>2, OtherCallStep DEF OnWork, OnQueue, DrainStep
<1>3. ASSUME NEW c \in Clients, call[c] \notin {"drain", "destroy"}, Leave(c), drained' = drained,
             NothingAsked(q)
      PROVE  DrainStep(q)
    <2>1. call'[c] = "idle" /\ \A d \in Clients \ {c} : call'[d] = call[d] /\ on'[d] = on[d]
        BY <1>3 DEF Leave, TypeOK
    <2> QED
        BY <1>3, <2>1, OtherCallStep DEF DrainStep
<1>4. ASSUME NEW c \in Clients, ClientNext(c)
      PROVE  DrainStep(q)
    <2> USE DEF OnWork, OnQueue
    <2>1. ASSUME NEW w \in Works, CancelSync(c, w) \/ Flush(c, w)
          PROVE  DrainStep(q)
        <3>1. NothingAsked(q) /\ drained' = drained
            BY <2>1 DEF CancelSync, Flush, NothingAsked
        <3> QED
            BY <1>1, <1>2, <2>1, <3>1 DEF CancelSync, Flush
    <2>2. ASSUME NEW p \in Queues, Start(c, p) \/ Run(c, p)
          PROVE  DrainStep(q)
        <3>1. NothingAsked(q) /\ drained' = drained
            <4>1. Launch(p)
                BY <2>2 DEF Start, Run
            <4>2. /\ qflags' = [qflags EXCEPT ![p] = {"STARTED"}]
                  /\ drainq' = [drainq EXCEPT ![p] = FALSE]
                  /\ drained' = drained
                BY <4>1 DEF Launch, ghostVars
            <4> QED
                BY <4>2 DEF NothingAsked, TypeOK
        <3> QED
            BY <1>1, <1>2, <2>2, <3>1 DEF Start, Run
    <2>3. ASSUME NEW p \in Queues, Destroy(c, p)
          PROVE  DrainStep(q)
        <3>1. CASE "STARTED" \in qflags[p]
            <4>1. \A d \in Clients : on[d] # p
                BY <2>3 DEF Destroy
            <4>2. /\ MayCall(c) /\ life[p] = "open" /\ BeginDrain(c, p, TRUE)
                  /\ Enter(c, "destroy", p) /\ NoDrainOn(p)
                BY <2>3, <3>1, <4>1 DEF Destroy, NoDrainOn
            <4> QED
                BY <4>2, BeginDrainStep
        <3>2. CASE "STARTED" \notin qflags[p]
            BY <1>1, <2>3, <3>2 DEF Destroy, NothingAsked, queueVars
        <3> QED
            BY <3>1, <3>2
    <2>4. ASSUME NEW p \in Queues, NEW plug \in BOOLEAN, Drain(c, p, plug)
          PROVE  DrainStep(q)
        BY <2>4, BeginDrainStep DEF Drain
    <2>5. ASSUME NEW p \in Queues, NEW how \in {"stop", "stop_for"}, Stop(c, p, how)
          PROVE  DrainStep(q)
        <3>1. NothingAsked(q) /\ drained' = drained
            BY <2>5 DEF Stop, AskStop, NothingAsked, TypeOK, ghostVars
        <3> QED
            BY <1>2, <2>5, <3>1 DEF Stop
    <2>6. ASSUME FlushReturn(c) \/ CancelReturn(c) \/ StopReturn(c) \/ StopForReturn(c)
                   \/ RunReturn(c) \/ DestroyReturn(c)
          PROVE  DrainStep(q)
        <3>1. NothingAsked(q) /\ drained' = drained
            BY <2>6 DEF FlushReturn, CancelReturn, SemTaken, StopReturn, StopForReturn, RunReturn,
                 DestroyReturn, NothingAsked, queueVars, ghostVars
        <3>2. call[c] \notin {"drain", "destroy"} /\ Leave(c)
            BY <2>6 DEF FlushReturn, CancelReturn, SemTaken, StopReturn, StopForReturn, RunReturn,
                 DestroyReturn
        <3> QED
            BY <1>3, <3>1, <3>2
    <2>7. ASSUME DrainReturn(c)
          PROVE  DrainStep(q)
        <3>1. call'[c] = "idle" /\ \A d \in Clients \ {c} : call'[d] = call[d] /\ on'[d] = on[d]
            BY <2>7 DEF DrainReturn, Leave, TypeOK
        <3> QED
            BY <2>7, <3>1, TokenTakenStep DEF DrainReturn
    <2>8. ASSUME DestroyDrained(c)
          PROVE  DrainStep(q)
        <3>1. call'[c] = "join" /\ \A d \in Clients \ {c} : call'[d] = call[d] /\ on'[d] = on[d]
            BY <2>8 DEF DestroyDrained, Enter, TypeOK
        <3>2. \A p \in Queues : "DRAIN" \in qflags'[p] => "DRAIN" \in qflags[p]
            <4>1. PICK r \in Queues : r = on[c]
                BY <2>8 DEF DestroyDrained, TokenTaken, CallsOK, OnQueue
            <4>2. qflags' = qflags \/ qflags' = [qflags EXCEPT ![r] = qflags[r] \cup {"STOP"}]
                BY <2>8, <4>1 DEF DestroyDrained, AskStop
            <4>3. \A p \in Queues : qflags'[p] = qflags[p] \/ qflags'[p] = qflags[p] \cup {"STOP"}
                BY <4>2 DEF TypeOK
            <4> QED
                BY <4>3
        <3> QED
            BY <2>8, <3>1, <3>2, TokenTakenStep DEF DestroyDrained
    <2> QED
        BY <1>4, <2>1, <2>2, <2>3, <2>4, <2>5, <2>6, <2>7, <2>8 DEF ClientNext
<1>5. ASSUME NEW t \in Threads, ThreadNext(t)
      PROVE  DrainStep(q)
    <2>1. UNCHANGED <<call, on, drained>> /\ NothingAsked(q)
        <3>1. /\ UNCHANGED <<call, on, drained, drainq>>
              /\ \/ UNCHANGED qflags
                 \/ \E p \in Queues : qflags' = [qflags EXCEPT ![p] = @ \ {"PLUGGED"}]
            BY <1>5 DEF ThreadNext, Submit, Resubmit, Cancel, SetHandler, Unplug, SubmitLocked,
                 callVars, ghostVars, queueVars
        <3> QED
            BY <3>1 DEF NothingAsked, TypeOK
    <2> QED
        BY <1>1, <2>1
<1>6. ASSUME NEW p \in Queues, WorkerStep(p) \/ Throw(p)
      PROVE  DrainStep(q)
    <2>1. CASE AnswerDrain(p) /\ p = q
        <3>1. /\ "DRAIN" \in qflags[q] /\ "DRAIN" \notin qflags'[q]
              /\ UNCHANGED <<call, on>> /\ pending[q] = <<>>
            BY <2>1 DEF AnswerDrain, Finds, TypeOK, callVars
        <3>2. \A c \in Draining(q) : drained'[c]
            BY <2>1, <3>1 DEF AnswerDrain, Draining
        <3> QED
            BY <3>1, <3>2 DEF DrainStep, DrainAnswered, Draining
    <2>2. CASE AnswerDrain(p) /\ p # q
        <3>1. NothingAsked(q) /\ UNCHANGED <<call, on>>
            BY <2>2 DEF AnswerDrain, NothingAsked, TypeOK, callVars
        <3>2. \A c \in Draining(q) : drained'[c] = drained[c]
            BY <2>2 DEF AnswerDrain, Draining, TypeOK
        <3> QED
            BY <3>1, <3>2 DEF DrainStep, DrainKept, Draining, Unmoved
    <2>3. CASE Take(p) \/ Quit(p) \/ Sleep(p) \/ Wake(p) \/ Finish(p) \/ Throw(p)
        <3>1. UNCHANGED <<call, on, drained>> /\ NothingAsked(q)
            BY <2>3 DEF Take, Quit, Sleep, Wake, Finish, IdleFlags, Throw, callVars, ghostVars,
                 queueVars, NothingAsked, TypeOK
        <3> QED
            BY <1>1, <3>1
    <2> QED
        BY <1>6, <2>1, <2>2, <2>3 DEF WorkerStep
<1>7. CASE UNCHANGED vars
    BY <1>1, <1>7 DEF vars, callVars, ghostVars, queueVars, NothingAsked
<1> QED
    BY <1>4, <1>5, <1>6, <1>7 DEF Next

-----------------------------------------------------------------------------
(* Tokens and drainers.                                                    *)

\* Every token, and every drain that was asked for, is that of a client that
\* waits for it; a token while another drain is asked for means two of them.
TokensAreOwed ==
    \A q \in Queues :
        /\ "DRAIN" \in qflags[q] \/ drainq[q] => Draining(q) # {}
        /\ "DRAIN" \in qflags[q] /\ drainq[q] => \E c, d \in Draining(q) : c # d

LEMMA TokensStep ==
    ASSUME TypeOK, CallsOK, TokensAreOwed, [Next]_vars
    PROVE  TokensAreOwed'
<1> SUFFICES ASSUME NEW q \in Queues
             PROVE  /\ "DRAIN" \in qflags'[q] \/ drainq'[q] => Draining(q)' # {}
                    /\ "DRAIN" \in qflags'[q] /\ drainq'[q] =>
                         \E c, d \in Draining(q)' : c # d
    BY DEF TokensAreOwed
<1>1. /\ "DRAIN" \in qflags[q] \/ drainq[q] => Draining(q) # {}
      /\ "DRAIN" \in qflags[q] /\ drainq[q] => \E c, d \in Draining(q) : c # d
    BY DEF TokensAreOwed
<1>2. CASE DrainKept(q)
    BY <1>1, <1>2 DEF DrainKept, NothingAsked
<1>3. CASE DrainBegun(q)
    <2>1. PICK c \in Clients \ Draining(q) : Draining(q)' = Draining(q) \cup {c}
        BY <1>3 DEF DrainBegun
    <2> QED
        BY <1>1, <1>3, <2>1 DEF DrainBegun
<1>4. CASE DrainAnswered(q)
    BY <1>1, <1>4 DEF DrainAnswered
<1>5. CASE DrainTaken(q)
    BY <1>1, <1>5 DEF DrainTaken
<1> QED
    BY <1>2, <1>3, <1>4, <1>5, DrainSteps DEF DrainStep

\* When one drain at a time is the rule, the token is for the one who drains,
\* and answers him.
OneDrainer ==
    \A q \in Queues :
        /\ \A c, d \in Draining(q) : c = d
        /\ drainq[q] => \A c \in Draining(q) : drained[c]

-----------------------------------------------------------------------------
(* The end of a queue.                                                     *)

\* Nothing is queued and the thread runs nothing.
Quiet(q) == pending[q] = <<>> /\ worker[q] \in {"top", "wait", "gone"}

\* A queue that is not open any more takes no new callers and no new nodes,
\* and its thread goes only where Quiet, or its death, lets it go.
ClosedStep(q) ==
    /\ \A c \in Clients :
         on'[c] = q => on[c] = q /\ (call'[c] = call[c] \/ DestroyDrained(c))
    /\ Quiet(q) => Quiet(q)'
    /\ worker[q] = "dead" => worker'[q] = "dead"
    /\ worker[q] \in {"unborn", "gone"} => worker'[q] = worker[q]
    /\ "DRAIN" \in qflags[q] => "DRAIN" \in qflags'[q] \/ (drainq'[q] /\ Quiet(q)')
    /\ drainq[q] => drainq'[q] \/ \E c \in Clients : on[c] = q /\ call'[c] # call[c]
    /\ life'[q] = life[q] \/ \E c \in Clients : DestroyReturn(c) /\ on[c] = q
    /\ joinable'[q] = joinable[q]
          \/ \E c \in Clients : on[c] = q /\ (DestroyReturn(c) \/ call[c] \in {"stop", "stop_for"})

\* What a step that touches neither the list nor the thread of q leaves.
LEMMA ClosedFrame ==
    ASSUME NEW q \in Queues,
           pending[q] = <<>> => pending'[q] = <<>>,
           worker'[q] = worker[q],
           "DRAIN" \in qflags[q] => "DRAIN" \in qflags'[q],
           life'[q] = life[q],
           \A c \in Clients :
               on'[c] = q => on[c] = q /\ (call'[c] = call[c] \/ DestroyDrained(c)),
           drainq[q] => drainq'[q] \/ \E c \in Clients : on[c] = q /\ call'[c] # call[c],
           joinable'[q] = joinable[q]
              \/ \E c \in Clients : on[c] = q /\ call[c] \in {"stop", "stop_for"}
    PROVE  ClosedStep(q)
    BY DEF ClosedStep, Quiet

LEMMA ClosedClientStep ==
    ASSUME TypeOK, CallsOK, LinkInv, NEW c \in Clients, ClientNext(c), NEW q \in Queues, life[q] # "open"
    PROVE  ClosedStep(q)
<1> USE DEF queueVars, workerVars, lifeVars
<1>1. ASSUME NEW w \in Works, CancelSync(c, w)
      PROVE  ClosedStep(q)
    <2>1. pending[q] = <<>> => pending'[q] = <<>>
        <3>1. ASSUME pending[q] = <<>> PROVE ~(Unlinks(w) /\ q = wqueue[w])
            <4>1. ~Contains(pending[q], w)
                BY <3>1, EmptySeq DEF Contains
            <4> QED
                BY <4>1 DEF Unlinks, LinkInv, QueuedIsLinked
        <3> QED
            BY <1>1, <3>1 DEF CancelSync, CancelAsync, PendingWithout, TypeOK
    <2>2. \A d \in Clients : on'[d] = q => on[d] = q /\ call'[d] = call[d]
        BY <1>1, DistinctObjects DEF CancelSync, Enter, TypeOK
    <2> QED
        BY <1>1, <2>1, <2>2, ClosedFrame DEF CancelSync
<1>2. ASSUME NEW w \in Works, Flush(c, w)
      PROVE  ClosedStep(q)
    <2>1. wqueue[w] # q
        BY <1>2, DistinctObjects DEF Flush, Reaches, Usable
    <2>2. pending'[q] = pending[q]
        BY <1>2, <2>1 DEF Flush, SetPending, TypeOK
    <2>3. \A d \in Clients : on'[d] = q => on[d] = q /\ call'[d] = call[d]
        BY <1>2, DistinctObjects DEF Flush, Enter, TypeOK
    <2> QED
        BY <1>2, <2>2, <2>3, ClosedFrame DEF Flush
<1>3. ASSUME NEW p \in Queues, Start(c, p) \/ Run(c, p)
      PROVE  ClosedStep(q)
    <2>1. Launch(p) /\ p # q
        BY <1>3 DEF Start, Run
    <2>2. /\ pending'[q] = pending[q] /\ worker'[q] = worker[q] /\ qflags'[q] = qflags[q]
          /\ drainq'[q] = drainq[q] /\ life' = life
        BY <2>1 DEF Launch, SetPending, TypeOK
    <2>3. joinable'[q] = joinable[q]
        BY <1>3, <2>1 DEF Start, Run, TypeOK
    <2>4. \A d \in Clients : on'[d] = q => on[d] = q /\ call'[d] = call[d]
        BY <1>3, <2>1 DEF Start, Run, Enter, TypeOK
    <2> QED
        BY <2>2, <2>3, <2>4, ClosedFrame
<1>4. ASSUME NEW p \in Queues, NEW plug \in BOOLEAN, NEW what, p # q,
             BeginDrain(c, p, plug), Enter(c, what, p), UNCHANGED <<worker, joinable>>,
             life'[q] = life[q]
      PROVE  ClosedStep(q)
    <2>1. /\ qflags'[q] = qflags[q] /\ drainq' = drainq /\ pending' = pending
          /\ \A d \in Clients : on'[d] = q => on[d] = q /\ call'[d] = call[d]
        BY <1>4 DEF BeginDrain, Enter, TypeOK
    <2> QED
        BY <1>4, <2>1, ClosedFrame
<1>5. ASSUME NEW p \in Queues, Destroy(c, p)
      PROVE  ClosedStep(q)
    <2>1. p # q /\ life'[q] = life[q]
        BY <1>5 DEF Destroy, TypeOK
    <2>2. CASE "STARTED" \in qflags[p]
        BY <1>4, <1>5, <2>1, <2>2 DEF Destroy
    <2>3. CASE "STARTED" \notin qflags[p]
        BY <1>5, <2>1, <2>3, ClosedFrame DEF Destroy, TypeOK
    <2> QED
        BY <2>2, <2>3
<1>6. ASSUME NEW p \in Queues, NEW plug \in BOOLEAN, Drain(c, p, plug)
      PROVE  ClosedStep(q)
    BY <1>4, <1>6 DEF Drain
<1>7. ASSUME NEW p \in Queues, NEW how \in {"stop", "stop_for"}, Stop(c, p, how)
      PROVE  ClosedStep(q)
    <2>1. p # q
        BY <1>7 DEF Stop
    <2>2. /\ qflags'[q] = qflags[q]
          /\ \A d \in Clients : on'[d] = q => on[d] = q /\ call'[d] = call[d]
        BY <1>7, <2>1 DEF Stop, AskStop, Enter, TypeOK
    <2> QED
        BY <1>7, <2>2, ClosedFrame DEF Stop
<1>8. ASSUME Leave(c)
      PROVE  \A d \in Clients : on'[d] = q => on[d] = q /\ call'[d] = call[d]
    BY <1>8, DistinctObjects DEF Leave, TypeOK
<1>9. ASSUME FlushReturn(c) \/ CancelReturn(c) \/ RunReturn(c)
      PROVE  ClosedStep(q)
    BY <1>8, <1>9, ClosedFrame DEF FlushReturn, CancelReturn, SemTaken, RunReturn
<1>10. ASSUME DrainReturn(c)
       PROVE  ClosedStep(q)
    <2>1. call'[c] # call[c] /\ (on[c] # q => drainq'[q] = drainq[q])
        BY <1>10 DEF DrainReturn, TokenTaken, Leave, TypeOK
    <2> QED
        BY <1>8, <1>10, <2>1, ClosedFrame DEF DrainReturn, TokenTaken
<1>11. ASSUME StopReturn(c) \/ StopForReturn(c)
       PROVE  ClosedStep(q)
    <2>1. joinable'[q] = joinable[q] \/ (on[c] = q /\ call[c] \in {"stop", "stop_for"})
        BY <1>11 DEF StopReturn, StopForReturn, Joined, TypeOK
    <2> QED
        BY <1>8, <1>11, <2>1, ClosedFrame DEF StopReturn, StopForReturn
<1>12. ASSUME DestroyDrained(c)
       PROVE  ClosedStep(q)
    <2>1. call'[c] # call[c] /\ (on[c] # q => drainq'[q] = drainq[q])
        BY <1>12 DEF DestroyDrained, TokenTaken, Enter, TypeOK
    <2>2. \A d \in Clients : on'[d] = q => on[d] = q /\ (call'[d] = call[d] \/ DestroyDrained(d))
        BY <1>12 DEF DestroyDrained, Enter, TypeOK
    <2>3. "DRAIN" \in qflags[q] => "DRAIN" \in qflags'[q]
        <3>1. PICK r \in Queues : r = on[c]
            BY <1>12 DEF DestroyDrained, TokenTaken, CallsOK, OnQueue
        <3>2. qflags' = qflags \/ qflags' = [qflags EXCEPT ![r] = qflags[r] \cup {"STOP"}]
            BY <1>12, <3>1 DEF DestroyDrained, AskStop
        <3>3. \A p \in Queues : qflags'[p] = qflags[p] \/ qflags'[p] = qflags[p] \cup {"STOP"}
            BY <3>2 DEF TypeOK
        <3> QED
            BY <3>3
    <2> QED
        BY <1>12, <2>1, <2>2, <2>3, ClosedFrame DEF DestroyDrained, TokenTaken
<1>13. ASSUME DestroyReturn(c)
       PROVE  ClosedStep(q)
    <2>1. /\ life'[q] = life[q] \/ on[c] = q
          /\ joinable'[q] = joinable[q] \/ on[c] = q
        BY <1>13 DEF DestroyReturn, Joined, TypeOK
    <2> QED
        BY <1>8, <1>13, <2>1 DEF DestroyReturn, ClosedStep, Quiet
<1> QED
    BY <1>1, <1>2, <1>3, <1>5, <1>6, <1>7, <1>9, <1>10, <1>11, <1>12, <1>13 DEF ClientNext

LEMMA ClosedThreadStep ==
    ASSUME TypeOK, LinkInv, NEW t \in Threads, ThreadNext(t), NEW q \in Queues, life[q] # "open"
    PROVE  ClosedStep(q)
<1> USE DEF queueVars, workerVars, lifeVars, callVars
<1>1. ASSUME NEW w \in Works, NEW p \in Queues, MayCall(t), SubmitLocked(t, w, p)
      PROVE  ClosedStep(q)
    <2>1. CASE p # q
        <3>1. pending'[q] = pending[q]
            BY <1>1, <2>1 DEF SubmitLocked, SetPending, TypeOK
        <3> QED
            BY <1>1, <3>1, ClosedFrame DEF SubmitLocked
    <2>2. CASE p = q
        <3>1. worker[q] = "handler"
            BY <1>1, <2>2, DistinctObjects DEF SubmitLocked, Usable, MayCall
        <3> QED
            BY <1>1, <3>1 DEF SubmitLocked, ClosedStep, Quiet
    <2> QED
        BY <2>1, <2>2
<1>2. ASSUME NEW w \in Works, NEW p \in Queues, Submit(t, w, p)
      PROVE  ClosedStep(q)
    <2>1. Target(w, p) \in Queues
        BY BusyWork DEF Target
    <2> QED
        BY <1>1, <1>2, <2>1 DEF Submit
<1>3. ASSUME NEW w \in Works, Resubmit(t, w)
      PROVE  ClosedStep(q)
    BY <1>1, <1>3 DEF Resubmit, TypeOK
<1>4. ASSUME NEW w \in Works, Cancel(t, w)
      PROVE  ClosedStep(q)
    <2>1. pending[q] = <<>> => pending'[q] = <<>>
        <3>1. ASSUME pending[q] = <<>> PROVE ~(Unlinks(w) /\ q = wqueue[w])
            <4>1. ~Contains(pending[q], w)
                BY <3>1, EmptySeq DEF Contains
            <4> QED
                BY <4>1 DEF Unlinks, LinkInv, QueuedIsLinked
        <3> QED
            BY <1>4, <3>1 DEF Cancel, CancelAsync, PendingWithout, TypeOK
    <2> QED
        BY <1>4, <2>1, ClosedFrame DEF Cancel
<1>5. ASSUME NEW w \in Works, NEW h \in Handlers, SetHandler(t, w, h)
      PROVE  ClosedStep(q)
    BY <1>5, ClosedFrame DEF SetHandler
<1>6. ASSUME NEW p \in Queues, Unplug(t, p)
      PROVE  ClosedStep(q)
    <2>1. "DRAIN" \in qflags[q] => "DRAIN" \in qflags'[q]
        BY <1>6 DEF Unplug, TypeOK
    <2> QED
        BY <1>6, <2>1, ClosedFrame DEF Unplug
<1> QED
    BY <1>2, <1>3, <1>4, <1>5, <1>6 DEF ThreadNext

LEMMA ClosedWorkerStep ==
    ASSUME TypeOK, NEW p \in Queues, WorkerStep(p) \/ Throw(p), NEW q \in Queues
    PROVE  ClosedStep(q)
<1> USE DEF queueVars, workerVars, lifeVars, callVars
<1>1. CASE p # q
    <2>1. /\ pending'[q] = pending[q] /\ worker'[q] = worker[q] /\ qflags'[q] = qflags[q]
          /\ drainq'[q] = drainq[q] /\ UNCHANGED <<life, joinable, call, on>>
        BY <1>1 DEF WorkerStep, Take, AnswerDrain, Quit, Sleep, Wake, Finish, IdleFlags, Throw,
             SetPending, TypeOK
    <2> QED
        BY <2>1, ClosedFrame
<1>2. CASE p = q /\ (Take(q) \/ Finish(q) \/ Throw(q))
    <2>1. ~Quiet(q) /\ worker[q] \notin {"dead", "unborn", "gone"}
        BY <1>2 DEF Take, Finds, Finish, Throw, Quiet
    <2>2. "DRAIN" \in qflags[q] => "DRAIN" \in qflags'[q]
        BY <1>2 DEF Take, Finish, IdleFlags, Throw, TypeOK
    <2> QED
        BY <1>2, <2>1, <2>2 DEF Take, Finish, Throw, ClosedStep
<1>3. CASE p = q /\ AnswerDrain(q)
    <2>1. pending[q] = <<>> /\ worker'[q] = "wait" /\ pending' = pending /\ drainq'[q]
        BY <1>3 DEF AnswerDrain, Finds, TypeOK
    <2> QED
        BY <1>3, <2>1 DEF AnswerDrain, ClosedStep, Quiet
<1>4. CASE p = q /\ (Quit(q) \/ Sleep(q) \/ Wake(q))
    <2>1. /\ worker[q] \in {"top", "wait"} /\ worker'[q] \in {"top", "wait", "gone"}
          /\ "DRAIN" \in qflags[q] => qflags'[q] = qflags[q]
        BY <1>4 DEF Quit, Finds, Sleep, Wake, TypeOK
    <2> QED
        BY <1>4, <2>1 DEF Quit, Sleep, Wake, ClosedStep, Quiet
<1> QED
    BY <1>1, <1>2, <1>3, <1>4 DEF WorkerStep

LEMMA ClosedSteps ==
    ASSUME TypeOK, CallsOK, LinkInv, [Next]_vars, NEW q \in Queues, life[q] # "open"
    PROVE  ClosedStep(q)
<1>1. CASE UNCHANGED vars
    BY <1>1, ClosedFrame DEF vars, queueVars, workerVars, lifeVars, callVars
<1> QED
    BY <1>1, ClosedClientStep, ClosedThreadStep, ClosedWorkerStep DEF Next

\* The thread of a queue runs only while the queue is started.
Started == \A q \in Queues : worker[q] \notin {"unborn", "gone"} => "STARTED" \in qflags[q]

LEMMA StartedStep ==
    ASSUME TypeOK, CallsOK, Started, [Next]_vars
    PROVE  Started'
<1> USE DEF queueVars, workerVars, Started
<1>1. ASSUME worker' = worker,
             \A q \in Queues : "STARTED" \in qflags[q] => "STARTED" \in qflags'[q]
      PROVE  Started'
    BY <1>1
<1>2. ASSUME NEW c \in Clients, ClientNext(c)
      PROVE  Started'
    <2>1. ASSUME NEW q \in Queues, Start(c, q) \/ Run(c, q)
          PROVE  Started'
        <3>1. Launch(q)
            BY <2>1 DEF Start, Run
        <3>2. /\ qflags'[q] = {"STARTED"}
              /\ \A p \in Queues : p # q => worker'[p] = worker[p] /\ qflags'[p] = qflags[p]
            BY <3>1 DEF Launch, TypeOK
        <3> QED
            BY <3>2
    <2>2. ASSUME DestroyDrained(c)
          PROVE  Started'
        <3>1. PICK r \in Queues : r = on[c]
            BY <2>2 DEF DestroyDrained, TokenTaken, CallsOK, OnQueue
        <3>2. qflags' = qflags \/ qflags' = [qflags EXCEPT ![r] = qflags[r] \cup {"STOP"}]
            BY <2>2, <3>1 DEF DestroyDrained, AskStop
        <3>3. \A p \in Queues : qflags'[p] = qflags[p] \/ qflags'[p] = qflags[p] \cup {"STOP"}
            BY <3>2 DEF TypeOK
        <3> QED
            BY <1>1, <2>2, <3>3 DEF DestroyDrained, TokenTaken
    <2>3. ASSUME NEW q \in Queues, NEW plug \in BOOLEAN, BeginDrain(c, q, plug),
                 worker' = worker
          PROVE  Started'
        BY <1>1, <2>3 DEF BeginDrain, TypeOK
    <2>4. ASSUME NEW q \in Queues, Destroy(c, q)
          PROVE  Started'
        <3>1. CASE "STARTED" \in qflags[q]
            BY <2>3, <2>4, <3>1 DEF Destroy
        <3>2. CASE "STARTED" \notin qflags[q]
            BY <1>1, <2>4, <3>2 DEF Destroy
        <3> QED
            BY <3>1, <3>2
    <2>5. ASSUME NEW q \in Queues, NEW plug \in BOOLEAN, Drain(c, q, plug)
          PROVE  Started'
        BY <2>3, <2>5 DEF Drain
    <2>6. ASSUME NEW q \in Queues, NEW how \in {"stop", "stop_for"}, Stop(c, q, how)
          PROVE  Started'
        BY <1>1, <2>6 DEF Stop, AskStop, TypeOK
    <2>7. ASSUME NEW w \in Works, CancelSync(c, w) \/ Flush(c, w)
          PROVE  Started'
        BY <1>1, <2>7 DEF CancelSync, Flush
    <2>8. ASSUME FlushReturn(c) \/ CancelReturn(c) \/ DrainReturn(c) \/ StopReturn(c)
                   \/ StopForReturn(c) \/ RunReturn(c) \/ DestroyReturn(c)
          PROVE  Started'
        BY <1>1, <2>8 DEF FlushReturn, CancelReturn, SemTaken, DrainReturn, TokenTaken,
             StopReturn, StopForReturn, RunReturn, DestroyReturn
    <2> QED
        BY <1>2, <2>1, <2>2, <2>4, <2>5, <2>6, <2>7, <2>8 DEF ClientNext
<1>3. ASSUME NEW t \in Threads, ThreadNext(t)
      PROVE  Started'
    <2>1. /\ worker' = worker
          /\ \/ UNCHANGED qflags
             \/ \E p \in Queues : qflags' = [qflags EXCEPT ![p] = @ \ {"PLUGGED"}]
        BY <1>3 DEF ThreadNext, Submit, Resubmit, Cancel, SetHandler, Unplug, SubmitLocked
    <2>2. \A p \in Queues : qflags'[p] = qflags[p] \/ qflags'[p] = qflags[p] \ {"PLUGGED"}
        BY <2>1 DEF TypeOK
    <2> QED
        BY <1>1, <2>1, <2>2
<1>4. ASSUME NEW q \in Queues, WorkerStep(q) \/ Throw(q)
      PROVE  Started'
    <2>1. CASE Quit(q)
        BY <2>1 DEF Quit, TypeOK
    <2>2. CASE Take(q) \/ AnswerDrain(q) \/ Sleep(q) \/ Wake(q) \/ Finish(q) \/ Throw(q)
        <3>1. \A p \in Queues : p # q => worker'[p] = worker[p]
            BY <2>2 DEF Take, AnswerDrain, Sleep, Wake, Finish, Throw, TypeOK
        <3>2. \A p \in Queues : "STARTED" \in qflags[p] => "STARTED" \in qflags'[p]
            <4>1. \/ UNCHANGED qflags
                  \/ \E f \in {"BUSY", "DRAIN"} :
                        \/ qflags' = [qflags EXCEPT ![q] = qflags[q] \cup {f}]
                        \/ qflags' = [qflags EXCEPT ![q] = qflags[q] \ {f}]
                BY <2>2 DEF Take, AnswerDrain, Sleep, Wake, Finish, IdleFlags, Throw
            <4>2. \A p \in Queues : \E f \in {"BUSY", "DRAIN"} :
                        qflags'[p] \in {qflags[p], qflags[p] \cup {f}, qflags[p] \ {f}}
                BY <4>1 DEF TypeOK
            <4> QED
                BY <4>2
        <3>3. worker[q] \notin {"unborn", "gone"}
            BY <2>2 DEF Take, AnswerDrain, Sleep, Wake, Finish, Throw
        <3> QED
            BY <3>1, <3>2, <3>3
    <2> QED
        BY <1>4, <2>1, <2>2 DEF WorkerStep
<1>5. CASE UNCHANGED vars
    BY <1>1, <1>5 DEF vars
<1> QED
    BY <1>2, <1>3, <1>4, <1>5 DEF Next

\* A queue stays open until its destructor is called, and a destructor is in
\* progress only on a queue that is not open any more.
LEMMA OpenStep ==
    ASSUME TypeOK, CallsOK, [Next]_vars, NEW q \in Queues, life[q] = "open",
           \A c \in Clients : on[c] = q => call[c] \notin {"destroy", "join"},
           \A c \in Clients : ~Destroy(c, q)
    PROVE  /\ life'[q] = "open"
           /\ \A c \in Clients : on'[c] = q => call'[c] \notin {"destroy", "join"}
<1> USE DEF lifeVars, callVars
<1>1. ASSUME UNCHANGED <<life, call, on>>
      PROVE  /\ life'[q] = "open"
             /\ \A c \in Clients : on'[c] = q => call'[c] \notin {"destroy", "join"}
    BY <1>1
<1>2. ASSUME NEW c \in Clients, NEW what, what \notin {"destroy", "join"}, NEW x,
             Enter(c, what, x), life' = life
      PROVE  /\ life'[q] = "open"
             /\ \A d \in Clients : on'[d] = q => call'[d] \notin {"destroy", "join"}
    BY <1>2 DEF Enter, TypeOK
<1>3. ASSUME NEW c \in Clients, ClientNext(c)
      PROVE  /\ life'[q] = "open"
             /\ \A d \in Clients : on'[d] = q => call'[d] \notin {"destroy", "join"}
    <2>1. ASSUME NEW w \in Works, CancelSync(c, w) \/ Flush(c, w)
          PROVE  /\ life'[q] = "open"
                 /\ \A d \in Clients : on'[d] = q => call'[d] \notin {"destroy", "join"}
        BY <1>1, <1>2, <2>1 DEF CancelSync, Flush
    <2>2. ASSUME NEW p \in Queues, Start(c, p) \/ Run(c, p)
          PROVE  /\ life'[q] = "open"
                 /\ \A d \in Clients : on'[d] = q => call'[d] \notin {"destroy", "join"}
        BY <1>1, <1>2, <2>2 DEF Start, Run, Launch
    <2>3. ASSUME NEW p \in Queues, Destroy(c, p)
          PROVE  /\ life'[q] = "open"
                 /\ \A d \in Clients : on'[d] = q => call'[d] \notin {"destroy", "join"}
        <3>1. p # q
            BY <2>3
        <3> QED
            BY <2>3, <3>1 DEF Destroy, Enter, TypeOK
    <2>4. ASSUME NEW p \in Queues, NEW plug \in BOOLEAN, Drain(c, p, plug)
          PROVE  /\ life'[q] = "open"
                 /\ \A d \in Clients : on'[d] = q => call'[d] \notin {"destroy", "join"}
        BY <1>2, <2>4 DEF Drain
    <2>5. ASSUME NEW p \in Queues, NEW how \in {"stop", "stop_for"}, Stop(c, p, how)
          PROVE  /\ life'[q] = "open"
                 /\ \A d \in Clients : on'[d] = q => call'[d] \notin {"destroy", "join"}
        BY <1>2, <2>5 DEF Stop
    <2>6. ASSUME DestroyDrained(c) \/ DestroyReturn(c)
          PROVE  /\ life'[q] = "open"
                 /\ \A d \in Clients : on'[d] = q => call'[d] \notin {"destroy", "join"}
        <3>1. on[c] # q
            BY <2>6 DEF DestroyDrained, TokenTaken, DestroyReturn
        <3> QED
            BY <2>6, <3>1, DistinctObjects DEF DestroyDrained, TokenTaken, DestroyReturn, Enter, Leave, TypeOK
    <2>7. ASSUME FlushReturn(c) \/ CancelReturn(c) \/ DrainReturn(c) \/ StopReturn(c)
                   \/ StopForReturn(c) \/ RunReturn(c)
          PROVE  /\ life'[q] = "open"
                 /\ \A d \in Clients : on'[d] = q => call'[d] \notin {"destroy", "join"}
        <3>1. life' = life /\ Leave(c)
            BY <2>7 DEF FlushReturn, CancelReturn, SemTaken, DrainReturn, TokenTaken, StopReturn,
                 StopForReturn, RunReturn
        <3> QED
            BY <3>1 DEF Leave, TypeOK
    <2> QED
        BY <1>3, <2>1, <2>2, <2>3, <2>4, <2>5, <2>6, <2>7 DEF ClientNext
<1>4. ASSUME NEW t \in Threads, ThreadNext(t)
      PROVE  UNCHANGED <<life, call, on>>
    BY <1>4 DEF ThreadNext, Submit, Resubmit, Cancel, SetHandler, Unplug, SubmitLocked
<1>5. ASSUME NEW p \in Queues, WorkerStep(p) \/ Throw(p)
      PROVE  UNCHANGED <<life, call, on>>
    BY <1>5 DEF WorkerStep, Take, AnswerDrain, Quit, Sleep, Wake, Finish, Throw
<1>6. UNCHANGED vars => UNCHANGED <<life, call, on>>
    BY DEF vars
<1> QED
    BY <1>1, <1>3, <1>4, <1>5, <1>6 DEF Next

\* Where a destructor is: it is alone on its queue, its token comes when the
\* list is empty for good, and until it returns there is a thread to join, or
\* one that died.
Closing(q) ==
    /\ \A c, d \in Clients : on[c] = q /\ on[d] = q => c = d
    /\ joinable[q] \/ worker[q] = "dead"
    /\ \A c \in Clients : on[c] = q =>
          \/ call[c] = "destroy" /\ ("DRAIN" \in qflags[q] \/ (drainq[q] /\ Quiet(q)))
          \/ call[c] = "join" /\ Quiet(q)

Destroying ==
    \A q \in Queues :
        /\ life[q] = "open" => \A c \in Clients : on[c] = q => call[c] \notin {"destroy", "join"}
        /\ life[q] = "closing" => Closing(q)
        /\ life[q] = "destroyed" =>
              worker[q] \in {"unborn", "gone"} /\ \A c \in Clients : on[c] # q

\* The inductive invariant behind the end of a queue.
LifeInv == LinkInv /\ CallsOK /\ TokensAreOwed /\ Started /\ Destroying

LEMMA DestroyingOpen ==
    ASSUME LifeInv, [Next]_vars, NEW q \in Queues, life[q] = "open"
    PROVE  /\ life'[q] = "open" => \A c \in Clients : on'[c] = q => call'[c] \notin {"destroy", "join"}
           /\ life'[q] = "closing" => Closing(q)'
           /\ life'[q] = "destroyed" =>
                 worker'[q] \in {"unborn", "gone"} /\ \A c \in Clients : on'[c] # q
<1> USE DEF LifeInv
<1>1. CASE \A c \in Clients : ~Destroy(c, q)
    BY <1>1, OpenStep DEF Destroying, LinkInv
<1>2. ASSUME NEW c \in Clients, Destroy(c, q), "STARTED" \in qflags[q]
      PROVE  life'[q] = "closing" /\ Closing(q)'
    <2>1. /\ BeginDrain(c, q, TRUE) /\ Enter(c, "destroy", q)
          /\ life' = [life EXCEPT ![q] = "closing"]
          /\ UNCHANGED <<joinable, worker>>
          /\ \A d \in Clients : on[d] # q
          /\ worker[q] \in {"unborn", "gone", "dead"} \/ joinable[q]
        BY <1>2 DEF Destroy, workerVars
    <2>2. \A d \in Clients : on'[d] = q => d = c /\ call'[d] = "destroy"
        BY <2>1 DEF Enter, LinkInv, TypeOK
    <2>3. "DRAIN" \in qflags'[q]
        BY <2>1 DEF BeginDrain, DrainFlags, LinkInv, TypeOK
    <2>4. worker[q] \notin {"unborn", "gone"}
        BY <1>2 DEF LinkInv, Blank
    <2> QED
        BY <2>1, <2>2, <2>3, <2>4 DEF Closing, LinkInv, TypeOK
<1>3. ASSUME NEW c \in Clients, Destroy(c, q), "STARTED" \notin qflags[q]
      PROVE  /\ life'[q] = "destroyed"
             /\ worker'[q] \in {"unborn", "gone"} /\ \A d \in Clients : on'[d] # q
    BY <1>3 DEF Destroy, workerVars, Started, LinkInv, TypeOK
<1> QED
    BY <1>1, <1>2, <1>3

LEMMA DestroyingClosed ==
    ASSUME LifeInv, [Next]_vars, NEW q \in Queues, life[q] # "open"
    PROVE  /\ life'[q] # "open"
           /\ life'[q] = "closing" => Closing(q)'
           /\ life'[q] = "destroyed" =>
                 worker'[q] \in {"unborn", "gone"} /\ \A c \in Clients : on'[c] # q
<1> USE DEF LifeInv
<1>1. ClosedStep(q)
    BY ClosedSteps DEF LinkInv
<1>2. ASSUME NEW c \in Clients, DestroyReturn(c), on[c] = q
      PROVE  /\ life'[q] = "destroyed" /\ life[q] = "closing"
             /\ worker'[q] = "gone" /\ \A d \in Clients : on'[d] # q
    <2>1. call[c] = "join" /\ life'[q] = "destroyed" /\ worker' = worker
          /\ (joinable[q] => Ended(q))
        BY <1>2 DEF DestroyReturn, Joined, workerVars, LinkInv, TypeOK
    <2>2. life[q] = "closing" /\ Closing(q)
        BY <1>2 DEF Destroying, LinkInv, TypeOK
    <2>3. worker[q] = "gone"
        BY <1>2, <2>1, <2>2 DEF Closing, Quiet, Ended
    <2>4. \A d \in Clients : on[d] = q => d = c
        BY <1>2, <2>2 DEF Closing
    <2>5. on'[c] # q /\ \A d \in Clients : d # c => on'[d] = on[d]
        BY <1>2, DistinctObjects DEF DestroyReturn, Leave, LinkInv, TypeOK
    <2> QED
        BY <2>1, <2>2, <2>3, <2>4, <2>5
<1>3. CASE life'[q] # life[q]
    BY <1>1, <1>2, <1>3 DEF ClosedStep
<1>4. CASE life'[q] = life[q] /\ life[q] = "destroyed"
    BY <1>1, <1>4 DEF ClosedStep, Destroying
<1>5. CASE life'[q] = life[q] /\ life[q] = "closing"
    <2>1. Closing(q) /\ \A c \in Clients : ~(DestroyReturn(c) /\ on[c] = q)
        BY <1>2, <1>5 DEF Destroying
    <2>2. \A c \in Clients : on'[c] = q => on[c] = q /\ (call'[c] = call[c] \/ DestroyDrained(c))
        BY <1>1 DEF ClosedStep
    <2>3. \A c, d \in Clients : on'[c] = q /\ on'[d] = q => c = d
        BY <2>1, <2>2 DEF Closing
    <2>4. joinable'[q] \/ worker'[q] = "dead"
        <3>1. \A c \in Clients : on[c] = q => call[c] \in {"destroy", "join"}
            BY <2>1 DEF Closing
        <3>2. joinable'[q] = joinable[q]
            BY <1>1, <2>1, <3>1 DEF ClosedStep
        <3> QED
            BY <1>1, <2>1, <3>2 DEF ClosedStep, Closing
    <2>5. ASSUME NEW c \in Clients, on'[c] = q, DestroyDrained(c)
          PROVE  call'[c] = "join" /\ Quiet(q)'
        <3>1. call[c] = "destroy" /\ drainq[q] /\ call'[c] = "join" /\ on[c] = q
            BY <2>2, <2>5 DEF DestroyDrained, TokenTaken, Enter, LinkInv, TypeOK
        <3>2. "DRAIN" \notin qflags[q]
            BY <2>1, <3>1 DEF TokensAreOwed, Draining, Closing
        <3> QED
            BY <1>1, <2>1, <3>1, <3>2 DEF Closing, ClosedStep
    <2>6. ASSUME NEW c \in Clients, on'[c] = q, call'[c] = call[c], call[c] = "destroy"
          PROVE  "DRAIN" \in qflags'[q] \/ (drainq'[q] /\ Quiet(q)')
        <3>1. \A d \in Clients : on[d] = q => d = c
            BY <2>1, <2>2, <2>6 DEF Closing
        <3>2. drainq[q] => drainq'[q]
            BY <1>1, <2>6, <3>1 DEF ClosedStep
        <3>3. "DRAIN" \in qflags[q] \/ (drainq[q] /\ Quiet(q))
            BY <2>1, <2>2, <2>6 DEF Closing
        <3> QED
            BY <1>1, <3>2, <3>3 DEF ClosedStep
    <2>7. ASSUME NEW c \in Clients, on'[c] = q, call'[c] = call[c], call[c] # "destroy"
          PROVE  call'[c] = "join" /\ Quiet(q)'
        BY <1>1, <2>1, <2>2, <2>7 DEF Closing, ClosedStep
    <2>8. \A c \in Clients : on'[c] = q =>
             \/ call'[c] = "destroy" /\ ("DRAIN" \in qflags'[q] \/ (drainq'[q] /\ Quiet(q)'))
             \/ call'[c] = "join" /\ Quiet(q)'
        BY <2>2, <2>5, <2>6, <2>7
    <2> QED
        BY <1>5, <2>3, <2>4, <2>8 DEF Closing
<1> QED
    BY <1>3, <1>4, <1>5 DEF LinkInv, TypeOK

LEMMA LifeCorrect ==
    ASSUME "no_relaunch" \in Discipline
    PROVE  Spec => []LifeInv
<1>1. Init => LifeInv
    <2> SUFFICES ASSUME Init
                 PROVE  LifeInv
        OBVIOUS
    <2>1. CallsOK /\ TokensAreOwed /\ Started /\ Destroying
        BY DistinctObjects DEF Init, CallsOK, OnWork, OnQueue, TokensAreOwed, Draining, Started,
             Destroying
    <2> QED
        BY <2>1, LinkInit DEF LifeInv
<1>2. LifeInv /\ LinkInv' /\ [Next]_vars => LifeInv'
    <2> SUFFICES ASSUME LifeInv, LinkInv', [Next]_vars
                 PROVE  LifeInv'
        OBVIOUS
    <2>1. CallsOK' /\ TokensAreOwed' /\ Started'
        BY CallsStep, TokensStep, StartedStep DEF LifeInv, LinkInv
    <2>2. Destroying'
        BY DestroyingOpen, DestroyingClosed DEF Destroying
    <2> QED
        BY <2>1, <2>2 DEF LifeInv
<1> QED
    BY <1>1, <1>2, LinkCorrect, PTL DEF Spec

\* A queue that is destroyed has no thread, no node, no caller and no work
\* in progress: the destructor of WorkQ returns only then, whatever handlers
\* did during its drain.
THEOREM DestroyedIsUnusedCorrect ==
    ASSUME "no_relaunch" \in Discipline
    PROVE  Spec => []DestroyedIsUnused
<1>1. LifeInv => DestroyedIsUnused
    <2> SUFFICES ASSUME LifeInv, NEW q \in Queues, life[q] = "destroyed"
                 PROVE  /\ worker[q] \in {"unborn", "gone"}
                        /\ pending[q] = <<>>
                        /\ \A c \in Clients : on[c] # q
                        /\ \A w \in Works : wqueue[w] = q => wflags[w] = {}
        BY DEF DestroyedIsUnused
    <2>1. worker[q] \in {"unborn", "gone"} /\ \A c \in Clients : on[c] # q
        BY DEF LifeInv, Destroying
    <2>2. \A w \in Works : wflags[w] # {} => worker[wqueue[w]] \notin {"unborn", "gone"}
        BY BusyWork DEF LifeInv
    <2> QED
        BY <2>1, <2>2 DEF LifeInv, LinkInv, Blank
<1> QED
    BY <1>1, LifeCorrect, PTL

-----------------------------------------------------------------------------
(* Drains, when one at a time is the rule.                                 *)

LEMMA OneDrainerStep ==
    ASSUME "one_drainer" \in Discipline, LifeInv, OneDrainer, [Next]_vars
    PROVE  OneDrainer'
<1> SUFFICES ASSUME NEW q \in Queues
             PROVE  /\ \A c, d \in Draining(q)' : c = d
                    /\ drainq'[q] => \A c \in Draining(q)' : drained'[c]
    BY DEF OneDrainer
<1>1. /\ \A c, d \in Draining(q) : c = d
      /\ drainq[q] => \A c \in Draining(q) : drained[c]
    BY DEF OneDrainer
<1>2. CASE DrainKept(q)
    BY <1>1, <1>2 DEF DrainKept, Unmoved, NothingAsked
<1>3. CASE DrainBegun(q)
    <2>1. Draining(q) = {}
        BY <1>3 DEF DrainBegun, Draining, LifeInv, Destroying
    <2>2. ~drainq[q]
        BY <2>1 DEF LifeInv, TokensAreOwed
    <2> QED
        BY <1>3, <2>1, <2>2 DEF DrainBegun
<1>4. CASE DrainAnswered(q)
    BY <1>1, <1>4 DEF DrainAnswered
<1>5. CASE DrainTaken(q)
    BY <1>1, <1>5 DEF DrainTaken
<1> QED
    BY <1>2, <1>3, <1>4, <1>5, DrainSteps DEF DrainStep, LifeInv, LinkInv

\* queue_drain, and the drain of the destructor, return only after the thread
\* has found the list empty since the call began, if nobody drains a queue
\* that is being drained: two drainers share one token and one flag.
THEOREM DrainSawEmptyCorrect ==
    ASSUME "one_drainer" \in Discipline, "no_relaunch" \in Discipline
    PROVE  Spec => DrainSawEmpty
<1> DEFINE A == \A c \in Clients :
                   call[c] \in {"drain", "destroy"} /\ call'[c] # call[c] => drained[c]
<1>1. Init => OneDrainer
    BY DEF Init, OneDrainer, Draining
<1>2. LifeInv /\ OneDrainer /\ [Next]_vars => OneDrainer'
    BY OneDrainerStep
<1>3. LifeInv /\ OneDrainer /\ [Next]_vars => [A]_vars
    <2> SUFFICES ASSUME LifeInv, OneDrainer, [Next]_vars, NEW c \in Clients,
                        call[c] \in {"drain", "destroy"}, call'[c] # call[c]
                 PROVE  drained[c]
        OBVIOUS
    <2>1. PICK q \in Queues : q = on[c] /\ c \in Draining(q)
        BY DEF LifeInv, CallsOK, OnQueue, Draining
    <2>2. DrainTaken(q)
        BY <2>1, DrainSteps DEF LifeInv, LinkInv, DrainStep, DrainKept, DrainBegun, DrainAnswered,
             Unmoved
    <2> QED
        BY <2>1, <2>2 DEF DrainTaken, OneDrainer
<1>4. DrainSawEmpty <=> [][A]_vars
    BY DEF DrainSawEmpty
<1> HIDE DEF A
<1> QED
    BY <1>1, <1>2, <1>3, <1>4, LifeCorrect, PTL DEF Spec

-----------------------------------------------------------------------------
(* What the thread of a queue is told: what a step does to one queue, and  *)
(* to one caller.                                                          *)

\* The thread of q stays where it is and is asked for nothing; if q gets a node
\* the thread is notified; a token is taken only by a drain that ends.
Untouched(q) ==
    /\ worker'[q] = worker[q]
    /\ qflags'[q] = qflags[q] \/ \E t \in Threads : Unplug(t, q)
    /\ notifyq[q] => notifyq'[q]
    /\ pending[q] = <<>> => pending'[q] = <<>> \/ notifyq'[q]
    /\ drainq'[q] = drainq[q]
          \/ \E c \in Clients : on[c] = q /\ call[c] \in {"drain", "destroy"} /\ call'[c] = "idle"

\* The steps that do more to q.
Touches(q) ==
    \/ \E c \in Clients, plug \in BOOLEAN : Drain(c, q, plug)
    \/ \E c \in Clients : Destroy(c, q) /\ "STARTED" \in qflags[q]
    \/ \E c \in Clients, how \in {"stop", "stop_for"} : Stop(c, q, how)
    \/ \E c \in Clients : on[c] = q /\ DestroyDrained(c)
    \/ Launch(q)
    \/ WorkerStep(q) \/ Throw(q)

LEMMA UntouchedFrame ==
    ASSUME NEW q \in Queues, worker' = worker, qflags'[q] = qflags[q], notifyq'[q] = notifyq[q],
           pending'[q] = pending[q], drainq'[q] = drainq[q]
    PROVE  Untouched(q)
    BY DEF Untouched

LEMMA UntouchedCancel ==
    ASSUME LinkInv, NEW w \in Works, CancelAsync(w), UNCHANGED <<worker, qflags, notifyq, drainq>>,
           NEW q \in Queues
    PROVE  Untouched(q)
<1>1. ASSUME pending[q] = <<>>
      PROVE  pending'[q] = <<>>
    <2>1. ~(Unlinks(w) /\ q = wqueue[w])
        <3>1. ~Contains(pending[q], w)
            BY <1>1, EmptySeq DEF Contains
        <3> QED
            BY <3>1 DEF Unlinks, LinkInv, QueuedIsLinked
    <2> QED
        BY <1>1, <2>1 DEF CancelAsync, PendingWithout, LinkInv, TypeOK
<1> QED
    BY <1>1 DEF Untouched

LEMMA UntouchedClient ==
    ASSUME LinkInv, CallsOK, NEW c \in Clients, ClientNext(c), NEW q \in Queues
    PROVE  Untouched(q) \/ Touches(q)
<1> USE DEF queueVars, workerVars, lifeVars
<1>0. TypeOK
    BY DEF LinkInv
<1>1. ASSUME NEW w \in Works, CancelSync(c, w)
      PROVE  Untouched(q)
    BY <1>1, UntouchedCancel DEF CancelSync
<1>2. ASSUME NEW w \in Works, Flush(c, w)
      PROVE  Untouched(q)
    BY <1>0, <1>2 DEF Flush, SetPending, Notify, Untouched, TypeOK
<1>3. ASSUME NEW p \in Queues, Start(c, p) \/ Run(c, p)
      PROVE  Untouched(q) \/ Touches(q)
    <2>1. Launch(p)
        BY <1>3 DEF Start, Run
    <2>2. CASE p = q
        BY <2>1, <2>2 DEF Touches
    <2>3. CASE p # q
        BY <1>0, <2>1, <2>3 DEF Launch, SetPending, Untouched, TypeOK
    <2> QED
        BY <2>2, <2>3
<1>4. ASSUME NEW p \in Queues, NEW plug \in BOOLEAN, BeginDrain(c, p, plug), p # q,
             worker' = worker
      PROVE  Untouched(q)
    BY <1>0, <1>4 DEF BeginDrain, Notify, Untouched, TypeOK
<1>5. ASSUME NEW p \in Queues, Destroy(c, p)
      PROVE  Untouched(q) \/ Touches(q)
    <2>1. CASE p = q /\ "STARTED" \in qflags[p]
        BY <1>5, <2>1 DEF Touches
    <2>2. CASE p # q /\ "STARTED" \in qflags[p]
        BY <1>4, <1>5, <2>2 DEF Destroy
    <2>3. CASE "STARTED" \notin qflags[p]
        BY <1>5, <2>3, UntouchedFrame DEF Destroy
    <2> QED
        BY <2>1, <2>2, <2>3
<1>6. ASSUME NEW p \in Queues, NEW plug \in BOOLEAN, Drain(c, p, plug)
      PROVE  Untouched(q) \/ Touches(q)
    <2>1. CASE p = q
        BY <1>6, <2>1 DEF Touches
    <2>2. CASE p # q
        BY <1>4, <1>6, <2>2 DEF Drain
    <2> QED
        BY <2>1, <2>2
<1>7. ASSUME NEW p \in Queues, NEW how \in {"stop", "stop_for"}, Stop(c, p, how)
      PROVE  Untouched(q) \/ Touches(q)
    <2>1. CASE p = q
        BY <1>7, <2>1 DEF Touches
    <2>2. CASE p # q
        <3>1. UNCHANGED <<worker, pending, drainq>>
            BY <1>7 DEF Stop
        <3>2. qflags'[q] = qflags[q] /\ notifyq'[q] = notifyq[q]
            BY <1>0, <1>7, <2>2 DEF Stop, AskStop, Notify, TypeOK
        <3> QED
            BY <3>1, <3>2, UntouchedFrame
    <2> QED
        BY <2>1, <2>2
<1>8. ASSUME DestroyDrained(c)
      PROVE  Untouched(q) \/ Touches(q)
    <2>1. CASE on[c] = q
        BY <1>8, <2>1 DEF Touches
    <2>2. CASE on[c] # q
        <3>1. UNCHANGED <<worker, pending>> /\ drainq'[q] = drainq[q]
            BY <1>0, <1>8, <2>2 DEF DestroyDrained, TokenTaken, TypeOK
        <3>2. qflags'[q] = qflags[q] /\ notifyq'[q] = notifyq[q]
            BY <1>0, <1>8, <2>2 DEF DestroyDrained, AskStop, Notify, TypeOK
        <3> QED
            BY <3>1, <3>2, UntouchedFrame
    <2> QED
        BY <2>1, <2>2
<1>9. ASSUME DrainReturn(c)
      PROVE  Untouched(q)
    <2>1. UNCHANGED <<worker, pending, qflags, notifyq>>
        BY <1>9 DEF DrainReturn, TokenTaken
    <2>2. drainq'[q] = drainq[q] \/ on[c] = q
        BY <1>0, <1>9 DEF DrainReturn, TokenTaken, TypeOK
    <2>3. call[c] = "drain" /\ call'[c] = "idle"
        BY <1>0, <1>9 DEF DrainReturn, TokenTaken, Leave, TypeOK
    <2> QED
        BY <2>1, <2>2, <2>3 DEF Untouched
<1>10. ASSUME FlushReturn(c) \/ CancelReturn(c) \/ StopReturn(c) \/ StopForReturn(c)
                \/ RunReturn(c) \/ DestroyReturn(c)
       PROVE  Untouched(q)
    BY <1>10, UntouchedFrame DEF FlushReturn, CancelReturn, SemTaken, StopReturn, StopForReturn,
         RunReturn, DestroyReturn
<1> QED
    BY <1>1, <1>2, <1>3, <1>5, <1>6, <1>7, <1>8, <1>9, <1>10 DEF ClientNext

LEMMA UntouchedThread ==
    ASSUME LinkInv, NEW t \in Threads, ThreadNext(t), NEW q \in Queues
    PROVE  Untouched(q)
<1> USE DEF queueVars, workerVars
<1>0. TypeOK
    BY DEF LinkInv
<1>1. ASSUME NEW w \in Works, NEW p \in Queues \cup {NoQueue}, p # NoQueue, SubmitLocked(t, w, p)
      PROVE  Untouched(q)
    BY <1>0, <1>1 DEF SubmitLocked, SetPending, Notify, Untouched, TypeOK
<1>2. ASSUME NEW w \in Works, NEW p \in Queues, Submit(t, w, p)
      PROVE  Untouched(q)
    <2>1. Target(w, p) \in Queues
        BY BusyWork, <1>0 DEF Target, TypeOK, LinkInv
    <2> QED
        BY <1>1, <1>2, <2>1, DistinctObjects DEF Submit
<1>3. ASSUME NEW w \in Works, Resubmit(t, w)
      PROVE  Untouched(q)
    BY <1>0, <1>1, <1>3 DEF Resubmit, TypeOK
<1>4. ASSUME NEW w \in Works, Cancel(t, w)
      PROVE  Untouched(q)
    BY <1>4, UntouchedCancel DEF Cancel
<1>5. ASSUME NEW w \in Works, NEW h \in Handlers, SetHandler(t, w, h)
      PROVE  Untouched(q)
    BY <1>5, UntouchedFrame DEF SetHandler
<1>6. ASSUME NEW p \in Queues, Unplug(t, p)
      PROVE  Untouched(q)
    BY <1>0, <1>6 DEF Unplug, Untouched, TypeOK
<1> QED
    BY <1>2, <1>3, <1>4, <1>5, <1>6 DEF ThreadNext

LEMMA UntouchedSteps ==
    ASSUME LinkInv, CallsOK, [Next]_vars, NEW q \in Queues
    PROVE  Untouched(q) \/ Touches(q)
<1> USE DEF queueVars, workerVars
<1>0. TypeOK
    BY DEF LinkInv
<1>1. ASSUME NEW p \in Queues, WorkerStep(p) \/ Throw(p)
      PROVE  Untouched(q) \/ Touches(q)
    <2>1. CASE p = q
        BY <1>1, <2>1 DEF Touches
    <2>2. CASE p # q
        <3>1. worker'[q] = worker[q]
            BY <1>0, <1>1, <2>2 DEF WorkerStep, Take, AnswerDrain, Quit, Sleep, Wake, Finish, Throw, TypeOK
        <3>2. qflags'[q] = qflags[q]
            BY <1>0, <1>1, <2>2 DEF WorkerStep, Take, AnswerDrain, Quit, Sleep, Wake, Finish, Throw, TypeOK
        <3>3. notifyq'[q] = notifyq[q] /\ pending'[q] = pending[q] /\ drainq'[q] = drainq[q]
            BY <1>0, <1>1, <2>2 DEF WorkerStep, Take, AnswerDrain, Quit, Sleep, Wake, Finish, Throw,
                 SetPending, TypeOK
        <3> QED
            BY <3>1, <3>2, <3>3 DEF Untouched
    <2> QED
        BY <2>1, <2>2
<1>2. CASE UNCHANGED vars
    BY <1>2, UntouchedFrame DEF vars
<1> QED
    BY <1>1, <1>2, UntouchedClient, UntouchedThread DEF Next

\* How a client gets into a call on a queue that waits, or stays in it.
WaitingCalls == {"drain", "destroy", "stop", "stop_for", "join"}

Begins(c) ==
    \E q \in Queues :
        /\ on'[c] = q
        /\ \/ call'[c] = "drain" /\ (\E plug \in BOOLEAN : Drain(c, q, plug))
           \/ call'[c] = "destroy" /\ Destroy(c, q) /\ "STARTED" \in qflags[q]
           \/ \E how \in {"stop", "stop_for"} : call'[c] = how /\ Stop(c, q, how)
           \/ call'[c] = "join" /\ on[c] = q /\ DestroyDrained(c)

LEMMA CallMoves ==
    ASSUME TypeOK, CallsOK, [Next]_vars, NEW c \in Clients, call'[c] \in WaitingCalls
    PROVE  (call'[c] = call[c] /\ on'[c] = on[c]) \/ Begins(c)
<1> USE DEF WaitingCalls
<1>1. ASSUME UNCHANGED <<call, on>>
      PROVE  call'[c] = call[c] /\ on'[c] = on[c]
    BY <1>1
<1>2. ASSUME NEW d \in Clients, NEW what, NEW x, Enter(d, what, x),
             d # c \/ what \notin WaitingCalls
      PROVE  call'[c] = call[c] /\ on'[c] = on[c]
    BY <1>2 DEF Enter, TypeOK
<1>3. ASSUME NEW d \in Clients, Leave(d)
      PROVE  call'[c] = call[c] /\ on'[c] = on[c]
    BY <1>3 DEF Leave, TypeOK
<1>4. ASSUME NEW d \in Clients, NEW what, NEW x, Enter(d, what, x), d = c
      PROVE  call'[c] = what /\ on'[c] = x
    BY <1>4 DEF Enter, TypeOK
<1>5. ASSUME NEW d \in Clients, ClientNext(d)
      PROVE  (call'[c] = call[c] /\ on'[c] = on[c]) \/ Begins(c)
    <2>1. ASSUME NEW w \in Works, CancelSync(d, w) \/ Flush(d, w)
          PROVE  call'[c] = call[c] /\ on'[c] = on[c]
        BY <1>1, <1>2, <2>1 DEF CancelSync, Flush
    <2>2. ASSUME NEW p \in Queues, Start(d, p) \/ Run(d, p)
          PROVE  call'[c] = call[c] /\ on'[c] = on[c]
        BY <1>1, <1>2, <2>2 DEF Start, Run
    <2>3. ASSUME NEW p \in Queues, Destroy(d, p)
          PROVE  (call'[c] = call[c] /\ on'[c] = on[c]) \/ Begins(c)
        <3>1. CASE "STARTED" \in qflags[p]
            <4>1. Enter(d, "destroy", p)
                BY <2>3, <3>1 DEF Destroy
            <4>2. CASE d = c
                <5>1. call'[c] = "destroy" /\ on'[c] = p
                    BY <1>4, <4>1, <4>2
                <5> QED
                    BY <2>3, <3>1, <4>2, <5>1 DEF Begins
            <4> QED
                BY <1>2, <4>1, <4>2
        <3>2. CASE "STARTED" \notin qflags[p]
            BY <1>1, <2>3, <3>2 DEF Destroy
        <3> QED
            BY <3>1, <3>2
    <2>4. ASSUME NEW p \in Queues, NEW plug \in BOOLEAN, Drain(d, p, plug)
          PROVE  (call'[c] = call[c] /\ on'[c] = on[c]) \/ Begins(c)
        <3>1. Enter(d, "drain", p)
            BY <2>4 DEF Drain
        <3>2. CASE d = c
            <4>1. call'[c] = "drain" /\ on'[c] = p
                BY <1>4, <3>1, <3>2
            <4> QED
                BY <2>4, <3>2, <4>1 DEF Begins
        <3> QED
            BY <1>2, <3>1, <3>2
    <2>5. ASSUME NEW p \in Queues, NEW how \in {"stop", "stop_for"}, Stop(d, p, how)
          PROVE  (call'[c] = call[c] /\ on'[c] = on[c]) \/ Begins(c)
        <3>1. Enter(d, how, p)
            BY <2>5 DEF Stop
        <3>2. CASE d = c
            <4>1. call'[c] = how /\ on'[c] = p
                BY <1>4, <3>1, <3>2
            <4> QED
                BY <2>5, <3>2, <4>1 DEF Begins
        <3> QED
            BY <1>2, <3>1, <3>2
    <2>6. ASSUME DestroyDrained(d)
          PROVE  (call'[c] = call[c] /\ on'[c] = on[c]) \/ Begins(c)
        <3>1. Enter(d, "join", on[d])
            BY <2>6 DEF DestroyDrained
        <3>2. CASE d = c
            <4>1. call'[c] = "join" /\ on'[c] = on[c]
                BY <1>4, <3>1, <3>2
            <4>2. on[c] \in Queues
                BY <2>6, <3>2 DEF DestroyDrained, TokenTaken, CallsOK, OnQueue
            <4> QED
                BY <2>6, <3>2, <4>1, <4>2 DEF Begins
        <3> QED
            BY <1>2, <3>1, <3>2
    <2>7. ASSUME FlushReturn(d) \/ CancelReturn(d) \/ DrainReturn(d) \/ StopReturn(d)
                   \/ StopForReturn(d) \/ RunReturn(d) \/ DestroyReturn(d)
          PROVE  call'[c] = call[c] /\ on'[c] = on[c]
        BY <1>3, <2>7 DEF FlushReturn, CancelReturn, SemTaken, DrainReturn, StopReturn,
             StopForReturn, RunReturn, DestroyReturn
    <2> QED
        BY <1>5, <2>1, <2>2, <2>3, <2>4, <2>5, <2>6, <2>7 DEF ClientNext
<1>6. ASSUME NEW t \in Threads, ThreadNext(t)
      PROVE  UNCHANGED <<call, on>>
    BY <1>6 DEF ThreadNext, Submit, Resubmit, Cancel, SetHandler, Unplug, SubmitLocked, callVars
<1>7. ASSUME NEW q \in Queues, WorkerStep(q) \/ Throw(q)
      PROVE  UNCHANGED <<call, on>>
    BY <1>7 DEF WorkerStep, Take, AnswerDrain, Quit, Sleep, Wake, Finish, Throw, callVars
<1>8. CASE UNCHANGED vars
    BY <1>1, <1>8 DEF vars, callVars
<1> QED
    BY <1>1, <1>5, <1>6, <1>7, <1>8 DEF Next

-----------------------------------------------------------------------------
(* No token, no drain and no stop is lost.                                 *)

LEMMA WakeupStep ==
    ASSUME LifeInv, NoWakeupLost, [Next]_vars
    PROVE  NoWakeupLost'
<1> USE DEF queueVars, workerVars
<1>0. TypeOK /\ CallsOK /\ LinkInv
    BY DEF LifeInv, LinkInv
<1> SUFFICES ASSUME NEW q \in Queues, worker'[q] = "wait", ~notifyq'[q]
             PROVE  pending'[q] = <<>> /\ "DRAIN" \notin qflags'[q]
    BY DEF NoWakeupLost
<1>1. CASE Untouched(q)
    <2>1. worker[q] = "wait" /\ ~notifyq[q]
        BY <1>0, <1>1 DEF Untouched, TypeOK
    <2>2. pending[q] = <<>> /\ "DRAIN" \notin qflags[q]
        BY <2>1 DEF NoWakeupLost
    <2>3. "DRAIN" \notin qflags'[q]
        BY <1>0, <1>1, <2>2 DEF Untouched, Unplug, TypeOK
    <2> QED
        BY <1>1, <2>2, <2>3 DEF Untouched
<1>2. ASSUME NEW c \in Clients, NEW plug \in BOOLEAN, BeginDrain(c, q, plug)
      PROVE  FALSE
    BY <1>0, <1>2 DEF BeginDrain, Notify, TypeOK
<1>3. ASSUME AskStop(q)
      PROVE  FALSE
    BY <1>0, <1>3 DEF AskStop, Notify, TypeOK
<1>4. ASSUME NEW c \in Clients, on[c] = q, DestroyDrained(c)
      PROVE  pending'[q] = <<>> /\ "DRAIN" \notin qflags'[q]
    <2>1. UNCHANGED <<worker, pending, qflags, notifyq>>
        BY <1>3, <1>4 DEF DestroyDrained, TokenTaken
    <2> QED
        BY <2>1 DEF NoWakeupLost
<1>5. ASSUME Launch(q)
      PROVE  FALSE
    BY <1>0, <1>5 DEF Launch, TypeOK
<1>6. ASSUME WorkerStep(q) \/ Throw(q)
      PROVE  pending'[q] = <<>> /\ "DRAIN" \notin qflags'[q]
    <2>1. AnswerDrain(q) \/ Sleep(q)
        BY <1>0, <1>6 DEF WorkerStep, Take, Quit, Wake, Finish, Throw, TypeOK
    <2>2. CASE AnswerDrain(q)
        BY <1>0, <2>2 DEF AnswerDrain, Finds, TypeOK
    <2>3. CASE Sleep(q)
        <3>1. pending[q] = <<>> /\ "DRAIN" \notin qflags[q]
            BY <2>3 DEF Sleep, Finds
        <3> QED
            BY <2>3, <3>1 DEF Sleep
    <2> QED
        BY <2>1, <2>2, <2>3
<1>7. CASE Touches(q)
    BY <1>2, <1>3, <1>4, <1>5, <1>6, <1>7 DEF Touches, Drain, Destroy, Stop
<1> QED
    BY <1>0, <1>1, <1>7, UntouchedSteps

\* What a caller that drains is owed stays there until it gets it.
LEMMA OwedStep ==
    ASSUME LifeInv, [Next]_vars, NEW q \in Queues, Draining(q) # {},
           drainq[q] \/ "DRAIN" \in qflags[q]
    PROVE  \/ drainq'[q] \/ "DRAIN" \in qflags'[q]
           \/ \E c \in Draining(q) : call'[c] # call[c]
<1> USE DEF queueVars, workerVars
<1>0. TypeOK /\ CallsOK /\ LinkInv
    BY DEF LifeInv, LinkInv
<1>1. CASE Untouched(q)
    <2>1. "DRAIN" \in qflags[q] => "DRAIN" \in qflags'[q]
        BY <1>0, <1>1 DEF Untouched, Unplug, TypeOK
    <2>2. drainq[q] => drainq'[q] \/ \E c \in Draining(q) : call'[c] # call[c]
        BY <1>1 DEF Untouched, Draining
    <2> QED
        BY <2>1, <2>2
<1>2. ASSUME NEW c \in Clients, NEW plug \in BOOLEAN, BeginDrain(c, q, plug)
      PROVE  "DRAIN" \in qflags'[q]
    BY <1>0, <1>2 DEF BeginDrain, DrainFlags, TypeOK
<1>3. ASSUME NEW c \in Clients, NEW how \in {"stop", "stop_for"}, Stop(c, q, how)
      PROVE  drainq'[q] \/ "DRAIN" \in qflags'[q]
    BY <1>0, <1>3 DEF Stop, AskStop, TypeOK
<1>4. ASSUME NEW c \in Clients, on[c] = q, DestroyDrained(c)
      PROVE  c \in Draining(q) /\ call'[c] # call[c]
    BY <1>0, <1>4 DEF DestroyDrained, TokenTaken, Enter, Draining, TypeOK
<1>5. ~Launch(q)
    BY DEF Launch, MayLaunch, Draining
<1>6. ASSUME WorkerStep(q) \/ Throw(q)
      PROVE  drainq'[q] \/ "DRAIN" \in qflags'[q]
    <2>1. CASE AnswerDrain(q)
        BY <1>0, <2>1 DEF AnswerDrain, TypeOK
    <2>2. CASE Quit(q)
        <3>1. "DRAIN" \notin qflags[q] /\ drainq' = drainq
            BY <2>2 DEF Quit, Finds
        <3> QED
            BY <3>1
    <2>3. CASE Take(q) \/ Finish(q)
        BY <1>0, <2>3 DEF Take, Finish, IdleFlags, TypeOK
    <2>4. CASE Sleep(q) \/ Wake(q) \/ Throw(q)
        BY <2>4 DEF Sleep, Wake, Throw
    <2> QED
        BY <1>6, <2>1, <2>2, <2>3, <2>4 DEF WorkerStep
<1>7. CASE Touches(q)
    BY <1>2, <1>3, <1>4, <1>5, <1>6, <1>7 DEF Touches, Drain, Destroy
<1> QED
    BY <1>0, <1>1, <1>7, UntouchedSteps

LEMMA DrainersOwedStep ==
    ASSUME LifeInv, OneDrainer, DrainersAreOwed, [Next]_vars
    PROVE  DrainersAreOwed'
<1>0. TypeOK /\ CallsOK
    BY DEF LifeInv, LinkInv
<1> SUFFICES ASSUME NEW c \in Clients, call'[c] \in {"drain", "destroy"}
             PROVE  drainq'[on'[c]] \/ "DRAIN" \in qflags'[on'[c]]
    BY DEF DrainersAreOwed
<1>1. CASE call'[c] = call[c] /\ on'[c] = on[c]
    <2>1. PICK q \in Queues : q = on[c] /\ c \in Draining(q)
        BY <1>0, <1>1 DEF CallsOK, OnQueue, Draining
    <2>2. \A d \in Draining(q) : d = c
        BY <2>1 DEF OneDrainer
    <2>3. drainq[q] \/ "DRAIN" \in qflags[q]
        BY <1>1, <2>1 DEF DrainersAreOwed
    <2> QED
        BY <1>1, <2>1, <2>2, <2>3, OwedStep
<1>2. CASE Begins(c)
    <2>1. PICK q \in Queues, plug \in BOOLEAN : on'[c] = q /\ BeginDrain(c, q, plug)
        BY <1>2 DEF Begins, Drain, Destroy
    <2> QED
        BY <1>0, <2>1 DEF BeginDrain, DrainFlags, TypeOK
<1> QED
    BY <1>0, <1>1, <1>2, CallMoves DEF WaitingCalls

\* No thread sleeps over a work, a flusher or a drain for which it was
\* notified, although notifyq keeps one token for all of them; and whoever
\* drains has its answer or is still to get it, if one at a time drains.
THEOREM NobodyIsForgottenCorrect ==
    ASSUME "one_drainer" \in Discipline, "no_relaunch" \in Discipline
    PROVE  Spec => []NobodyIsForgotten
<1>1. Init => OneDrainer /\ NobodyIsForgotten
    BY DEF Init, OneDrainer, Draining, NobodyIsForgotten, NoWakeupLost, DrainersAreOwed
<1>2. LifeInv /\ OneDrainer /\ NobodyIsForgotten /\ [Next]_vars => OneDrainer' /\ NobodyIsForgotten'
    BY OneDrainerStep, WakeupStep, DrainersOwedStep DEF NobodyIsForgotten
<1> QED
    BY <1>1, <1>2, LifeCorrect, PTL DEF Spec

\* The inductive invariant behind a stop: it meets a drain only in the
\* destructor, which plugs the queue until its thread is over.
StopInv ==
    /\ StopIsHeard
    /\ \A q \in Queues :
          "STOP" \in qflags[q] /\ "DRAIN" \in qflags[q] =>
              \E c \in Clients : on[c] = q /\ call[c] = "destroy"
    /\ \A q \in Queues : life[q] = "closing" => "PLUGGED" \in qflags[q] \/ worker[q] = "gone"

\* The rules of a program whose stops are heard.
StopRules == {"stop_after_drain", "no_drain_after_stop", "stay_plugged"} \subseteq Discipline

\* The destructor has its token: its queue is open to nobody, and its thread
\* has no other drain to answer.
LEMMA DrainedClosing ==
    ASSUME LifeInv, NEW c \in Clients, DestroyDrained(c)
    PROVE  /\ on[c] \in Queues /\ life[on[c]] = "closing" /\ drainq[on[c]]
           /\ "DRAIN" \notin qflags[on[c]]
           /\ \A d \in Clients : on[d] = on[c] => d = c
<1>0. TypeOK /\ CallsOK
    BY DEF LifeInv, LinkInv
<1>1. call[c] = "destroy" /\ drainq[on[c]]
    BY DEF DestroyDrained, TokenTaken
<1>2. PICK q \in Queues : q = on[c]
    BY <1>0, <1>1 DEF CallsOK, OnQueue
<1>3. life[q] = "closing"
    BY <1>0, <1>1, <1>2 DEF LifeInv, Destroying, TypeOK
<1>4. \A d \in Clients : on[d] = q => d = c
    BY <1>2, <1>3 DEF LifeInv, Destroying, Closing
<1>5. "DRAIN" \notin qflags[q]
    BY <1>1, <1>2, <1>4 DEF LifeInv, TokensAreOwed, Draining
<1> QED
    BY <1>1, <1>2, <1>3, <1>4, <1>5

\* The destructor then asks its thread to stop, unless it is over.
LEMMA DrainedStops ==
    ASSUME LifeInv, StopInv, NEW c \in Clients, DestroyDrained(c)
    PROVE  AskStop(on[c]) \/ (worker[on[c]] = "gone" /\ UNCHANGED <<qflags, notifyq>>)
<1>1. PICK q \in Queues : q = on[c] /\ life[q] = "closing"
    BY DrainedClosing
<1>2. CASE worker[q] = "gone"
    BY <1>1, <1>2 DEF DestroyDrained
<1>3. CASE worker[q] # "gone"
    <2>1. worker[q] # "unborn"
        BY <1>1, <1>3 DEF StopInv, LifeInv, LinkInv, Blank
    <2>2. Stoppable(q)
        BY <1>1, <1>3, <2>1 DEF Stoppable, StopInv, LifeInv, Started
    <2> QED
        BY <1>1, <2>2 DEF DestroyDrained
<1> QED
    BY <1>2, <1>3

\* The destructor stays where it is until it takes its token.
LEMMA DestroyStays ==
    ASSUME TypeOK, [Next]_vars, NEW c \in Clients, call[c] = "destroy"
    PROVE  (call'[c] = "destroy" /\ on'[c] = on[c]) \/ DestroyDrained(c)
<1>1. ASSUME UNCHANGED <<call, on>>
      PROVE  call'[c] = "destroy" /\ on'[c] = on[c]
    BY <1>1
<1>2. ASSUME NEW d \in Clients, NEW what, NEW x, MayCall(d), Enter(d, what, x)
      PROVE  call'[c] = "destroy" /\ on'[c] = on[c]
    <2>1. call[d] = "idle"
        BY <1>2, DistinctObjects DEF MayCall
    <2> QED
        BY <1>2, <2>1 DEF Enter, TypeOK
<1>3. ASSUME NEW d \in Clients, Leave(d), d # c
      PROVE  call'[c] = "destroy" /\ on'[c] = on[c]
    BY <1>3 DEF Leave, TypeOK
<1>4. ASSUME NEW d \in Clients, ClientNext(d)
      PROVE  (call'[c] = "destroy" /\ on'[c] = on[c]) \/ DestroyDrained(c)
    <2>1. ASSUME NEW w \in Works, CancelSync(d, w) \/ Flush(d, w)
          PROVE  call'[c] = "destroy" /\ on'[c] = on[c]
        BY <1>1, <1>2, <2>1 DEF CancelSync, Flush
    <2>2. ASSUME NEW p \in Queues, Start(d, p) \/ Run(d, p) \/ Destroy(d, p)
          PROVE  call'[c] = "destroy" /\ on'[c] = on[c]
        BY <1>1, <1>2, <2>2 DEF Start, Run, Destroy
    <2>3. ASSUME NEW p \in Queues, NEW plug \in BOOLEAN, Drain(d, p, plug)
          PROVE  call'[c] = "destroy" /\ on'[c] = on[c]
        BY <1>2, <2>3 DEF Drain
    <2>4. ASSUME NEW p \in Queues, NEW how \in {"stop", "stop_for"}, Stop(d, p, how)
          PROVE  call'[c] = "destroy" /\ on'[c] = on[c]
        BY <1>2, <2>4 DEF Stop
    <2>5. ASSUME DestroyDrained(d), d # c
          PROVE  call'[c] = "destroy" /\ on'[c] = on[c]
        BY <2>5 DEF DestroyDrained, Enter, TypeOK
    <2>6. ASSUME FlushReturn(d) \/ CancelReturn(d) \/ DrainReturn(d) \/ StopReturn(d)
                   \/ StopForReturn(d) \/ RunReturn(d) \/ DestroyReturn(d)
          PROVE  call'[c] = "destroy" /\ on'[c] = on[c]
        <3>1. Leave(d) /\ call[d] # "destroy"
            BY <2>6 DEF FlushReturn, CancelReturn, SemTaken, DrainReturn, TokenTaken, StopReturn,
                 StopForReturn, RunReturn, DestroyReturn
        <3> QED
            BY <1>3, <3>1
    <2> QED
        BY <1>4, <2>1, <2>2, <2>3, <2>4, <2>5, <2>6 DEF ClientNext
<1>5. ASSUME NEW t \in Threads, ThreadNext(t)
      PROVE  UNCHANGED <<call, on>>
    BY <1>5 DEF ThreadNext, Submit, Resubmit, Cancel, SetHandler, Unplug, SubmitLocked, callVars
<1>6. ASSUME NEW q \in Queues, WorkerStep(q) \/ Throw(q)
      PROVE  UNCHANGED <<call, on>>
    BY <1>6 DEF WorkerStep, Take, AnswerDrain, Quit, Sleep, Wake, Finish, Throw, callVars
<1>7. CASE UNCHANGED vars
    BY <1>1, <1>7 DEF vars, callVars
<1> QED
    BY <1>1, <1>4, <1>5, <1>6, <1>7 DEF Next

\* What the thread of q does to the flags that ask it for something.
LEMMA WorkerFlags ==
    ASSUME TypeOK, NEW q \in Queues, WorkerStep(q) \/ Throw(q)
    PROVE  /\ UNCHANGED <<call, on>>
           /\ \/ Quit(q) /\ worker'[q] = "gone" /\ qflags'[q] = {}
              \/ AnswerDrain(q) /\ qflags'[q] = qflags[q] \ {"DRAIN"}
              \/ Sleep(q) /\ qflags'[q] = qflags[q]
              \/ worker'[q] # "wait" /\ qflags'[q] \ {"BUSY"} = qflags[q] \ {"BUSY"}
           /\ worker[q] \notin {"gone", "dead"}
<1> USE DEF queueVars, workerVars, callVars
<1>1. CASE Quit(q)
    BY <1>1 DEF Quit, TypeOK
<1>2. CASE AnswerDrain(q)
    BY <1>2 DEF AnswerDrain, TypeOK
<1>3. CASE Sleep(q)
    BY <1>3 DEF Sleep
<1>4. CASE Take(q)
    BY <1>4 DEF Take, TypeOK
<1>5. CASE Wake(q) \/ Throw(q)
    BY <1>5 DEF Wake, Throw, TypeOK
<1>6. CASE Finish(q)
    BY <1>6 DEF Finish, IdleFlags, TypeOK
<1> QED
    BY <1>1, <1>2, <1>3, <1>4, <1>5, <1>6 DEF WorkerStep

\* A stop that a caller waits for stays asked for, until the thread is over.
LEMMA StopStays ==
    ASSUME LifeInv, StopInv, [Next]_vars, NEW q \in Queues, NEW c \in Clients, on[c] = q,
           "STOP" \in qflags[q] \/ Ended(q)
    PROVE  "STOP" \in qflags'[q] \/ worker'[q] \in {"gone", "dead"}
<1> USE DEF Ended, queueVars, workerVars
<1>0. TypeOK /\ CallsOK /\ LinkInv
    BY DEF LifeInv, LinkInv
<1>1. CASE Untouched(q)
    BY <1>0, <1>1 DEF Untouched, Unplug, TypeOK
<1>2. ASSUME NEW d \in Clients, NEW plug \in BOOLEAN, Drain(d, q, plug)
      PROVE  "STOP" \in qflags'[q] \/ worker'[q] \in {"gone", "dead"}
    BY <1>0, <1>2 DEF Drain, BeginDrain, TypeOK
<1>3. ASSUME NEW d \in Clients, Destroy(d, q)
      PROVE  FALSE
    BY <1>3 DEF Destroy
<1>4. ASSUME NEW d \in Clients, NEW how \in {"stop", "stop_for"}, Stop(d, q, how)
      PROVE  "STOP" \in qflags'[q]
    BY <1>0, <1>4 DEF Stop, AskStop, TypeOK
<1>5. ASSUME NEW d \in Clients, on[d] = q, DestroyDrained(d)
      PROVE  "STOP" \in qflags'[q] \/ worker'[q] \in {"gone", "dead"}
    <2>1. worker' = worker
        BY <1>5 DEF DestroyDrained, TokenTaken
    <2>2. AskStop(q) \/ worker[q] = "gone"
        BY <1>5, DrainedStops
    <2> QED
        BY <1>0, <2>1, <2>2 DEF AskStop, TypeOK
<1>6. ~Launch(q)
    BY DEF Launch, MayLaunch
<1>7. ASSUME WorkerStep(q) \/ Throw(q)
      PROVE  "STOP" \in qflags'[q] \/ worker'[q] \in {"gone", "dead"}
    BY <1>0, <1>7, WorkerFlags
<1>8. CASE Touches(q)
    BY <1>2, <1>3, <1>4, <1>5, <1>6, <1>7, <1>8 DEF Touches
<1> QED
    BY <1>0, <1>1, <1>8, UntouchedSteps

\* Where a drain meets a stop there is the destructor.
LEMMA StopMeetsDrain ==
    ASSUME StopRules, LifeInv, StopInv, [Next]_vars, NEW q \in Queues,
           "STOP" \in qflags'[q], "DRAIN" \in qflags'[q]
    PROVE  \E c \in Clients : on'[c] = q /\ call'[c] = "destroy"
<1> USE DEF queueVars, workerVars
<1>0. TypeOK /\ CallsOK /\ LinkInv
    BY DEF LifeInv, LinkInv
<1>1. ASSUME "STOP" \in qflags[q], "DRAIN" \in qflags[q]
      PROVE  \E c \in Clients : on'[c] = q /\ call'[c] = "destroy"
    <2>1. PICK c \in Clients : on[c] = q /\ call[c] = "destroy"
        BY <1>1 DEF StopInv
    <2>2. ~DestroyDrained(c)
        BY <1>1, <2>1, DrainedClosing
    <2> QED
        BY <1>0, <2>1, <2>2, DestroyStays
<1>2. CASE Untouched(q)
    BY <1>0, <1>1, <1>2 DEF Untouched, Unplug, TypeOK
<1>3. ASSUME NEW d \in Clients, NEW plug \in BOOLEAN, Drain(d, q, plug)
      PROVE  FALSE
    <2>1. "STOP" \notin qflags[q]
        BY <1>3 DEF Drain, StopRules
    <2> QED
        BY <1>0, <1>3, <2>1 DEF Drain, BeginDrain, DrainFlags, TypeOK
<1>4. ASSUME NEW d \in Clients, Destroy(d, q), "STARTED" \in qflags[q]
      PROVE  \E c \in Clients : on'[c] = q /\ call'[c] = "destroy"
    BY <1>0, <1>4 DEF Destroy, Enter, TypeOK
<1>5. ASSUME NEW d \in Clients, NEW how \in {"stop", "stop_for"}, Stop(d, q, how)
      PROVE  FALSE
    BY <1>0, <1>5 DEF Stop, AskStop, StopRules, TypeOK
<1>6. ASSUME NEW d \in Clients, on[d] = q, DestroyDrained(d)
      PROVE  FALSE
    <2>1. "DRAIN" \notin qflags[q]
        BY <1>6, DrainedClosing
    <2> QED
        BY <1>0, <1>6, <2>1 DEF DestroyDrained, AskStop, TypeOK
<1>7. ~Launch(q)
    BY <1>0 DEF Launch, TypeOK
<1>8. ASSUME WorkerStep(q) \/ Throw(q)
      PROVE  \E c \in Clients : on'[c] = q /\ call'[c] = "destroy"
    BY <1>0, <1>1, <1>8, WorkerFlags
<1>9. CASE Touches(q)
    BY <1>3, <1>4, <1>5, <1>6, <1>7, <1>8, <1>9 DEF Touches
<1> QED
    BY <1>0, <1>2, <1>9, UntouchedSteps

\* The destructor's queue stays plugged until its thread is over.
LEMMA ClosingIsPlugged ==
    ASSUME StopRules, LifeInv, StopInv, [Next]_vars, NEW q \in Queues, life'[q] = "closing"
    PROVE  "PLUGGED" \in qflags'[q] \/ worker'[q] = "gone"
<1> USE DEF queueVars, workerVars
<1>0. TypeOK /\ CallsOK /\ LinkInv
    BY DEF LifeInv, LinkInv
<1>1. ASSUME NEW c \in Clients, Destroy(c, q)
      PROVE  "PLUGGED" \in qflags'[q]
    <2>1. BeginDrain(c, q, TRUE)
        BY <1>0, <1>1 DEF Destroy, TypeOK
    <2> QED
        BY <1>0, <2>1 DEF BeginDrain, DrainFlags, TypeOK
<1>2. CASE life[q] = "open"
    <2>1. \A c \in Clients : on[c] = q => call[c] \notin {"destroy", "join"}
        BY <1>2 DEF LifeInv, Destroying
    <2> QED
        BY <1>0, <1>1, <1>2, <2>1, OpenStep
<1>3. CASE life[q] # "open"
    <2>1. ClosedStep(q)
        BY <1>0, <1>3, ClosedSteps
    <2>2. life[q] = "closing"
        BY <1>0, <1>3, <2>1 DEF ClosedStep, LifeInv, Destroying, TypeOK
    <2>3. CASE worker[q] = "gone"
        BY <2>1, <2>3 DEF ClosedStep
    <2>4. CASE worker[q] # "gone"
        <3>1. "PLUGGED" \in qflags[q]
            BY <2>2, <2>4 DEF StopInv
        <3>2. CASE Untouched(q)
            BY <2>2, <3>1, <3>2 DEF Untouched, Unplug, StopRules
        <3>3. ASSUME NEW d \in Clients, NEW plug \in BOOLEAN, Drain(d, q, plug)
              PROVE  FALSE
            BY <2>2, <3>3 DEF Drain
        <3>4. ASSUME NEW d \in Clients, NEW how \in {"stop", "stop_for"}, Stop(d, q, how)
              PROVE  FALSE
            BY <2>2, <3>4 DEF Stop
        <3>5. ASSUME NEW d \in Clients, on[d] = q, DestroyDrained(d)
              PROVE  "PLUGGED" \in qflags'[q]
            BY <1>0, <3>1, <3>5 DEF DestroyDrained, AskStop, TypeOK
        <3>6. ~Launch(q)
            <4>1. ASSUME Launch(q)
                  PROVE  worker'[q] = "top" /\ worker[q] \in {"unborn", "gone"}
                BY <1>0, <4>1, LaunchFresh DEF Launch, TypeOK
            <4> QED
                BY <2>1, <4>1 DEF ClosedStep
        <3>7. ASSUME WorkerStep(q) \/ Throw(q)
              PROVE  "PLUGGED" \in qflags'[q] \/ worker'[q] = "gone"
            BY <1>0, <3>1, <3>7, WorkerFlags
        <3>8. CASE Touches(q)
            BY <1>1, <3>3, <3>4, <3>5, <3>6, <3>7, <3>8 DEF Touches
        <3> QED
            BY <1>0, <3>2, <3>8, UntouchedSteps
    <2> QED
        BY <2>3, <2>4
<1> QED
    BY <1>2, <1>3

\* A thread that goes to sleep, or stays asleep, has heard of the stop.
LEMMA SleeperStep ==
    ASSUME StopRules, LifeInv, StopInv, [Next]_vars, NEW q \in Queues,
           worker'[q] = "wait", ~notifyq'[q], "STOP" \in qflags'[q]
    PROVE  drainq'[q] /\ \E c \in Clients : on'[c] = q /\ call'[c] = "destroy"
<1> USE DEF queueVars, workerVars
<1>0. TypeOK /\ CallsOK /\ LinkInv
    BY DEF LifeInv, LinkInv
<1>1. ASSUME AskStop(q)
      PROVE  FALSE
    BY <1>0, <1>1 DEF AskStop, Notify, TypeOK
<1>2. ASSUME NEW d \in Clients, on[d] = q, DestroyDrained(d)
      PROVE  FALSE
    <2>1. worker' = worker
        BY <1>2 DEF DestroyDrained, TokenTaken
    <2> QED
        BY <1>1, <1>2, <2>1, DrainedStops
<1>3. CASE Untouched(q)
    <2>1. worker[q] = "wait" /\ ~notifyq[q] /\ "STOP" \in qflags[q]
        BY <1>0, <1>3 DEF Untouched, Unplug, TypeOK
    <2>2. PICK c \in Clients : drainq[q] /\ on[c] = q /\ call[c] = "destroy"
        BY <2>1 DEF StopInv, StopIsHeard
    <2>3. on'[c] = q /\ call'[c] = "destroy"
        BY <1>0, <1>2, <2>2, DestroyStays
    <2>4. \A d \in Clients : on[d] = q => d = c
        BY <1>0, <2>2 DEF LifeInv, Destroying, Closing, TypeOK
    <2>5. drainq'[q]
        BY <1>3, <2>2, <2>3, <2>4 DEF Untouched
    <2> QED
        BY <2>3, <2>5
<1>4. ASSUME NEW d \in Clients, NEW plug \in BOOLEAN, BeginDrain(d, q, plug)
      PROVE  FALSE
    BY <1>0, <1>4 DEF BeginDrain, Notify, TypeOK
<1>5. ~Launch(q)
    BY <1>0 DEF Launch, TypeOK
<1>6. ASSUME WorkerStep(q) \/ Throw(q)
      PROVE  drainq'[q] /\ \E c \in Clients : on'[c] = q /\ call'[c] = "destroy"
    <2>1. UNCHANGED <<call, on>> /\ ((AnswerDrain(q) \/ Sleep(q)) /\ "STOP" \in qflags[q])
        BY <1>0, <1>6, WorkerFlags
    <2>2. CASE AnswerDrain(q)
        <3>1. drainq'[q] /\ "DRAIN" \in qflags[q]
            BY <1>0, <2>2 DEF AnswerDrain, Finds, TypeOK
        <3> QED
            BY <2>1, <3>1 DEF StopInv
    <2>3. CASE Sleep(q)
        BY <2>1, <2>3 DEF Sleep, Finds
    <2> QED
        BY <2>1, <2>2, <2>3
<1>7. CASE Touches(q)
    BY <1>1, <1>2, <1>4, <1>5, <1>6, <1>7 DEF Touches, Drain, Destroy, Stop
<1> QED
    BY <1>0, <1>3, <1>7, UntouchedSteps

LEMMA StopStep ==
    ASSUME StopRules, LifeInv, StopInv, [Next]_vars
    PROVE  StopInv'
<1>0. TypeOK /\ CallsOK
    BY DEF LifeInv, LinkInv
<1>1. ASSUME NEW c \in Clients, call'[c] \in {"stop", "stop_for", "join"}
      PROVE  "STOP" \in qflags'[on'[c]] \/ worker'[on'[c]] \in {"gone", "dead"}
    <2>1. CASE call'[c] = call[c] /\ on'[c] = on[c]
        <3>1. PICK q \in Queues : q = on[c]
            BY <1>0, <1>1, <2>1 DEF CallsOK, OnQueue
        <3>2. "STOP" \in qflags[q] \/ Ended(q)
            BY <1>1, <2>1, <3>1 DEF StopInv, StopIsHeard
        <3> QED
            BY <2>1, <3>1, <3>2, StopStays
    <2>2. CASE Begins(c)
        <3>1. PICK q \in Queues :
                 /\ on'[c] = q
                 /\ \/ \E how \in {"stop", "stop_for"} : Stop(c, q, how)
                    \/ on[c] = q /\ DestroyDrained(c)
            BY <1>1, <2>2 DEF Begins
        <3>2. CASE on[c] = q /\ DestroyDrained(c)
            <4>1. worker' = worker
                BY <3>2 DEF DestroyDrained, TokenTaken, workerVars
            <4>2. AskStop(q) \/ worker[q] = "gone"
                BY <3>2, DrainedStops
            <4> QED
                BY <1>0, <3>1, <4>1, <4>2 DEF AskStop, TypeOK
        <3>3. CASE \E how \in {"stop", "stop_for"} : Stop(c, q, how)
            BY <1>0, <3>1, <3>3 DEF Stop, AskStop, TypeOK
        <3> QED
            BY <3>1, <3>2, <3>3
    <2> QED
        BY <1>0, <1>1, <2>1, <2>2, CallMoves DEF WaitingCalls
<1>2. StopIsHeard'
    BY <1>1, SleeperStep DEF StopIsHeard, Ended
<1> QED
    BY <1>2, StopMeetsDrain, ClosingIsPlugged DEF StopInv

\* stop() and the destructor are never left waiting for a thread that was not
\* asked, or that sleeps without having heard, if the program keeps the rules
\* of stops: it drains first, does not drain or unplug a queue it stops.
THEOREM StopIsHeardCorrect ==
    ASSUME StopRules, "no_relaunch" \in Discipline
    PROVE  Spec => []StopIsHeard
<1>1. Init => StopInv
    BY DEF Init, StopInv, StopIsHeard
<1>2. LifeInv /\ StopInv /\ [Next]_vars => StopInv'
    BY StopStep
<1>3. StopInv => StopIsHeard
    BY DEF StopInv
<1> QED
    BY <1>1, <1>2, <1>3, LifeCorrect, PTL DEF Spec

-----------------------------------------------------------------------------
(* Works whose handler threw, also on queues that are run again.           *)

\* A work stands in no list, and runs nowhere, but where it says.  The converse,
\* that it stands where it says, is lost when a queue is run again.
Bound(q, w) ==
    /\ Contains(pending[q], w) => "QUEUED" \in wflags[w] /\ wqueue[w] = q
    /\ AtMostOnce(pending[q], w)
    /\ cur[q] = w => "RUNNING" \in wflags[w] /\ wqueue[w] = q

BoundInv == TypeOK /\ \A q \in Queues, w \in Works : Bound(q, w)

LEMMA BoundSubmit ==
    ASSUME BoundInv, NEW t, NEW w \in Works, NEW q, SubmitLocked(t, w, q),
           "RUNNING" \in wflags[w] => q = wqueue[w],
           NEW p \in Queues, NEW v \in Works
    PROVE  Bound(p, v)'
<1>1. /\ w \in Nodes /\ v \in Nodes /\ pending[p] \in Seq(Nodes)
      /\ "QUEUED" \notin wflags[w]
      /\ Bound(p, v) /\ Bound(p, w)
    BY DEF SubmitLocked, Submittable, Nodes, BoundInv, TypeOK
<1>2. /\ pending' = [pending EXCEPT ![q] = Append(pending[q], w)]
      /\ wflags' = [wflags EXCEPT ![w] = @ \cup {"QUEUED"}]
      /\ wqueue' = [wqueue EXCEPT ![w] = q]
      /\ cur' = cur
    BY DEF SubmitLocked, SetPending, workerVars
<1>3. /\ p # q => pending'[p] = pending[p]
      /\ p = q => pending'[p] = Append(pending[p], w)
    BY <1>2 DEF BoundInv, TypeOK
<1>4. ~Contains(pending[p], w)
    BY <1>1 DEF Bound
<1>5. /\ Contains(Append(pending[p], w), v) <=> Contains(pending[p], v) \/ v = w
      /\ AtMostOnce(pending[p], v) /\ (v = w => ~Contains(pending[p], v))
            => AtMostOnce(Append(pending[p], w), v)
    BY <1>1, AppendLinks
<1>6. CASE v = w
    <2>1. "QUEUED" \in wflags'[v] /\ wqueue'[v] = q /\ wflags[v] \subseteq wflags'[v]
        BY <1>1, <1>2, <1>6 DEF BoundInv, TypeOK
    <2> QED
        BY <1>1, <1>2, <1>3, <1>4, <1>5, <1>6, <2>1 DEF Bound
<1>7. CASE v # w
    <2>1. wflags'[v] = wflags[v] /\ wqueue'[v] = wqueue[v]
        BY <1>1, <1>2, <1>7 DEF BoundInv, TypeOK
    <2> QED
        BY <1>1, <1>2, <1>3, <1>5, <1>7, <2>1 DEF Bound
<1> QED
    BY <1>6, <1>7

LEMMA BoundCancel ==
    ASSUME BoundInv, NEW w \in Works, CancelAsync(w), UNCHANGED <<wqueue, cur>>,
           NEW p \in Queues, NEW v \in Works
    PROVE  Bound(p, v)'
<1>1. /\ w \in Nodes /\ v \in Nodes /\ pending[p] \in Seq(Nodes)
      /\ Bound(p, v) /\ Bound(p, w)
    BY DEF Nodes, BoundInv, TypeOK
<1>2. /\ wflags'[w] = CancelledFlags(w)
      /\ v # w => wflags'[v] = wflags[v]
    BY <1>1 DEF CancelAsync, BoundInv, TypeOK
<1>3. /\ "RUNNING" \in wflags[w] => "RUNNING" \in wflags'[w]
      /\ ~Unlinks(w) /\ "QUEUED" \in wflags[w] => "QUEUED" \in wflags'[w]
    BY <1>2 DEF CancelledFlags
<1>4. CASE Unlinks(w) /\ p = wqueue[w]
    <2>1. pending'[p] = RemoveFirst(pending[p], w)
        BY <1>4 DEF CancelAsync, PendingWithout, BoundInv, TypeOK
    <2>2. /\ v # w => (Contains(pending'[p], v) <=> Contains(pending[p], v))
          /\ AtMostOnce(pending[p], v) => AtMostOnce(pending'[p], v)
          /\ AtMostOnce(pending[p], w) => ~Contains(pending'[p], w)
        BY <1>1, <2>1, RemoveFirstLinks
    <2> QED
        BY <1>1, <1>2, <1>3, <2>2 DEF Bound
<1>5. CASE ~(Unlinks(w) /\ p = wqueue[w])
    <2>1. pending'[p] = pending[p]
        BY <1>5 DEF CancelAsync, PendingWithout, BoundInv, TypeOK
    <2> QED
        BY <1>1, <1>2, <1>3, <1>5, <2>1 DEF Bound
<1> QED
    BY <1>4, <1>5

\* A flusher, wherever it is linked, is no work.
LEMMA BoundFlush ==
    ASSUME BoundInv, NEW c \in Clients, NEW w \in Works, Flush(c, w),
           NEW p \in Queues, NEW v \in Works
    PROVE  Bound(p, v)'
<1>1. /\ c \in Nodes /\ v \in Nodes /\ v # c /\ pending[p] \in Seq(Nodes)
      /\ Bound(p, v)
    BY DistinctObjects DEF Nodes, BoundInv, TypeOK
<1>2. /\ \/ pending' = [pending EXCEPT ![wqueue[w]] = FlusherPlace(pending[wqueue[w]], w, c)]
         \/ pending' = [pending EXCEPT ![wqueue[w]] = Append(pending[wqueue[w]], c)]
         \/ pending' = pending
      /\ wflags' = [wflags EXCEPT ![c] = {"FLUSHING"}]
      /\ UNCHANGED <<wqueue, cur>>
    BY DEF Flush, SetPending, workerVars
<1>3. \/ pending'[p] = FlusherPlace(pending[p], w, c)
      \/ pending'[p] = Append(pending[p], c)
      \/ pending'[p] = pending[p]
    BY <1>2 DEF BoundInv, TypeOK
<1>4. /\ Contains(FlusherPlace(pending[p], w, c), v) <=> Contains(pending[p], v)
      /\ AtMostOnce(pending[p], v) => AtMostOnce(FlusherPlace(pending[p], w, c), v)
    BY <1>1, FlusherPlaceLinks
<1>5. /\ Contains(Append(pending[p], c), v) <=> Contains(pending[p], v)
      /\ AtMostOnce(pending[p], v) => AtMostOnce(Append(pending[p], c), v)
    BY <1>1, AppendLinks
<1>6. wflags'[v] = wflags[v]
    BY <1>1, <1>2 DEF BoundInv, TypeOK
<1> QED
    BY <1>1, <1>2, <1>3, <1>4, <1>5, <1>6 DEF Bound

\* The list and the work of a queue that is started or run are forgotten.
LEMMA BoundLaunch ==
    ASSUME BoundInv, NEW q \in Queues, Launch(q), NEW p \in Queues, NEW v \in Works
    PROVE  Bound(p, v)'
<1>1. UNCHANGED <<wflags, wqueue>>
    BY DEF Launch
<1>2. CASE p = q
    <2>1. pending'[p] = <<>> /\ cur'[p] = None
        BY <1>2 DEF Launch, SetPending, BoundInv, TypeOK
    <2>2. ~Contains(<<>>, v) /\ AtMostOnce(<<>>, v)
        BY EmptySeq DEF Contains, AtMostOnce
    <2> QED
        BY <2>1, <2>2, DistinctObjects DEF Bound
<1>3. CASE p # q
    <2>1. pending'[p] = pending[p] /\ cur'[p] = cur[p]
        BY <1>3 DEF Launch, SetPending, BoundInv, TypeOK
    <2> QED
        BY <1>1, <2>1 DEF Bound, BoundInv
<1> QED
    BY <1>2, <1>3

LEMMA BoundTake ==
    ASSUME BoundInv, NEW q \in Queues, Take(q), NEW p \in Queues, NEW v \in Works
    PROVE  Bound(p, v)'
<1>1. PICK n : n = Head(pending[q])
    OBVIOUS
<1>2. /\ v \in Nodes /\ pending[q] \in Seq(Nodes) /\ pending[q] # <<>>
      /\ Bound(p, v) /\ Bound(q, v)
    BY DEF Nodes, BoundInv, TypeOK, Take, Finds
<1>3. /\ pending' = [pending EXCEPT ![q] = Tail(pending[q])]
      /\ wflags' = [wflags EXCEPT ![n] = TakenFlags(n)]
      /\ cur' = [cur EXCEPT ![q] = n]
      /\ wqueue' = wqueue
    BY <1>1 DEF Take, SetPending
<1>4. /\ Contains(pending[q], n)
      /\ v # n => (Contains(Tail(pending[q]), v) <=> Contains(pending[q], v))
      /\ AtMostOnce(pending[q], v) => AtMostOnce(Tail(pending[q]), v)
      /\ AtMostOnce(pending[q], n) => ~Contains(Tail(pending[q]), n)
    BY <1>1, <1>2, TailLinks
<1>5. /\ p = q => pending'[p] = Tail(pending[p]) /\ cur'[p] = n
      /\ p # q => pending'[p] = pending[p] /\ cur'[p] = cur[p]
    BY <1>3 DEF BoundInv, TypeOK
<1>6. CASE v = n
    <2>1. wqueue[v] = q
        BY <1>2, <1>4, <1>6 DEF Bound
    <2>2. "RUNNING" \in wflags'[v]
        BY <1>2, <1>3, <1>6 DEF TakenFlags, BoundInv, TypeOK
    <2> QED
        BY <1>2, <1>3, <1>4, <1>5, <1>6, <2>1, <2>2 DEF Bound
<1>7. CASE v # n
    <2>1. wflags'[v] = wflags[v]
        BY <1>2, <1>3, <1>7 DEF BoundInv, TypeOK
    <2> QED
        BY <1>2, <1>3, <1>4, <1>5, <1>7, <2>1 DEF Bound
<1> QED
    BY <1>6, <1>7

LEMMA BoundFinish ==
    ASSUME BoundInv, NEW q \in Queues, Finish(q), NEW p \in Queues, NEW v \in Works
    PROVE  Bound(p, v)'
<1>1. PICK n : n = cur[q]
    OBVIOUS
<1>2. /\ v \in Nodes /\ v # None
      /\ Bound(p, v) /\ Bound(q, v)
    BY DistinctObjects DEF Nodes, BoundInv
<1>3. /\ wflags' = [wflags EXCEPT ![n] = FinishedFlags(n)]
      /\ cur' = [cur EXCEPT ![q] = None]
      /\ UNCHANGED <<wqueue, pending>>
    BY <1>1 DEF Finish
<1>4. /\ p = q => cur'[p] = None
      /\ p # q => cur'[p] = cur[p]
      /\ "QUEUED" \in wflags[v] => "QUEUED" \in wflags'[v]
      /\ v # n => wflags'[v] = wflags[v]
    BY <1>2, <1>3 DEF FinishedFlags, BoundInv, TypeOK
<1>5. cur'[p] = v => v # n
    BY <1>1, <1>2, <1>4 DEF Bound
<1> QED
    BY <1>2, <1>3, <1>4, <1>5 DEF Bound

LEMMA BoundStep ==
    ASSUME BoundInv, [Next]_vars
    PROVE  BoundInv'
<1>0. TypeOK'
    BY TypeStep DEF BoundInv
<1> SUFFICES ASSUME NEW p \in Queues, NEW v \in Works
             PROVE  Bound(p, v)'
    BY <1>0 DEF BoundInv
<1>1. ASSUME UNCHANGED <<wflags, wqueue, pending, cur>>
      PROVE  Bound(p, v)'
    BY <1>1 DEF BoundInv, Bound
<1>2. ASSUME NEW c \in Clients, ClientNext(c)
      PROVE  Bound(p, v)'
    <2>1. ASSUME NEW w \in Works, CancelSync(c, w)
          PROVE  Bound(p, v)'
        BY <2>1, BoundCancel DEF CancelSync, workerVars
    <2>2. ASSUME NEW q \in Queues, Start(c, q) \/ Run(c, q)
          PROVE  Bound(p, v)'
        BY <2>2, BoundLaunch DEF Start, Run
    <2>3. ASSUME NEW q \in Queues, Destroy(c, q)
          PROVE  Bound(p, v)'
        BY <1>1, <2>3 DEF Destroy, BeginDrain, queueVars, workerVars
    <2> QED
        BY <1>1, <1>2, <2>1, <2>2, <2>3, BoundFlush DEF ClientNext, Drain, BeginDrain, Stop, FlushReturn,
             CancelReturn, SemTaken, DrainReturn, TokenTaken, StopReturn, StopForReturn,
             RunReturn, DestroyDrained, DestroyReturn, queueVars, workerVars
<1>3. ASSUME NEW t \in Threads, ThreadNext(t)
      PROVE  Bound(p, v)'
    <2>1. ASSUME NEW w \in Works, NEW q \in Queues, Submit(t, w, q)
          PROVE  Bound(p, v)'
        BY <2>1, BoundSubmit DEF Submit, Target
    <2>2. ASSUME NEW w \in Works, Resubmit(t, w)
          PROVE  Bound(p, v)'
        BY <2>2, BoundSubmit DEF Resubmit
    <2>3. ASSUME NEW w \in Works, Cancel(t, w)
          PROVE  Bound(p, v)'
        BY <2>3, BoundCancel DEF Cancel, workerVars
    <2> QED
        BY <1>1, <1>3, <2>1, <2>2, <2>3 DEF ThreadNext, SetHandler, Unplug, queueVars, workerVars
<1>4. ASSUME NEW q \in Queues, WorkerStep(q) \/ Throw(q)
      PROVE  Bound(p, v)'
    BY <1>1, <1>4, BoundTake, BoundFinish DEF WorkerStep, AnswerDrain, Quit, Sleep, Wake, Throw,
         queueVars, workerVars
<1>5. UNCHANGED vars => UNCHANGED <<wflags, wqueue, pending, cur>>
    BY DEF vars, queueVars, workerVars
<1> QED
    BY <1>1, <1>2, <1>3, <1>4, <1>5 DEF Next

\* Only the end of its handler takes RUNNING from a work; while it is there the
\* work keeps its queue and its handler.
LEMMA RunningIsKept ==
    ASSUME TypeOK, [Next]_vars, NEW w \in Works, "RUNNING" \in wflags[w],
           \A q \in Queues : worker[q] = "handler" => cur[q] # w
    PROVE  "RUNNING" \in wflags'[w] /\ wqueue'[w] = wqueue[w] /\ handler'[w] = handler[w]
<1> DEFINE P == "RUNNING" \in wflags'[w] /\ wqueue'[w] = wqueue[w] /\ handler'[w] = handler[w]
<1>0. w \in Nodes /\ w \notin Clients
    BY DistinctObjects DEF Nodes
<1>1. ASSUME UNCHANGED <<wflags, wqueue, handler>>
      PROVE  P
    BY <1>1
<1>2. ASSUME NEW v \in Works, CancelAsync(v), UNCHANGED <<wqueue, handler>>
      PROVE  P
    <2>1. "RUNNING" \in wflags[v] => "RUNNING" \in CancelledFlags(v)
        BY DEF CancelledFlags
    <2> QED
        BY <1>0, <1>2, <2>1 DEF CancelAsync, TypeOK
<1>3. ASSUME NEW t, NEW v \in Works, NEW q, SubmitLocked(t, v, q),
             "RUNNING" \in wflags[v] => q = wqueue[v]
      PROVE  P
    BY <1>0, <1>3 DEF SubmitLocked, TypeOK
<1>4. ASSUME NEW c \in Clients, ClientNext(c)
      PROVE  P
    <2>1. ASSUME NEW v \in Works, Flush(c, v)
          PROVE  P
        BY <1>0, <2>1 DEF Flush, TypeOK
    <2>2. ASSUME NEW q \in Queues, Start(c, q) \/ Run(c, q)
          PROVE  P
        BY <1>1, <2>2 DEF Start, Run, Launch
    <2> QED
        BY <1>1, <1>2, <1>4, <2>1, <2>2 DEF ClientNext, CancelSync, Destroy, Drain, Stop,
             FlushReturn, CancelReturn, SemTaken, DrainReturn, TokenTaken, StopReturn,
             StopForReturn, RunReturn, DestroyDrained, DestroyReturn
<1>5. ASSUME NEW t \in Threads, ThreadNext(t)
      PROVE  P
    <2>1. ASSUME NEW v \in Works, NEW h \in Handlers, SetHandler(t, v, h)
          PROVE  P
        BY <2>1 DEF SetHandler, HandlerMayChange, TypeOK
    <2>2. ASSUME NEW v \in Works, NEW q \in Queues, Submit(t, v, q)
          PROVE  P
        BY <1>3, <2>2 DEF Submit, Target
    <2>3. ASSUME NEW v \in Works, Resubmit(t, v)
          PROVE  P
        BY <1>3, <2>3 DEF Resubmit
    <2> QED
        BY <1>1, <1>2, <1>5, <2>1, <2>2, <2>3 DEF ThreadNext, Cancel, Unplug
<1>6. ASSUME NEW q \in Queues, WorkerStep(q) \/ Throw(q)
      PROVE  P
    <2>1. CASE Take(q)
        BY <1>0, <2>1 DEF Take, TakenFlags, TypeOK
    <2>2. CASE Finish(q)
        BY <1>0, <2>2 DEF Finish, TypeOK
    <2> QED
        BY <1>1, <1>6, <2>1, <2>2 DEF WorkerStep, AnswerDrain, Quit, Sleep, Wake, Throw
<1>7. UNCHANGED vars => UNCHANGED <<wflags, wqueue, handler>>
    BY DEF vars
<1> QED
    BY <1>1, <1>4, <1>5, <1>6, <1>7 DEF Next

\* A work whose handler threw keeps RUNNING, its handler and its queue, and is
\* taken up again by that queue only, also if the program starts or runs it again.
THEOREM ThrownIsBoundCorrect == Spec => ThrownIsBound
<1> DEFINE A == \A w \in Works :
                   Thrown(w) =>
                       /\ "RUNNING" \in wflags'[w]
                       /\ wqueue'[w] = wqueue[w] /\ handler'[w] = handler[w]
                       /\ \A q \in Queues : cur'[q] = w => q = wqueue[w]
<1>1. Init => BoundInv
    <2> SUFFICES ASSUME Init PROVE BoundInv
        OBVIOUS
    <2>1. \A w : ~Contains(<<>>, w) /\ AtMostOnce(<<>>, w)
        BY EmptySeq DEF Contains, AtMostOnce
    <2> QED
        BY <2>1, TypeInit, DistinctObjects DEF Init, BoundInv, Bound
<1>2. BoundInv /\ [Next]_vars => BoundInv'
    BY BoundStep
<1>3. BoundInv /\ BoundInv' /\ [Next]_vars => [A]_vars
    <2> SUFFICES ASSUME BoundInv, BoundInv', [Next]_vars, NEW w \in Works, Thrown(w)
                 PROVE  /\ "RUNNING" \in wflags'[w]
                        /\ wqueue'[w] = wqueue[w] /\ handler'[w] = handler[w]
                        /\ \A q \in Queues : cur'[q] = w => q = wqueue[w]
        OBVIOUS
    <2>1. /\ "RUNNING" \in wflags'[w]
          /\ wqueue'[w] = wqueue[w] /\ handler'[w] = handler[w]
        BY RunningIsKept DEF Thrown, BoundInv
    <2> QED
        BY <2>1 DEF BoundInv, Bound
<1>4. ThrownIsBound <=> [][A]_vars
    BY DEF ThrownIsBound
<1> HIDE DEF A
<1> QED
    BY <1>1, <1>2, <1>3, <1>4, PTL DEF Spec

-----------------------------------------------------------------------------
(* A flusher behind the instance it waits for, in a list.                  *)

\* c comes somewhere after w.
Behind(s, w, c) == \E i \in 1 .. Len(s) : s[i] = c /\ \E j \in 1 .. i - 1 : s[j] = w

LEMMA AppendBehind ==
    ASSUME NEW S, NEW s \in Seq(S), NEW e \in S, NEW w, NEW c, Behind(s, w, c)
    PROVE  Behind(Append(s, e), w, c)
<1>1. PICK t : t = Append(s, e)
    OBVIOUS
<1>2. Len(s) \in Nat /\ Len(t) = Len(s) + 1 /\ \A i \in 1 .. Len(s) : t[i] = s[i]
    BY <1>1, AppendProperties, LenProperties
<1>0. PICK i \in 1 .. Len(s) : s[i] = c /\ \E j \in 1 .. i - 1 : s[j] = w
    BY DEF Behind
<1>3. PICK j \in 1 .. i - 1 : s[i] = c /\ s[j] = w
    BY <1>0
<1>4. i \in 1 .. Len(t) /\ t[i] = c /\ t[j] = w
    BY <1>2, <1>3
<1> QED
    BY <1>1, <1>3, <1>4 DEF Behind

LEMMA InsertBehind ==
    ASSUME NEW S, NEW s \in Seq(S), NEW k \in 1 .. Len(s) + 1, NEW e \in S, NEW w, NEW c, Behind(s, w, c)
    PROVE  Behind(InsertAt(s, k, e), w, c)
<1>1. PICK t : t = InsertAt(s, k, e)
    OBVIOUS
<1>2. /\ Len(s) \in Nat /\ Len(t) = Len(s) + 1
      /\ \A i \in 1 .. Len(s) + 1 : t[i] = IF i < k THEN s[i] ELSE IF i = k THEN e ELSE s[i - 1]
    BY <1>1, InsertAtProperties, LenProperties
<1>0. PICK i \in 1 .. Len(s) : s[i] = c /\ \E j \in 1 .. i - 1 : s[j] = w
    BY DEF Behind
<1>3. PICK j \in 1 .. i - 1 : s[i] = c /\ s[j] = w
    BY <1>0
<1>4. ASSUME NEW m \in 1 .. Len(s)
      PROVE  /\ m < k => m \in 1 .. Len(t) /\ t[m] = s[m]
             /\ ~(m < k) => m + 1 \in 1 .. Len(t) /\ t[m + 1] = s[m]
    <2>1. CASE m < k
        BY <1>2, <2>1
    <2>2. CASE ~(m < k)
        <3>1. m + 1 \in 1 .. Len(s) + 1 /\ ~(m + 1 < k) /\ m + 1 # k /\ (m + 1) - 1 = m
            BY <1>2, <2>2
        <3> QED
            BY <1>2, <2>2, <3>1
    <2> QED
        BY <2>1, <2>2
<1>5. j \in 1 .. Len(s)
    BY <1>2
<1>6. CASE i < k
    <2>1. i \in 1 .. Len(t) /\ t[i] = c /\ t[j] = w
        BY <1>2, <1>3, <1>4, <1>5, <1>6
    <2> QED
        BY <1>1, <2>1 DEF Behind
<1>7. CASE ~(i < k)
    <2>1. i + 1 \in 1 .. Len(t) /\ t[i + 1] = c
        BY <1>3, <1>4, <1>7
    <2>2. \E m \in 1 .. (i + 1) - 1 : t[m] = w
        <3>1. CASE j < k
            BY <1>2, <1>3, <1>4, <1>5, <3>1
        <3>2. CASE ~(j < k)
            <4>1. j + 1 \in 1 .. (i + 1) - 1 /\ t[j + 1] = w
                BY <1>2, <1>3, <1>4, <1>5, <3>2
            <4> QED
                BY <4>1
        <3> QED
            BY <3>1, <3>2
    <2> QED
        BY <1>1, <2>1, <2>2 DEF Behind
<1> QED
    BY <1>6, <1>7

\* A node that was not linked is linked once when it is inserted.
LEMMA InsertedLinks ==
    ASSUME NEW S, NEW s \in Seq(S), NEW k \in 1 .. Len(s) + 1, NEW e \in S, ~Contains(s, e)
    PROVE  /\ Contains(InsertAt(s, k, e), e)
           /\ AtMostOnce(InsertAt(s, k, e), e)
           /\ \A j \in 1 .. k - 1 : Behind(InsertAt(s, k, e), s[j], e)
<1>1. PICK t : t = InsertAt(s, k, e)
    OBVIOUS
<1>2. /\ Len(s) \in Nat /\ Len(t) = Len(s) + 1
      /\ \A i \in 1 .. Len(s) + 1 : t[i] = IF i < k THEN s[i] ELSE IF i = k THEN e ELSE s[i - 1]
    BY <1>1, InsertAtProperties, LenProperties
<1>3. k \in 1 .. Len(t) /\ t[k] = e
    BY <1>2
<1>4. ASSUME NEW i \in 1 .. Len(t), t[i] = e
      PROVE  i = k
    <2>1. CASE i < k
        BY <1>2, <1>4, <2>1 DEF Contains
    <2>2. CASE i > k
        <3>1. i - 1 \in 1 .. Len(s) /\ s[i - 1] = e
            BY <1>2, <1>4, <2>2
        <3> QED
            BY <3>1 DEF Contains
    <2> QED
        BY <1>2, <2>1, <2>2
<1>5. \A j \in 1 .. k - 1 : Behind(t, s[j], e)
    <2> SUFFICES ASSUME NEW j \in 1 .. k - 1
                 PROVE  Behind(t, s[j], e)
        OBVIOUS
    <2>1. t[j] = s[j]
        BY <1>2
    <2> QED
        BY <1>3, <2>1 DEF Behind
<1>6. Contains(t, e) /\ AtMostOnce(t, e)
    BY <1>3, <1>4 DEF Contains, AtMostOnce
<1> QED
    BY <1>1, <1>5, <1>6

LEMMA RemoveAtBehind ==
    ASSUME NEW S, NEW s \in Seq(S), NEW k \in 1 .. Len(s), NEW w, NEW c, Behind(s, w, c),
           s[k] # w, s[k] # c
    PROVE  Behind(RemoveAt(s, k), w, c)
<1>1. PICK t : t = RemoveAt(s, k)
    OBVIOUS
<1>2. /\ Len(s) \in Nat /\ Len(t) = Len(s) - 1
      /\ \A i \in 1 .. Len(s) - 1 : t[i] = IF i < k THEN s[i] ELSE s[i + 1]
    BY <1>1, RemoveAtProperties, LenProperties
<1>0. PICK i \in 1 .. Len(s) : s[i] = c /\ \E j \in 1 .. i - 1 : s[j] = w
    BY DEF Behind
<1>3. PICK j \in 1 .. i - 1 : s[i] = c /\ s[j] = w
    BY <1>0
<1>4. j \in 1 .. Len(s) /\ i # k /\ j # k /\ j < i
    BY <1>2, <1>3
<1>5. ASSUME NEW m \in 1 .. Len(s), m # k
      PROVE  /\ m < k => m \in 1 .. Len(t) /\ t[m] = s[m]
             /\ m > k => m - 1 \in 1 .. Len(t) /\ t[m - 1] = s[m]
    <2>1. CASE m < k
        BY <1>2, <2>1
    <2>2. CASE m > k
        <3>1. m - 1 \in 1 .. Len(s) - 1 /\ ~(m - 1 < k) /\ (m - 1) + 1 = m
            BY <1>2, <2>2
        <3> QED
            BY <1>2, <2>2, <3>1
    <2> QED
        BY <1>5, <2>1, <2>2
<1>6. CASE i < k
    <2>1. i \in 1 .. Len(t) /\ t[i] = c /\ t[j] = w
        BY <1>2, <1>3, <1>4, <1>5, <1>6
    <2> QED
        BY <1>1, <1>4, <2>1 DEF Behind
<1>7. CASE i > k
    <2>1. i - 1 \in 1 .. Len(t) /\ t[i - 1] = c
        BY <1>3, <1>4, <1>5, <1>7
    <2>2. \E m \in 1 .. (i - 1) - 1 : t[m] = w
        <3>1. CASE j < k
            <4>1. j \in 1 .. (i - 1) - 1 /\ t[j] = w
                BY <1>2, <1>3, <1>4, <1>5, <1>7, <3>1
            <4> QED
                BY <4>1
        <3>2. CASE j > k
            <4>1. j - 1 \in 1 .. (i - 1) - 1 /\ t[j - 1] = w
                BY <1>2, <1>3, <1>4, <1>5, <3>2
            <4> QED
                BY <4>1
        <3> QED
            BY <1>4, <3>1, <3>2
    <2> QED
        BY <1>1, <2>1, <2>2 DEF Behind
<1> QED
    BY <1>4, <1>6, <1>7

LEMMA RemoveFirstBehind ==
    ASSUME NEW S, NEW s \in Seq(S), NEW e, NEW w, NEW c, Behind(s, w, c), e # w, e # c
    PROVE  Behind(RemoveFirst(s, e), w, c)
<1>1. CASE Where(s, e) = 0
    BY <1>1, RemoveFirstProperties
<1>2. CASE Where(s, e) # 0
    <2>1. PICK k : k = Where(s, e)
        OBVIOUS
    <2>2. k \in 1 .. Len(s) /\ s[k] = e
        BY <1>2, <2>1, WhereProperties, LenProperties
    <2> QED
        BY <1>2, <2>1, <2>2, RemoveFirstProperties, RemoveAtBehind
<1> QED
    BY <1>1, <1>2

\* Who is behind a node is not first, and stays behind until that node is taken.
LEMMA TailBehind ==
    ASSUME NEW S, NEW s \in Seq(S), s # <<>>, NEW w, NEW c, Behind(s, w, c)
    PROVE  /\ Head(s) # w => Behind(Tail(s), w, c)
           /\ AtMostOnce(s, c) => Head(s) # c
<1>1. PICK t : t = Tail(s)
    OBVIOUS
<1>2. /\ Len(s) \in Nat /\ Len(s) >= 1 /\ Head(s) = s[1]
      /\ Len(t) = Len(s) - 1 /\ \A i \in 1 .. Len(t) : t[i] = s[i + 1]
    BY <1>1, HeadTailProperties, LenProperties, EmptySeq
<1>0. PICK i \in 1 .. Len(s) : s[i] = c /\ \E j \in 1 .. i - 1 : s[j] = w
    BY DEF Behind
<1>3. PICK j \in 1 .. i - 1 : s[i] = c /\ s[j] = w
    BY <1>0
<1>4. ASSUME Head(s) # w
      PROVE  Behind(t, w, c)
    <2>1. j - 1 \in 1 .. (i - 1) - 1 /\ i - 1 \in 1 .. Len(t)
        BY <1>2, <1>3, <1>4
    <2>2. t[i - 1] = c /\ t[j - 1] = w
        BY <1>2, <1>3, <2>1
    <2> QED
        BY <2>1, <2>2 DEF Behind
<1>5. AtMostOnce(s, c) => Head(s) # c
    BY <1>2, <1>3 DEF AtMostOnce
<1> QED
    BY <1>1, <1>4, <1>5

\* A flusher that is placed is linked once, behind the queued instance if
\* there is one, and nobody else changes sides.
LEMMA FlusherPlaceBehind ==
    ASSUME NEW s \in Seq(Nodes), NEW w, NEW c \in Clients, ~Contains(s, c)
    PROVE  /\ Contains(FlusherPlace(s, w, c), c)
           /\ AtMostOnce(FlusherPlace(s, w, c), c)
           /\ "QUEUED" \in wflags[w] /\ Contains(s, w) => Behind(FlusherPlace(s, w, c), w, c)
           /\ \A v, d : Behind(s, v, d) => Behind(FlusherPlace(s, w, c), v, d)
<1>1. c \in Nodes /\ Len(s) \in Nat
    BY LenProperties DEF Nodes
<1>2. PICK k \in 1 .. Len(s) + 1 : k = IF "QUEUED" \in wflags[w] THEN Where(s, w) + 1 ELSE 1
    BY <1>1, WhereProperties
<1>3. FlusherPlace(s, w, c) = InsertAt(s, k, c)
    BY <1>1, <1>2, ConsIsInsert DEF FlusherPlace, InsertAfter
<1>4. ASSUME "QUEUED" \in wflags[w], Contains(s, w)
      PROVE  Behind(InsertAt(s, k, c), w, c)
    <2>1. Where(s, w) # 0
        BY <1>4, WhereProperties DEF Contains
    <2>2. k - 1 \in 1 .. k - 1 /\ s[k - 1] = w
        BY <1>1, <1>2, <1>4, <2>1, WhereProperties
    <2>3. Behind(InsertAt(s, k, c), s[k - 1], c)
        BY <1>1, <2>2, InsertedLinks
    <2> QED
        BY <2>2, <2>3
<1>5. ASSUME NEW v, NEW d, Behind(s, v, d)
      PROVE  Behind(InsertAt(s, k, c), v, d)
    BY <1>1, <1>5, InsertBehind
<1>6. Contains(InsertAt(s, k, c), c) /\ AtMostOnce(InsertAt(s, k, c), c)
    BY <1>1, InsertedLinks
<1> QED
    BY <1>3, <1>4, <1>5, <1>6

-----------------------------------------------------------------------------
(* Clients that wait for a work.                                           *)

Flushing(c) == call[c] = "flush" /\ ~sem[c]
Cancelling(c) == call[c] = "cancel_sync" /\ ~sem[c]

\* The flusher of a client is linked once, or run, while the client waits.
FlusherPlaced(c) ==
    /\ \A q \in Queues :
          Contains(pending[q], c) \/ cur[q] = c => Flushing(c) /\ "FLUSHING" \in wflags[c]
    /\ \A q \in Queues : AtMostOnce(pending[q], c)
    /\ \A p, q \in Queues :
          /\ ~(Contains(pending[p], c) /\ cur[q] = c)
          /\ Contains(pending[p], c) /\ Contains(pending[q], c) => p = q
          /\ cur[p] = c /\ cur[q] = c => p = q

\* It is run after the instance it is for, or linked behind it.
FlusherAt(c, q) ==
    \/ cur[q] = c /\ waits[c] = "over"
    \/ /\ Contains(pending[q], c)
       /\ waits[c] # "none"
       /\ waits[c] = "queued" => Behind(pending[q], on[c], c)
       /\ waits[c] = "running" => cur[q] = on[c]

FlusherWaits(c) == Flushing(c) => \E q \in Queues : FlusherAt(c, q)

\* The canceller of a client is linked once while the client waits, for an
\* instance that runs and is marked.
CancellerPlaced(c) ==
    /\ Contains(cancels, c) <=> Cancelling(c)
    /\ AtMostOnce(cancels, c)
    /\ Cancelling(c) => "CANCELING" \in wflags[on[c]] /\ waits[c] = "running"

\* A semaphore is given to a client that waits, and after the instance.
ReleasedIsOver(c) == sem[c] => call[c] \in OnWork /\ waits[c] = "over"

Waiting(c) == FlusherPlaced(c) /\ FlusherWaits(c) /\ CancellerPlaced(c) /\ ReleasedIsOver(c)

OneCanceller ==
    \A c, d \in Clients :
        call[c] = "cancel_sync" /\ call[d] = "cancel_sync" /\ on[c] = on[d] => c = d

\* The inductive invariant behind work_flush and work_cancel_sync.
WaitInv == LinkInv /\ CallsOK /\ OneCanceller /\ \A c \in Clients : Waiting(c)

\* What leaves a client where it is: its links, its flags and its place
\* behind the instance it waits for are kept, or that instance is withdrawn.
LEMMA KeptClient ==
    ASSUME NEW c \in Clients, Waiting(c),
           cur' = cur, call'[c] = call[c], on'[c] = on[c], sem'[c] = sem[c],
           \A q \in Queues :
              /\ Contains(pending'[q], c) <=> Contains(pending[q], c)
              /\ AtMostOnce(pending[q], c) => AtMostOnce(pending'[q], c)
              /\ waits'[c] = "queued" /\ Behind(pending[q], on[c], c)
                    => Behind(pending'[q], on[c], c),
           "FLUSHING" \in wflags[c] => "FLUSHING" \in wflags'[c],
           call[c] = "cancel_sync" /\ "CANCELING" \in wflags[on[c]] => "CANCELING" \in wflags'[on[c]],
           Contains(cancels', c) <=> Contains(cancels, c),
           AtMostOnce(cancels, c) => AtMostOnce(cancels', c),
           waits'[c] = waits[c] \/ (waits[c] = "queued" /\ waits'[c] = "over")
    PROVE  Waiting(c)'
<1>1. (Flushing(c)' <=> Flushing(c)) /\ (Cancelling(c)' <=> Cancelling(c))
    BY DEF Flushing, Cancelling
<1>2. FlusherPlaced(c)'
    BY <1>1 DEF Waiting, FlusherPlaced
<1>3. FlusherWaits(c)'
    <2>1. \A q \in Queues : FlusherAt(c, q) => FlusherAt(c, q)'
        BY DEF FlusherAt
    <2> QED
        BY <1>1, <2>1 DEF Waiting, FlusherWaits
<1>4. CancellerPlaced(c)'
    BY <1>1 DEF Waiting, CancellerPlaced, Cancelling
<1>5. ReleasedIsOver(c)'
    BY DEF Waiting, ReleasedIsOver
<1> QED
    BY <1>2, <1>3, <1>4, <1>5 DEF Waiting

\* A client whose calls are about no work is linked nowhere.
LEMMA OtherClient ==
    ASSUME NEW c \in Clients, Waiting(c), call[c] \notin OnWork, call'[c] \notin OnWork,
           UNCHANGED <<cur, pending, cancels, sem>>
    PROVE  Waiting(c)'
<1>1. ~Flushing(c) /\ ~Cancelling(c) /\ ~Flushing(c)' /\ ~Cancelling(c)' /\ ~sem[c]
    BY DEF Waiting, ReleasedIsOver, Flushing, Cancelling, OnWork
<1> QED
    BY <1>1 DEF Waiting, FlusherPlaced, FlusherWaits, CancellerPlaced, ReleasedIsOver

\* Steps that are about no flusher, no canceller and no list.
LEMMA WaitFrame ==
    ASSUME WaitInv, UNCHANGED <<wflags, pending, cur, cancels, sem, waits>>,
           \A c \in Clients :
              \/ call'[c] = call[c] /\ on'[c] = on[c]
              \/ call[c] \notin OnWork /\ call'[c] \notin OnWork
    PROVE  \A c \in Clients : Waiting(c)'
<1> SUFFICES ASSUME NEW c \in Clients
             PROVE  Waiting(c)'
    OBVIOUS
<1>1. Waiting(c)
    BY DEF WaitInv
<1>2. CASE call'[c] = call[c] /\ on'[c] = on[c]
    BY <1>1, <1>2, KeptClient
<1>3. CASE call[c] \notin OnWork /\ call'[c] \notin OnWork
    BY <1>1, <1>3, OtherClient
<1> QED
    BY <1>2, <1>3

LEMMA WaitSubmit ==
    ASSUME WaitInv, NEW t, NEW w \in Works, NEW q \in Queues, SubmitLocked(t, w, q)
    PROVE  \A c \in Clients : Waiting(c)'
<1> USE DEF WaitInv, LinkInv
<1> SUFFICES ASSUME NEW c \in Clients
             PROVE  Waiting(c)'
    OBVIOUS
<1>1. /\ pending' = [pending EXCEPT ![q] = Append(pending[q], w)]
      /\ wflags' = [wflags EXCEPT ![w] = @ \cup {"QUEUED"}]
      /\ UNCHANGED <<cur, call, on, sem, waits, cancels>>
    BY DEF SubmitLocked, SetPending, workerVars, callVars, ghostVars
<1>2. w \in Nodes /\ c # w /\ c \in Nodes
    BY DistinctObjects DEF Nodes
<1>3. \A n \in Nodes : wflags[n] \subseteq wflags'[n]
    BY <1>1, <1>2 DEF TypeOK
<1>4. ASSUME NEW p \in Queues
      PROVE  /\ Contains(pending'[p], c) <=> Contains(pending[p], c)
             /\ AtMostOnce(pending[p], c) => AtMostOnce(pending'[p], c)
             /\ Behind(pending[p], on[c], c) => Behind(pending'[p], on[c], c)
    <2>1. CASE p = q
        <3>1. pending'[p] = Append(pending[q], w) /\ pending[q] \in Seq(Nodes)
            BY <1>1, <2>1 DEF TypeOK
        <3> QED
            BY <1>2, <2>1, <3>1, AppendLinks, AppendBehind
    <2>2. CASE p # q
        BY <1>1, <2>2 DEF TypeOK
    <2> QED
        BY <2>1, <2>2
<1>5. call[c] = "cancel_sync" => on[c] \in Nodes
    BY DEF CallsOK, OnWork, Nodes
<1> QED
    BY <1>1, <1>2, <1>3, <1>4, <1>5, KeptClient

\* What cancelling a work does to the clients that wait.
LEMMA WaitCancel ==
    ASSUME WaitInv, NEW w \in Works, CancelAsync(w), NEW c \in Clients
    PROVE  /\ \A q \in Queues :
                 /\ Contains(pending'[q], c) <=> Contains(pending[q], c)
                 /\ AtMostOnce(pending[q], c) => AtMostOnce(pending'[q], c)
                 /\ on[c] # w /\ Behind(pending[q], on[c], c) => Behind(pending'[q], on[c], c)
           /\ wflags'[c] = wflags[c]
           /\ \A v \in Works : "CANCELING" \in wflags[v] => "CANCELING" \in wflags'[v]
           /\ wflags'[w] = CancelledFlags(w)
<1> USE DEF WaitInv, LinkInv
<1>1. w \in Nodes /\ c # w /\ c \in Nodes /\ \A v \in Works : v \in Nodes
    BY DistinctObjects DEF Nodes
<1>2. \A n \in Nodes : wflags'[n] = IF n = w THEN CancelledFlags(w) ELSE wflags[n]
    BY <1>1 DEF CancelAsync, TypeOK
<1>3. "CANCELING" \in wflags[w] => "CANCELING" \in CancelledFlags(w)
    BY DEF CancelledFlags, Unlinks
<1>4. ASSUME NEW q \in Queues
      PROVE  /\ Contains(pending'[q], c) <=> Contains(pending[q], c)
             /\ AtMostOnce(pending[q], c) => AtMostOnce(pending'[q], c)
             /\ on[c] # w /\ Behind(pending[q], on[c], c) => Behind(pending'[q], on[c], c)
    <2>1. CASE Unlinks(w) /\ q = wqueue[w]
        <3>1. pending'[q] = RemoveFirst(pending[q], w) /\ pending[q] \in Seq(Nodes)
            BY <2>1 DEF CancelAsync, PendingWithout, TypeOK
        <3> QED
            BY <1>1, <3>1, RemoveFirstLinks, RemoveFirstBehind
    <2>2. CASE ~(Unlinks(w) /\ q = wqueue[w])
        BY <2>2 DEF CancelAsync, PendingWithout, TypeOK
    <2> QED
        BY <2>1, <2>2
<1> QED
    BY <1>1, <1>2, <1>3, <1>4

LEMMA WaitCancelAsync ==
    ASSUME WaitInv, NEW w \in Works, CancelAsync(w), NEW c \in Clients,
           waits'[c] = Waiters(w, "queued", "over")[c],
           cur' = cur, call'[c] = call[c], on'[c] = on[c], sem' = sem,
           Contains(cancels', c) <=> Contains(cancels, c),
           AtMostOnce(cancels, c) => AtMostOnce(cancels', c)
    PROVE  Waiting(c)'
<1>1. /\ \A q \in Queues :
            /\ Contains(pending'[q], c) <=> Contains(pending[q], c)
            /\ AtMostOnce(pending[q], c) => AtMostOnce(pending'[q], c)
            /\ on[c] # w /\ Behind(pending[q], on[c], c) => Behind(pending'[q], on[c], c)
      /\ wflags'[c] = wflags[c]
      /\ \A v \in Works : "CANCELING" \in wflags[v] => "CANCELING" \in wflags'[v]
    BY WaitCancel
<1>2. /\ waits'[c] = waits[c] \/ (waits[c] = "queued" /\ waits'[c] = "over")
      /\ waits'[c] = "queued" => on[c] # w
    BY DEF Waiters
<1>3. call[c] = "cancel_sync" => on[c] \in Works
    BY DEF WaitInv, CallsOK, OnWork
<1>4. Waiting(c)
    BY DEF WaitInv
<1> QED
    BY <1>1, <1>2, <1>3, <1>4, KeptClient

\* work_cancel_sync: the canceller is linked if the work runs.
LEMMA WaitCancelSync ==
    ASSUME WaitInv, NEW w \in Works, NEW c \in Clients, CancelSync(c, w)
    PROVE  \A d \in Clients : Waiting(d)'
<1> USE DEF WaitInv, LinkInv
<1>1. CancelAsync(w) /\ cur' = cur /\ sem' = sem /\ call[c] = "idle"
    BY DistinctObjects DEF CancelSync, MayCall, workerVars
<1>2. CASE "CANCELING" \notin CancelledFlags(w)
    <2>1. UNCHANGED <<call, on, cancels>> /\ waits' = Waiters(w, "queued", "over")
        BY <1>2 DEF CancelSync
    <2> QED
        BY <1>1, <2>1, WaitCancelAsync
<1>3. CASE "CANCELING" \in CancelledFlags(w)
    <2>1. /\ Enter(c, "cancel_sync", w) /\ cancels' = Append(cancels, c)
          /\ waits' = [Waiters(w, "queued", "over") EXCEPT ![c] = "running"]
        BY <1>3 DEF CancelSync, Enlist
    <2>2. \A d \in Clients : d # c => call'[d] = call[d] /\ on'[d] = on[d]
                                         /\ waits'[d] = Waiters(w, "queued", "over")[d]
        BY <2>1 DEF Enter, TypeOK, Waiters
    <2>3. call'[c] = "cancel_sync" /\ on'[c] = w /\ waits'[c] = "running"
        BY <2>1 DEF Enter, TypeOK, Waiters
    <2>4. ASSUME NEW d \in Clients
          PROVE  /\ Contains(cancels', d) <=> Contains(cancels, d) \/ d = c
                 /\ AtMostOnce(cancels, d) /\ (d = c => ~Contains(cancels, d)) => AtMostOnce(cancels', d)
        <3>1. cancels \in Seq(Clients)
            BY DEF TypeOK
        <3> QED
            BY <2>1, <3>1, AppendLinks
    <2>5. ASSUME NEW d \in Clients, d # c
          PROVE  Waiting(d)'
        BY <1>1, <2>2, <2>4, <2>5, WaitCancelAsync
    <2>6. Waiting(c)'
        <3>1. Waiting(c) /\ ~Flushing(c) /\ ~Cancelling(c) /\ ~sem[c]
            BY <1>1 DEF Flushing, Cancelling, Waiting, ReleasedIsOver, OnWork
        <3>2. Cancelling(c)' /\ ~Flushing(c)' /\ ~sem'[c]
            BY <1>1, <2>3, <3>1 DEF Cancelling, Flushing
        <3>3. FlusherPlaced(c)'
            <4>1. /\ \A q \in Queues :
                        /\ Contains(pending'[q], c) <=> Contains(pending[q], c)
                        /\ AtMostOnce(pending[q], c) => AtMostOnce(pending'[q], c)
                BY <1>1, WaitCancel
            <4> QED
                BY <1>1, <3>1, <4>1 DEF Waiting, FlusherPlaced
        <3>4. CancellerPlaced(c)'
            <4>1. ~Contains(cancels, c) /\ AtMostOnce(cancels, c)
                BY <3>1 DEF Waiting, CancellerPlaced
            <4>2. "CANCELING" \in wflags'[w]
                BY <1>1, <1>3, WaitCancel
            <4> QED
                BY <2>3, <2>4, <3>2, <4>1, <4>2 DEF CancellerPlaced
        <3> QED
            BY <3>2, <3>3, <3>4 DEF Waiting, FlusherWaits, ReleasedIsOver
    <2> QED
        BY <2>5, <2>6
<1> QED
    BY <1>2, <1>3

\* work_flush: the flusher is linked behind the instance.
LEMMA WaitFlush ==
    ASSUME WaitInv, NEW w \in Works, NEW c \in Clients, Flush(c, w)
    PROVE  \A d \in Clients : Waiting(d)'
<1> USE DEF WaitInv, LinkInv
<1>1. PICK q \in Queues : q = wqueue[w]
    BY BusyWork DEF Flush
<1>2. /\ pending' = [pending EXCEPT ![q] = FlusherPlace(pending[q], w, c)]
      /\ wflags' = [wflags EXCEPT ![c] = {"FLUSHING"}]
      /\ waits' = [waits EXCEPT ![c] = IF "QUEUED" \in wflags[w] THEN "queued" ELSE "running"]
      /\ Enter(c, "flush", w) /\ call[c] = "idle"
      /\ UNCHANGED <<cur, sem, cancels>>
    BY <1>1, DistinctObjects, FlushPlaces DEF Flush, MayCall, SetPending, workerVars
<1>3. /\ \A d \in Clients : d # c => call'[d] = call[d] /\ on'[d] = on[d] /\ waits'[d] = waits[d]
      /\ call'[c] = "flush" /\ on'[c] = w
      /\ waits'[c] = IF "QUEUED" \in wflags[w] THEN "queued" ELSE "running"
    BY <1>2 DEF Enter, TypeOK
<1>4. /\ \A n \in Nodes : n # c => wflags'[n] = wflags[n]
      /\ "FLUSHING" \in wflags'[c]
      /\ \A v \in Works : v \in Nodes /\ v # c
      /\ \A d \in Clients : d \in Nodes
    BY <1>2, DistinctObjects DEF TypeOK, Nodes
<1>5. /\ pending'[q] = FlusherPlace(pending[q], w, c) /\ pending[q] \in Seq(Nodes)
      /\ \A p \in Queues : p # q => pending'[p] = pending[p]
    BY <1>2 DEF TypeOK
<1>6. Waiting(c) /\ ~Flushing(c) /\ ~Cancelling(c) /\ ~sem[c]
    BY <1>2 DEF Flushing, Cancelling, Waiting, ReleasedIsOver, OnWork
<1>7. \A p \in Queues : ~Contains(pending[p], c) /\ cur[p] # c
    BY <1>6 DEF Waiting, FlusherPlaced
<1>8. /\ Contains(pending'[q], c) /\ AtMostOnce(pending'[q], c)
      /\ "QUEUED" \in wflags[w] /\ Contains(pending[q], w) => Behind(pending'[q], w, c)
      /\ \A v, d : Behind(pending[q], v, d) => Behind(pending'[q], v, d)
    BY <1>5, <1>7, FlusherPlaceBehind
<1>9. ASSUME NEW d \in Clients, d # c
      PROVE  Waiting(d)'
    <2>1. ASSUME NEW p \in Queues
          PROVE  /\ Contains(pending'[p], d) <=> Contains(pending[p], d)
                 /\ AtMostOnce(pending[p], d) => AtMostOnce(pending'[p], d)
                 /\ Behind(pending[p], on[d], d) => Behind(pending'[p], on[d], d)
        <3>1. CASE p = q
            BY <1>5, <1>8, <1>9, <3>1, FlusherPlaceLinks
        <3>2. CASE p # q
            BY <1>5, <3>2
        <3> QED
            BY <3>1, <3>2
    <2>2. call[d] = "cancel_sync" => on[d] \in Works
        BY DEF CallsOK, OnWork
    <2> QED
        BY <1>2, <1>3, <1>4, <1>9, <2>1, <2>2, KeptClient
<1>10. Waiting(c)'
    <2>1. Flushing(c)' /\ ~Cancelling(c)' /\ ~sem'[c]
        BY <1>2, <1>3, <1>6 DEF Flushing, Cancelling
    <2>2. \A p \in Queues : AtMostOnce(pending[p], c)
        BY <1>6 DEF Waiting, FlusherPlaced
    <2>3. FlusherPlaced(c)'
        BY <1>2, <1>4, <1>5, <1>7, <1>8, <2>1, <2>2 DEF FlusherPlaced
    <2>4. FlusherAt(c, q)'
        <3>1. CASE "QUEUED" \in wflags[w]
            <4>1. Contains(pending[q], w)
                BY <1>1, <3>1 DEF QueuedIsLinked
            <4> QED
                BY <1>3, <1>8, <3>1, <4>1 DEF FlusherAt
        <3>2. CASE "QUEUED" \notin wflags[w]
            <4>1. "RUNNING" \in wflags[w]
                BY <3>2 DEF Flush
            <4>2. cur[q] = w
                BY <1>1, <4>1 DEF RunningIsOwned
            <4> QED
                BY <1>2, <1>3, <1>8, <3>2, <4>2 DEF FlusherAt
        <3> QED
            BY <3>1, <3>2
    <2>5. CancellerPlaced(c)'
        BY <1>2, <1>6, <2>1 DEF Waiting, CancellerPlaced
    <2> QED
        BY <2>1, <2>3, <2>4, <2>5 DEF Waiting, FlusherWaits, ReleasedIsOver
<1> QED
    BY <1>9, <1>10

\* The client has taken its semaphore.
LEMMA WaitSemTaken ==
    ASSUME WaitInv, NEW c \in Clients, NEW what \in OnWork, SemTaken(c, what)
    PROVE  \A d \in Clients : Waiting(d)'
<1> USE DEF WaitInv, LinkInv
<1>1. /\ call[c] = what /\ sem[c]
      /\ sem' = [sem EXCEPT ![c] = FALSE] /\ waits' = [waits EXCEPT ![c] = "none"]
      /\ Leave(c) /\ UNCHANGED <<wflags, pending, cur, cancels>>
    BY DEF SemTaken, queueVars, workerVars
<1>2. /\ \A d \in Clients : d # c => call'[d] = call[d] /\ on'[d] = on[d]
                                       /\ waits'[d] = waits[d] /\ sem'[d] = sem[d]
      /\ call'[c] = "idle" /\ ~sem'[c]
    BY <1>1 DEF Leave, TypeOK
<1>3. ASSUME NEW d \in Clients, d # c
      PROVE  Waiting(d)'
    BY <1>1, <1>2, <1>3, KeptClient
<1>4. Waiting(c)'
    <2>1. /\ Waiting(c) /\ ~Flushing(c) /\ ~Cancelling(c) /\ ~Flushing(c)' /\ ~Cancelling(c)'
        BY <1>1, <1>2 DEF Flushing, Cancelling
    <2> QED
        BY <1>1, <1>2, <2>1 DEF Waiting, FlusherPlaced, FlusherWaits, CancellerPlaced, ReleasedIsOver
<1> QED
    BY <1>3, <1>4

\* The thread takes the first node: the instance that runs now, or a flusher
\* whose instance is over.
LEMMA WaitTake ==
    ASSUME WaitInv, NEW q \in Queues, Take(q)
    PROVE  \A c \in Clients : Waiting(c)'
<1> USE DEF WaitInv, LinkInv
<1>1. PICK n : n = Head(pending[q])
    OBVIOUS
<1>2. pending[q] # <<>> /\ pending[q] \in Seq(Nodes) /\ cur[q] = None
    BY DEF Take, Finds, BusyIsRunning, TypeOK
<1>3. /\ pending' = [pending EXCEPT ![q] = Tail(pending[q])]
      /\ wflags' = [wflags EXCEPT ![n] = TakenFlags(n)]
      /\ cur' = [cur EXCEPT ![q] = n]
      /\ waits' = Waiters(n, "queued", "running")
      /\ UNCHANGED <<call, on, sem, cancels>>
    BY <1>1 DEF Take, SetPending, callVars
<1>4. n \in Nodes /\ Contains(pending[q], n)
    BY <1>1, <1>2, HeadTailProperties, TailLinks
<1>5. /\ \A p \in Queues : p # q => pending'[p] = pending[p] /\ cur'[p] = cur[p]
      /\ pending'[q] = Tail(pending[q]) /\ cur'[q] = n
      /\ \A m \in Nodes : \A f \in {"FLUSHING", "CANCELING"} : f \in wflags[m] => f \in wflags'[m]
      /\ \A c \in Clients :
            waits'[c] = IF on[c] = n /\ waits[c] = "queued" THEN "running" ELSE waits[c]
    BY <1>3, <1>4 DEF TypeOK, TakenFlags, Waiters
<1> SUFFICES ASSUME NEW c \in Clients
             PROVE  Waiting(c)'
    OBVIOUS
<1>6. c \in Nodes /\ c # None /\ Waiting(c)
    BY DistinctObjects DEF Nodes
<1>7. /\ AtMostOnce(pending[q], c)
      /\ c # n => (Contains(pending'[q], c) <=> Contains(pending[q], c))
      /\ AtMostOnce(pending[q], c) => AtMostOnce(pending'[q], c)
      /\ c = n => Contains(pending[q], c) /\ ~Contains(pending'[q], c)
    <2>1. AtMostOnce(pending[q], c)
        BY <1>6 DEF Waiting, FlusherPlaced
    <2> QED
        BY <1>1, <1>2, <1>5, <2>1, TailLinks
<1>8. (Flushing(c)' <=> Flushing(c)) /\ (Cancelling(c)' <=> Cancelling(c))
    BY <1>3 DEF Flushing, Cancelling
<1>9. FlusherPlaced(c)'
    <2>1. \A p \in Queues : Contains(pending'[p], c) \/ cur'[p] = c => Flushing(c) /\ "FLUSHING" \in wflags[c]
        BY <1>5, <1>6, <1>7 DEF Waiting, FlusherPlaced
    <2>2. \A p \in Queues : Contains(pending'[p], c) \/ cur'[p] = c => Flushing(c)' /\ "FLUSHING" \in wflags'[c]
        BY <1>5, <1>6, <1>8, <2>1
    <2>3. \A p \in Queues : AtMostOnce(pending'[p], c)
        BY <1>5, <1>6, <1>7 DEF Waiting, FlusherPlaced
    <2>4. CASE c = n
        <3>1. \A p \in Queues : ~Contains(pending'[p], c)
            BY <1>5, <1>6, <1>7, <2>4 DEF Waiting, FlusherPlaced
        <3>2. \A p \in Queues : cur'[p] = c => p = q
            BY <1>5, <1>6, <1>7, <2>4 DEF Waiting, FlusherPlaced
        <3> QED
            BY <2>2, <2>3, <3>1, <3>2 DEF FlusherPlaced
    <2>5. CASE c # n
        <3>1. \A p \in Queues : (Contains(pending'[p], c) <=> Contains(pending[p], c))
                                /\ (cur'[p] = c <=> cur[p] = c)
            BY <1>2, <1>5, <1>6, <1>7, <2>5
        <3> QED
            BY <1>6, <2>2, <2>3, <3>1 DEF Waiting, FlusherPlaced
    <2> QED
        BY <2>4, <2>5
<1>10. FlusherWaits(c)'
    <2> SUFFICES ASSUME Flushing(c)
                 PROVE  \E p \in Queues : FlusherAt(c, p)'
        BY <1>8 DEF FlusherWaits
    <2>1. PICK p \in Queues : FlusherAt(c, p)
        BY <1>6 DEF Waiting, FlusherWaits
    <2>2. on[c] \in Works /\ on[c] # None
        BY DistinctObjects DEF Flushing, CallsOK, OnWork
    <2>3. CASE cur[p] = c /\ waits[c] = "over"
        BY <1>2, <1>5, <1>6, <2>3 DEF FlusherAt
    <2>4. CASE ~(cur[p] = c /\ waits[c] = "over") /\ c = n
        <3>1. Contains(pending[p], c) /\ p = q
            BY <1>6, <1>7, <2>1, <2>4 DEF FlusherAt, Waiting, FlusherPlaced
        <3>2. waits[c] # "running"
            BY <1>2, <2>1, <2>2, <2>4, <3>1 DEF FlusherAt
        <3>3. waits[c] # "queued"
            BY <1>1, <1>2, <1>7, <2>1, <2>4, <3>1, TailBehind DEF FlusherAt
        <3>4. waits[c] = "over"
            BY <2>1, <2>4, <3>2, <3>3 DEF FlusherAt, TypeOK
        <3> QED
            BY <1>5, <2>4, <3>4 DEF FlusherAt
    <2>5. CASE ~(cur[p] = c /\ waits[c] = "over") /\ c # n
        <3>1. /\ Contains(pending[p], c) /\ waits[c] # "none"
              /\ waits[c] = "queued" => Behind(pending[p], on[c], c)
              /\ waits[c] = "running" => cur[p] = on[c]
            BY <2>1, <2>5 DEF FlusherAt
        <3>2. Contains(pending'[p], c)
            BY <1>5, <1>7, <2>5, <3>1
        <3>3. CASE on[c] = n /\ waits[c] = "queued"
            <4>1. Contains(pending[p], n)
                <5>1. PICK i \in 1 .. Len(pending[p]) :
                          pending[p][i] = c /\ \E j \in 1 .. i - 1 : pending[p][j] = n
                    BY <3>1, <3>3 DEF Behind
                <5>2. PICK j \in 1 .. i - 1 : pending[p][j] = n
                    BY <5>1
                <5>3. j \in 1 .. Len(pending[p])
                    BY <5>1, LenProperties DEF TypeOK
                <5> QED
                    BY <5>2, <5>3 DEF Contains
            <4>2. p = q
                BY <1>4, <2>2, <3>3, <4>1 DEF QueuedIsLinked
            <4> QED
                BY <1>5, <3>2, <3>3, <4>2, <1>3 DEF FlusherAt
        <3>4. CASE ~(on[c] = n /\ waits[c] = "queued")
            <4>1. waits'[c] = waits[c]
                BY <1>5, <3>4
            <4>2. waits[c] = "queued" => Behind(pending'[p], on[c], c)
                BY <1>1, <1>2, <1>5, <3>1, <3>4, TailBehind
            <4>3. waits[c] = "running" => cur'[p] = on[c]
                BY <1>2, <1>5, <2>2, <3>1
            <4> QED
                BY <1>3, <3>1, <3>2, <4>1, <4>2, <4>3 DEF FlusherAt
        <3> QED
            BY <3>3, <3>4
    <2> QED
        BY <2>3, <2>4, <2>5
<1>11. CancellerPlaced(c)'
    <2>1. Cancelling(c) => on[c] \in Nodes
        BY DEF Cancelling, CallsOK, OnWork, Nodes
    <2>2. waits[c] = "running" => waits'[c] = "running"
        BY <1>5
    <2> QED
        BY <1>3, <1>5, <1>6, <1>8, <2>1, <2>2 DEF Waiting, CancellerPlaced
<1>12. ReleasedIsOver(c)'
    BY <1>3, <1>5, <1>6 DEF Waiting, ReleasedIsOver
<1> QED
    BY <1>9, <1>10, <1>11, <1>12 DEF Waiting

\* If a canceller of the work is linked, the loop finds one.
LEMMA ReleasedIfAny ==
    ASSUME TypeOK, NEW w, NEW c, Contains(cancels, c), on[c] = w
    PROVE  Released(w) \in 1 .. Len(cancels)
<1> DEFINE I == {i \in 1 .. Len(cancels) : on[cancels[i]] = w}
<1>1. Released(w) = IF I # {} THEN Min(I) ELSE 0
    BY DEF Released, SelectInSeq
<1>2. Len(cancels) \in Nat
    BY LenProperties DEF TypeOK
<1>3. I \in SUBSET Nat /\ I # {}
    BY <1>2 DEF Contains
<1>4. Min(I) \in I
    BY <1>3, MinExists
<1> QED
    BY <1>1, <1>3, <1>4

\* The handler is back: the flusher that ran, or the canceller of the work
\* that ran, is released.
LEMMA WaitFinish ==
    ASSUME WaitInv, NEW q \in Queues, Finish(q)
    PROVE  \A c \in Clients : Waiting(c)'
<1> USE DEF WaitInv, LinkInv
<1>1. PICK n, i : /\ n = cur[q]
                  /\ i = IF "CANCELING" \in wflags[n] THEN Released(n) ELSE 0
    OBVIOUS
<1>2. n \in Nodes /\ n # None
    BY <1>1, DistinctObjects DEF Finish, BusyIsRunning, TypeOK, Nodes
<1>3. /\ wflags' = [wflags EXCEPT ![n] = FinishedFlags(n)]
      /\ cur' = [cur EXCEPT ![q] = None]
      /\ cancels' = IF i # 0 THEN RemoveAt(cancels, i) ELSE cancels
      /\ waits' = Waiters(n, "running", "over")
      /\ sem' = [c \in Clients |-> \/ sem[c]
                                   \/ c = n /\ "FLUSHING" \in wflags[n]
                                   \/ i # 0 /\ c = cancels[i]]
      /\ UNCHANGED <<pending, call, on>>
    BY <1>1 DEF Finish
<1>4. /\ \A p \in Queues : p # q => cur'[p] = cur[p]
      /\ cur'[q] = None
      /\ \A m \in Nodes : m # n => wflags'[m] = wflags[m]
      /\ \A c \in Clients :
            /\ waits'[c] = IF on[c] = n /\ waits[c] = "running" THEN "over" ELSE waits[c]
            /\ sem'[c] <=> \/ sem[c]
                           \/ c = n /\ "FLUSHING" \in wflags[n]
                           \/ i # 0 /\ c = cancels[i]
    BY <1>2, <1>3 DEF TypeOK, Waiters
<1>5. i # 0 => /\ i \in 1 .. Len(cancels) /\ on[cancels[i]] = n
               /\ cancels[i] \in Clients /\ Contains(cancels, cancels[i])
    <2> SUFFICES ASSUME i # 0
                 PROVE  /\ i \in 1 .. Len(cancels) /\ on[cancels[i]] = n
                        /\ cancels[i] \in Clients /\ Contains(cancels, cancels[i])
        OBVIOUS
    <2>1. i = Released(n)
        BY <1>1
    <2>2. i \in 1 .. Len(cancels) /\ on[cancels[i]] = n
        BY <2>1, ReleasedProperties, LenProperties DEF TypeOK
    <2> QED
        BY <2>2, ElementOfSeq DEF Contains, TypeOK
<1> SUFFICES ASSUME NEW c \in Clients
             PROVE  Waiting(c)'
    OBVIOUS
<1>6. c \in Nodes /\ c # None /\ Waiting(c)
    BY DistinctObjects DEF Nodes
<1>7. /\ i # 0 /\ c # cancels[i] => (Contains(cancels', c) <=> Contains(cancels, c))
      /\ i # 0 => AtMostOnce(cancels', c)
      /\ i # 0 /\ c = cancels[i] => ~Contains(cancels', c)
    <2>1. cancels \in Seq(Clients) /\ AtMostOnce(cancels, c)
        BY <1>6 DEF TypeOK, Waiting, CancellerPlaced
    <2> QED
        BY <1>3, <1>5, <2>1, RemoveAtLinks
<1>8. CASE c = n
    <2>1. Flushing(c) /\ "FLUSHING" \in wflags[c]
        BY <1>1, <1>6, <1>8 DEF Waiting, FlusherPlaced
    <2>2. \A p \in Queues : ~Contains(pending[p], c) /\ (cur[p] = c => p = q)
        BY <1>1, <1>6, <1>8 DEF Waiting, FlusherPlaced
    <2>3. waits[c] = "over"
        <3>1. PICK p \in Queues : FlusherAt(c, p)
            BY <1>6, <2>1 DEF Waiting, FlusherWaits
        <3> QED
            BY <2>2, <3>1 DEF FlusherAt
    <2>4. sem'[c] /\ waits'[c] = "over" /\ ~Flushing(c)' /\ ~Cancelling(c)' /\ ~Cancelling(c)
        BY <1>3, <1>4, <1>8, <2>1, <2>3 DEF Flushing, Cancelling
    <2>5. FlusherPlaced(c)'
        BY <1>3, <1>4, <1>6, <2>2 DEF Waiting, FlusherPlaced
    <2>6. CancellerPlaced(c)'
        <3>1. ~Contains(cancels, c)
            BY <1>6, <2>4 DEF Waiting, CancellerPlaced
        <3>2. ~Contains(cancels', c) /\ AtMostOnce(cancels', c)
            BY <1>3, <1>5, <1>6, <1>7, <3>1 DEF Waiting, CancellerPlaced
        <3> QED
            BY <2>4, <3>2 DEF CancellerPlaced
    <2> QED
        BY <1>3, <2>1, <2>4, <2>5, <2>6 DEF Waiting, FlusherWaits, ReleasedIsOver, Flushing, OnWork
<1>9. CASE c # n /\ i # 0 /\ c = cancels[i]
    <2>1. Cancelling(c) /\ on[c] = n /\ waits[c] = "running"
        BY <1>5, <1>6, <1>9 DEF Waiting, CancellerPlaced
    <2>2. sem'[c] /\ waits'[c] = "over" /\ call'[c] = "cancel_sync"
        BY <1>3, <1>4, <1>9, <2>1 DEF Cancelling
    <2>3. ~Flushing(c) /\ ~Flushing(c)' /\ ~Cancelling(c)'
        BY <2>1, <2>2 DEF Flushing, Cancelling
    <2>4. FlusherPlaced(c)'
        BY <1>3, <1>4, <1>6, <2>3 DEF Waiting, FlusherPlaced
    <2>5. CancellerPlaced(c)'
        BY <1>7, <1>9, <2>3 DEF CancellerPlaced
    <2> QED
        BY <2>2, <2>3, <2>4, <2>5 DEF Waiting, FlusherWaits, ReleasedIsOver, OnWork
<1>10. CASE c # n /\ ~(i # 0 /\ c = cancels[i])
    <2>1. sem'[c] <=> sem[c]
        BY <1>4, <1>10
    <2>2. (Flushing(c)' <=> Flushing(c)) /\ (Cancelling(c)' <=> Cancelling(c))
        BY <1>3, <2>1 DEF Flushing, Cancelling
    <2>3. wflags'[c] = wflags[c]
        BY <1>4, <1>6, <1>10
    <2>4. FlusherPlaced(c)'
        BY <1>3, <1>4, <1>6, <2>2, <2>3 DEF Waiting, FlusherPlaced
    <2>5. FlusherWaits(c)'
        <3>1. ASSUME NEW p \in Queues, FlusherAt(c, p)
              PROVE  FlusherAt(c, p)'
            BY <1>1, <1>3, <1>4, <1>10, <3>1 DEF FlusherAt
        <3> QED
            BY <1>6, <2>2, <3>1 DEF Waiting, FlusherWaits
    <2>6. CancellerPlaced(c)'
        <3>1. Contains(cancels', c) <=> Contains(cancels, c)
            BY <1>3, <1>7, <1>10
        <3>2. AtMostOnce(cancels', c)
            BY <1>3, <1>6, <1>7 DEF Waiting, CancellerPlaced
        <3>3. ASSUME Cancelling(c)
              PROVE  "CANCELING" \in wflags'[on[c]] /\ waits'[c] = "running"
            <4>1. Contains(cancels, c) /\ "CANCELING" \in wflags[on[c]] /\ waits[c] = "running"
                BY <1>6, <3>3 DEF Waiting, CancellerPlaced
            <4>2. on[c] # n
                <5> SUFFICES ASSUME on[c] = n
                             PROVE  FALSE
                    OBVIOUS
                <5>1. i # 0
                    BY <1>1, <4>1, ReleasedIfAny
                <5>2. Cancelling(cancels[i])
                    BY <1>5, <5>1 DEF Waiting, CancellerPlaced
                <5>3. c = cancels[i]
                    BY <1>5, <3>3, <5>1, <5>2 DEF OneCanceller, Cancelling
                <5> QED
                    BY <1>10, <5>1, <5>3
            <4>3. on[c] \in Nodes
                BY <3>3 DEF Cancelling, CallsOK, OnWork, Nodes
            <4> QED
                BY <1>4, <4>1, <4>2, <4>3
        <3>4. Contains(cancels, c) <=> Cancelling(c)
            BY <1>6 DEF Waiting, CancellerPlaced
        <3>5. on' = on
            BY <1>3
        <3> QED
            BY <2>2, <3>1, <3>2, <3>3, <3>4, <3>5 DEF CancellerPlaced
    <2>7. ReleasedIsOver(c)'
        BY <1>3, <1>4, <1>6, <2>1 DEF Waiting, ReleasedIsOver
    <2> QED
        BY <2>4, <2>5, <2>6, <2>7 DEF Waiting
<1> QED
    BY <1>8, <1>9, <1>10

LEMMA WaitClientStep ==
    ASSUME WaitInv, NEW c \in Clients, ClientNext(c)
    PROVE  \A d \in Clients : Waiting(d)'
<1> USE DEF queueVars, workerVars, ghostVars
<1>0. TypeOK
    BY DEF WaitInv, LinkInv
<1>1. ASSUME MayCall(c), NEW what, what \notin OnWork, NEW x, Enter(c, what, x),
             UNCHANGED <<wflags, pending, cur, cancels, sem, waits>>
      PROVE  \A d \in Clients : Waiting(d)'
    <2>1. \A d \in Clients : \/ call'[d] = call[d] /\ on'[d] = on[d]
                             \/ call[d] \notin OnWork /\ call'[d] \notin OnWork
        BY <1>0, <1>1, DistinctObjects DEF MayCall, Enter, TypeOK, OnWork
    <2> QED
        BY <1>1, <2>1, WaitFrame
<1>2. ASSUME call[c] \notin OnWork, Leave(c),
             UNCHANGED <<wflags, pending, cur, cancels, sem, waits>>
      PROVE  \A d \in Clients : Waiting(d)'
    <2>1. \A d \in Clients : \/ call'[d] = call[d] /\ on'[d] = on[d]
                             \/ call[d] \notin OnWork /\ call'[d] \notin OnWork
        BY <1>0, <1>2 DEF Leave, TypeOK, OnWork
    <2> QED
        BY <1>2, <2>1, WaitFrame
<1>3. ASSUME UNCHANGED <<call, on, wflags, pending, cur, cancels, sem, waits>>
      PROVE  \A d \in Clients : Waiting(d)'
    BY <1>3, WaitFrame
<1>4. ASSUME NEW q \in Queues, Start(c, q) \/ Run(c, q)
      PROVE  \A d \in Clients : Waiting(d)'
    <2>1. Launch(q) /\ MayCall(c)
        BY <1>4 DEF Start, Run
    <2>2. UNCHANGED <<wflags, pending, cur>>
        BY <2>1, LaunchFresh DEF WaitInv
    <2>3. UNCHANGED <<wflags, pending, cur, cancels, sem, waits>>
        BY <2>1, <2>2 DEF Launch, ghostVars
    <2> QED
        BY <1>1, <1>3, <1>4, <2>1, <2>3 DEF Start, Run, OnWork
<1>5. ASSUME NEW q \in Queues, Destroy(c, q)
      PROVE  \A d \in Clients : Waiting(d)'
    <2>1. CASE "STARTED" \in qflags[q]
        <3>1. /\ MayCall(c) /\ Enter(c, "destroy", q)
              /\ UNCHANGED <<wflags, pending, cur, cancels, sem, waits>>
            BY <1>5, <2>1 DEF Destroy, BeginDrain
        <3> QED
            BY <1>1, <3>1 DEF OnWork
    <2>2. CASE "STARTED" \notin qflags[q]
        BY <1>3, <1>5, <2>2 DEF Destroy
    <2> QED
        BY <2>1, <2>2
<1>6. ASSUME NEW q \in Queues, NEW plug \in BOOLEAN, Drain(c, q, plug)
      PROVE  \A d \in Clients : Waiting(d)'
    BY <1>1, <1>6 DEF Drain, BeginDrain, OnWork
<1>7. ASSUME NEW q \in Queues, NEW how \in {"stop", "stop_for"}, Stop(c, q, how)
      PROVE  \A d \in Clients : Waiting(d)'
    BY <1>1, <1>7 DEF Stop, OnWork
<1>8. ASSUME DrainReturn(c) \/ StopReturn(c) \/ StopForReturn(c) \/ RunReturn(c) \/ DestroyReturn(c)
      PROVE  \A d \in Clients : Waiting(d)'
    <2>1. /\ call[c] \notin OnWork /\ Leave(c)
          /\ UNCHANGED <<wflags, pending, cur, cancels, sem, waits>>
        BY <1>8 DEF DrainReturn, TokenTaken, StopReturn, StopForReturn, RunReturn, DestroyReturn, OnWork
    <2> QED
        BY <1>2, <2>1
<1>9. ASSUME DestroyDrained(c)
      PROVE  \A d \in Clients : Waiting(d)'
    <2>1. \A d \in Clients : \/ call'[d] = call[d] /\ on'[d] = on[d]
                             \/ call[d] \notin OnWork /\ call'[d] \notin OnWork
        BY <1>0, <1>9 DEF DestroyDrained, TokenTaken, Enter, TypeOK, OnWork
    <2> QED
        BY <1>9, <2>1, WaitFrame DEF DestroyDrained, TokenTaken
<1>10. ASSUME FlushReturn(c) \/ CancelReturn(c)
       PROVE  \A d \in Clients : Waiting(d)'
    BY <1>10, WaitSemTaken DEF FlushReturn, CancelReturn, OnWork
<1> QED
    BY <1>4, <1>5, <1>6, <1>7, <1>8, <1>9, <1>10, WaitCancelSync, WaitFlush DEF ClientNext

LEMMA WaitThreadStep ==
    ASSUME WaitInv, NEW t \in Threads, ThreadNext(t)
    PROVE  \A c \in Clients : Waiting(c)'
<1> USE DEF queueVars, workerVars, callVars, ghostVars
<1>1. ASSUME NEW w \in Works, NEW q \in Queues, Submit(t, w, q)
      PROVE  \A c \in Clients : Waiting(c)'
    <2>1. Target(w, q) \in Queues
        BY BusyWork DEF Target, WaitInv
    <2> QED
        BY <1>1, <2>1, WaitSubmit DEF Submit
<1>2. ASSUME NEW w \in Works, Resubmit(t, w)
      PROVE  \A c \in Clients : Waiting(c)'
    BY <1>2, WaitSubmit DEF Resubmit, WaitInv, LinkInv, TypeOK
<1>3. ASSUME NEW w \in Works, Cancel(t, w)
      PROVE  \A c \in Clients : Waiting(c)'
    BY <1>3, WaitCancelAsync DEF Cancel
<1>4. ASSUME NEW w \in Works, NEW h \in Handlers, SetHandler(t, w, h)
      PROVE  \A c \in Clients : Waiting(c)'
    BY <1>4, WaitFrame DEF SetHandler
<1>5. ASSUME NEW q \in Queues, Unplug(t, q)
      PROVE  \A c \in Clients : Waiting(c)'
    BY <1>5, WaitFrame DEF Unplug
<1> QED
    BY <1>1, <1>2, <1>3, <1>4, <1>5 DEF ThreadNext

LEMMA WaitWorkerStep ==
    ASSUME WaitInv, NEW q \in Queues, WorkerStep(q) \/ Throw(q)
    PROVE  \A c \in Clients : Waiting(c)'
<1>1. ASSUME AnswerDrain(q) \/ Quit(q) \/ Sleep(q) \/ Wake(q) \/ Throw(q)
      PROVE  UNCHANGED <<wflags, pending, cur, cancels, sem, waits, call, on>>
    BY <1>1 DEF AnswerDrain, Quit, Sleep, Wake, Throw, queueVars, callVars, ghostVars
<1> QED
    BY <1>1, WaitFrame, WaitTake, WaitFinish DEF WorkerStep

\* Only work_cancel_sync makes a client wait for a cancellation.
LEMMA OneCancellerStep ==
    ASSUME "one_canceller" \in Discipline, TypeOK, OneCanceller, [Next]_vars
    PROVE  OneCanceller'
<1>1. ASSUME \A c \in Clients : call'[c] = "cancel_sync" => call[c] = "cancel_sync" /\ on'[c] = on[c]
      PROVE  OneCanceller'
    BY <1>1 DEF OneCanceller
<1>2. ASSUME NEW c \in Clients, NEW what, what # "cancel_sync", NEW x, Enter(c, what, x)
      PROVE  OneCanceller'
    BY <1>1, <1>2 DEF Enter, TypeOK
<1>3. ASSUME NEW c \in Clients, Leave(c)
      PROVE  OneCanceller'
    BY <1>1, <1>3 DEF Leave, TypeOK
<1>4. ASSUME UNCHANGED <<call, on>>
      PROVE  OneCanceller'
    BY <1>1, <1>4
<1>5. ASSUME NEW c \in Clients, NEW w \in Works, CancelSync(c, w)
      PROVE  OneCanceller'
    <2>1. CASE Enter(c, "cancel_sync", w)
        <3>1. \A d \in Clients : call[d] = "cancel_sync" => on[d] # w
            BY <1>5 DEF CancelSync, NoCancelSyncOn
        <3>2. \A d \in Clients : d # c => call'[d] = call[d] /\ on'[d] = on[d]
            BY <2>1 DEF Enter, TypeOK
        <3>3. on'[c] = w
            BY <2>1 DEF Enter, TypeOK
        <3> QED
            BY <3>1, <3>2, <3>3 DEF OneCanceller
    <2> QED
        BY <1>4, <1>5, <2>1 DEF CancelSync
<1>6. ASSUME NEW c \in Clients, ClientNext(c)
      PROVE  OneCanceller'
    <2>1. ASSUME NEW w \in Works, Flush(c, w)
          PROVE  OneCanceller'
        BY <1>2, <2>1 DEF Flush
    <2>2. ASSUME NEW q \in Queues, Start(c, q) \/ Run(c, q) \/ Destroy(c, q)
          PROVE  OneCanceller'
        BY <1>2, <1>4, <2>2 DEF Start, Run, Destroy
    <2>3. ASSUME NEW q \in Queues, NEW plug \in BOOLEAN, Drain(c, q, plug)
          PROVE  OneCanceller'
        BY <1>2, <2>3 DEF Drain
    <2>4. ASSUME NEW q \in Queues, NEW how \in {"stop", "stop_for"}, Stop(c, q, how)
          PROVE  OneCanceller'
        BY <1>2, <2>4 DEF Stop
    <2>5. ASSUME DestroyDrained(c)
          PROVE  OneCanceller'
        BY <1>2, <2>5 DEF DestroyDrained
    <2>6. ASSUME FlushReturn(c) \/ CancelReturn(c) \/ DrainReturn(c) \/ StopReturn(c)
                   \/ StopForReturn(c) \/ RunReturn(c) \/ DestroyReturn(c)
          PROVE  OneCanceller'
        BY <1>3, <2>6 DEF FlushReturn, CancelReturn, SemTaken, DrainReturn, StopReturn,
             StopForReturn, RunReturn, DestroyReturn
    <2> QED
        BY <1>5, <1>6, <2>1, <2>2, <2>3, <2>4, <2>5, <2>6 DEF ClientNext
<1>7. ASSUME NEW t \in Threads, ThreadNext(t)
      PROVE  UNCHANGED <<call, on>>
    BY <1>7 DEF ThreadNext, Submit, Resubmit, Cancel, SetHandler, Unplug, SubmitLocked, callVars
<1>8. ASSUME NEW q \in Queues, WorkerStep(q) \/ Throw(q)
      PROVE  UNCHANGED <<call, on>>
    BY <1>8 DEF WorkerStep, Take, AnswerDrain, Quit, Sleep, Wake, Finish, Throw, callVars
<1>9. UNCHANGED vars => UNCHANGED <<call, on>>
    BY DEF vars, callVars
<1> QED
    BY <1>4, <1>6, <1>7, <1>8, <1>9 DEF Next

LEMMA WaitInit ==
    ASSUME "no_relaunch" \in Discipline
    PROVE  Init => WaitInv
<1> SUFFICES ASSUME Init
             PROVE  WaitInv
    OBVIOUS
<1>1. \A n : ~Contains(<<>>, n) /\ AtMostOnce(<<>>, n)
    BY EmptySeq DEF Contains, AtMostOnce
<1>2. CallsOK /\ OneCanceller
    BY DistinctObjects DEF Init, CallsOK, OnWork, OnQueue, OneCanceller
<1>3. ASSUME NEW c \in Clients
      PROVE  Waiting(c)
    <2>1. ~Flushing(c) /\ ~Cancelling(c) /\ ~sem[c]
        BY DEF Init, Flushing, Cancelling
    <2>2. \A q \in Queues : pending[q] = <<>> /\ cur[q] # c
        BY DistinctObjects DEF Init
    <2>3. cancels = <<>>
        BY DEF Init
    <2> QED
        BY <1>1, <2>1, <2>2, <2>3 DEF Waiting, FlusherPlaced, FlusherWaits, CancellerPlaced, ReleasedIsOver
<1> QED
    BY <1>2, <1>3, LinkInit DEF WaitInv

\* Whoever waits in work_flush or work_cancel_sync is released by the end of
\* the instance he called for, not before it, and cannot be left behind, as
\* long as one client at a time cancels a given work: of two cancellers of an
\* instance only the first is released.
THEOREM WaitersAreServedCorrect ==
    ASSUME "one_canceller" \in Discipline, "no_relaunch" \in Discipline
    PROVE  Spec => []WaitersAreServed
<1>1. WaitInv /\ LinkInv' /\ [Next]_vars => WaitInv'
    <2> SUFFICES ASSUME WaitInv, LinkInv', [Next]_vars
                 PROVE  WaitInv'
        OBVIOUS
    <2>1. CallsOK' /\ OneCanceller'
        BY CallsStep, OneCancellerStep DEF WaitInv, LinkInv
    <2>2. UNCHANGED vars => \A c \in Clients : Waiting(c)'
        BY WaitFrame DEF vars, queueVars, workerVars, callVars, ghostVars
    <2>3. \A c \in Clients : Waiting(c)'
        BY <2>2, WaitClientStep, WaitThreadStep, WaitWorkerStep DEF Next
    <2> QED
        BY <2>1, <2>3 DEF WaitInv
<1>2. WaitInv => WaitersAreServed
    <2> SUFFICES ASSUME WaitInv
                 PROVE  WaitersAreServed
        OBVIOUS
    <2>1. FlusherFollows
        <3> SUFFICES ASSUME NEW c \in Clients, Flushing(c)
                     PROVE  \E q \in Queues :
                              \/ cur[q] = c /\ waits[c] = "over"
                              \/ \E i \in DOMAIN pending[q] :
                                   /\ pending[q][i] = c
                                   /\ waits[c] = "queued" => \E j \in 1 .. i - 1 : pending[q][j] = on[c]
                                   /\ waits[c] = "running" => cur[q] = on[c]
            BY DEF FlusherFollows, Flushing
        <3>1. PICK q \in Queues : FlusherAt(c, q)
            BY DEF WaitInv, Waiting, FlusherWaits
        <3>2. CASE waits[c] = "queued"
            <4>1. Behind(pending[q], on[c], c)
                BY <3>1, <3>2 DEF FlusherAt
            <4>2. DOMAIN pending[q] = 1 .. Len(pending[q])
                BY LenProperties DEF WaitInv, LinkInv, TypeOK
            <4> QED
                BY <3>2, <4>1, <4>2 DEF Behind
        <3>3. CASE waits[c] # "queued"
            <4>1. DOMAIN pending[q] = 1 .. Len(pending[q])
                BY LenProperties DEF WaitInv, LinkInv, TypeOK
            <4> QED
                BY <3>1, <3>3, <4>1 DEF FlusherAt, Contains
        <3> QED
            BY <3>2, <3>3
    <2>2. CancellerIsServed
        BY DEF WaitInv, Waiting, CancellerPlaced, Cancelling, CancellerIsServed
    <2>3. WaitsForInstance
        BY DEF WaitInv, Waiting, ReleasedIsOver, WaitsForInstance
    <2> QED
        BY <2>1, <2>2, <2>3 DEF WaitersAreServed
<1> QED
    BY <1>1, <1>2, WaitInit, LinkCorrect, PTL DEF Spec

=============================================================================
