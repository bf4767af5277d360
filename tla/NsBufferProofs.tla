--------------------------- MODULE NsBufferProofs ---------------------------
(***************************************************************************)
(* Proofs about NsBuffer for every set of threads, symbols and requests,   *)
(* every semantics Execute / Lookup of the environments and every MaxCalls,*)
(* then about NsReadBarrier: a read waits for the writes of its symbol     *)
(* that were dispatched when it was called; about NsIndexAssign: an        *)
(* indexed assignment excludes the reads of other threads; and about       *)
(* NsShutdown: what is in the buffer when it stops is drained unharmed.    *)
(***************************************************************************)
EXTENDS NsReadBarrier, NsIndexAssign, NsShutdown, SequenceTheorems, TLAPS

\* Where a thread is agrees with the request it holds.
RequestInv ==
  \A t \in Threads :
    /\ pc[t] = "idle" <=> req[t] = NoReq
    /\ pc[t] \in {"wr_enqueue", "wr_wait", "wr_asleep"} => req[t] \in Ops
    /\ pc[t] \in {"rd_find", "rd_drain", "rd_asleep", "rd_lock", "rd_look", "rd_unlock"}
         => req[t] \in Reads
    /\ pc[t] = "wr_enqueue" => ~completed[t]

\* The prepare thread holds an operation from phase 2 to phase 5.
HandInv == hand = NoThread <=> ppc \in {"top", "fetch", "asleep"}

\* env_mtx is owned by exactly the thread whose location says so.
LockInv ==
  /\ envMtx = Prepare <=> ppc \in {"execute", "unlock_env"}
  /\ \A t \in Threads : envMtx = t <=> pc[t] \in {"rd_look", "rd_unlock"}

\* A request has its result exactly from the step that performs it.
Performed(t) ==
  \/ pc[t] = "rd_unlock"
  \/ Waiting(t) /\ completed[t]
  \/ hand = t /\ ppc \in {"unlock_env", "retire", "complete"}

ResultInv == \A t \in Threads : result[t] # NoResult <=> Performed(t)

\* The inductive invariant.
IInv == /\ TypeOK /\ RequestInv /\ HandInv /\ LockInv /\ ResultInv
        /\ NsOpAlive /\ PendingExact /\ NoLostWakeup

\* Appending to a queue adds one element, and keeps the queue free of repetition
\* when the element is new.
LEMMA AppendElements ==
  ASSUME NEW S, NEW q \in Seq(S), NEW e \in S
  PROVE  /\ Elements(Append(q, e)) = Elements(q) \cup {e}
         /\ Distinct(q) /\ e \notin Elements(q) => Distinct(Append(q, e))
<1>1. /\ DOMAIN q = 1..Len(q) /\ Len(q) \in Nat
      /\ DOMAIN Append(q, e) = 1..(Len(q) + 1)
      /\ \A i \in DOMAIN q : Append(q, e)[i] = q[i]
      /\ Append(q, e)[Len(q) + 1] = e
  BY AppendProperties
<1>2. \A i \in DOMAIN Append(q, e) : i \in DOMAIN q \/ i = Len(q) + 1
  BY <1>1
<1>3. Elements(q) \subseteq Elements(Append(q, e))
  BY <1>1 DEF Elements
<1>4. e \in Elements(Append(q, e))
  BY <1>1 DEF Elements
<1>5. Elements(Append(q, e)) \subseteq Elements(q) \cup {e}
  BY <1>1, <1>2 DEF Elements
<1>6. ASSUME Distinct(q), e \notin Elements(q) PROVE Distinct(Append(q, e))
  BY <1>1, <1>2, <1>6 DEF Elements, Distinct
<1> QED
  BY <1>3, <1>4, <1>5, <1>6

\* Taking the head off a queue without repetition removes that element and no
\* other.
LEMMA TailElements ==
  ASSUME NEW S, NEW q \in Seq(S), q # <<>>, Distinct(q)
  PROVE  /\ Elements(q) = Elements(Tail(q)) \cup {Head(q)}
         /\ Head(q) \in S
         /\ Head(q) \notin Elements(Tail(q))
         /\ Distinct(Tail(q))
<1>1. /\ DOMAIN q = 1..Len(q) /\ Len(q) \in Nat \ {0}
      /\ DOMAIN Tail(q) = 1..(Len(q) - 1)
      /\ \A i \in DOMAIN Tail(q) : Tail(q)[i] = q[i + 1]
      /\ Head(q) = q[1] /\ Head(q) \in S
  BY HeadTailProperties
<1>2. \A i \in DOMAIN Tail(q) : i + 1 \in DOMAIN q /\ i + 1 # 1
  BY <1>1
<1>3. \A i \in DOMAIN q : i = 1 \/ (i - 1 \in DOMAIN Tail(q) /\ q[i] = Tail(q)[i - 1])
  BY <1>1
<1>4. Elements(Tail(q)) \subseteq Elements(q)
  BY <1>1, <1>2 DEF Elements
<1>5. Head(q) \in Elements(q)
  BY <1>1 DEF Elements
<1>6. Elements(q) \subseteq Elements(Tail(q)) \cup {Head(q)}
  <2>1. SUFFICES ASSUME NEW i \in DOMAIN q
                 PROVE  q[i] \in Elements(Tail(q)) \cup {Head(q)}
    BY DEF Elements
  <2>2. CASE i = 1
    BY <1>1, <2>2
  <2>3. CASE i # 1
    BY <1>3, <2>3 DEF Elements
  <2> QED
    BY <2>2, <2>3
<1>7. Head(q) \notin Elements(Tail(q))
  BY <1>1, <1>2 DEF Elements, Distinct
<1>8. Distinct(Tail(q))
  <2>1. SUFFICES ASSUME NEW i \in DOMAIN Tail(q), NEW j \in DOMAIN Tail(q), Tail(q)[i] = Tail(q)[j]
                 PROVE  i = j
    BY DEF Distinct
  <2>2. i + 1 = j + 1
    BY <1>1, <1>2, <2>1 DEF Distinct
  <2>3. i \in Int /\ j \in Int
    BY <1>1
  <2> QED
    BY <2>2, <2>3
<1> QED
  BY <1>1, <1>4, <1>5, <1>6, <1>7, <1>8

\* The buffer as ns_buffer_init leaves it satisfies the invariant.
LEMMA InitInv == Init => IInv
  BY NamesAssumption, RequestAssumption, StoreAssumption, ThreadAssumption, BoundAssumption
  DEF Init, IInv, TypeOK, RequestInv, HandInv, LockInv, ResultInv, Performed, Waiting,
      NsOpAlive, InBuffer, Elements, Distinct, PendingExact, Counted, NoLostWakeup,
      ThreadLocs, PrepareLocs

\* An operation in the prepare thread's hand is a write whose writer is still
\* inside wait_op.
LEMMA HandOp ==
  ASSUME IInv, hand # NoThread
  PROVE  /\ hand \in Threads /\ req[hand] \in Ops /\ req[hand].name \in Names
         /\ Waiting(hand) /\ ~completed[hand]
  BY NamesAssumption DEF IInv, TypeOK, RequestInv, NsOpAlive, InBuffer, Waiting

\* Every step keeps the types; only Retire needs more than its own types, since
\* pending_count must not go below zero.
LEMMA TypeOKStep == IInv /\ [Next]_vars => TypeOK'
<1> SUFFICES ASSUME IInv, [Next]_vars PROVE TypeOK'
  OBVIOUS
<1>hand. hand # NoThread => /\ hand \in Threads /\ req[hand] \in Ops /\ req[hand].name \in Names
                         /\ Waiting(hand) /\ ~completed[hand]
  BY HandOp
<1> USE NamesAssumption, RequestAssumption, StoreAssumption, ThreadAssumption, BoundAssumption
    DEF IInv, TypeOK, RequestInv, HandInv, PendingExact, Counted, ThreadLocs, PrepareLocs,
        threadVars, sharedVars, Goto, Leave
<1>1. ASSUME NEW t \in Threads, Call(t) PROVE TypeOK'
  BY <1>hand, <1>1 DEF Call
<1>2. ASSUME NEW t \in Threads, Enqueue(t) PROVE TypeOK'
  BY <1>hand, <1>2 DEF Enqueue
<1>3. ASSUME NEW t \in Threads, WaitOp(t) PROVE TypeOK'
  BY <1>hand, <1>3 DEF WaitOp
<1>4. ASSUME NEW t \in Threads, ReturnWrite(t) PROVE TypeOK'
  BY <1>hand, <1>4 DEF ReturnWrite
<1>5. ASSUME NEW t \in Threads, FindSymbol(t) PROVE TypeOK'
  BY <1>hand, <1>5 DEF FindSymbol
<1>6. ASSUME NEW t \in Threads, Drain(t) PROVE TypeOK'
  BY <1>hand, <1>6 DEF Drain
<1>7. ASSUME NEW t \in Threads, ReadLock(t) PROVE TypeOK'
  BY <1>hand, <1>7 DEF ReadLock
<1>8. ASSUME NEW t \in Threads, Look(t) PROVE TypeOK'
  BY <1>hand, <1>8 DEF Look
<1>9. ASSUME NEW t \in Threads, ReadUnlock(t) PROVE TypeOK'
  BY <1>hand, <1>9 DEF ReadUnlock
<1>10. ASSUME NEW t \in Threads, SpuriousWakeup(t) PROVE TypeOK'
  BY <1>hand, <1>10 DEF SpuriousWakeup
<1>11. CASE LoopTest
  BY <1>hand, <1>11 DEF LoopTest
<1>12. CASE AwaitOp
  BY <1>hand, <1>12 DEF AwaitOp
<1>13. CASE Dequeue
  BY <1>hand, <1>13 DEF Dequeue
<1>14. CASE FindOrCreateSymbol
  BY <1>hand, <1>14 DEF FindOrCreateSymbol
<1>15. CASE Dispatch
  BY <1>hand, <1>15 DEF Dispatch
<1>16. CASE LockEnv
  BY <1>hand, <1>16 DEF LockEnv
<1>17. CASE ExecuteOp
  BY <1>hand, <1>17 DEF ExecuteOp
<1>18. CASE UnlockEnv
  BY <1>hand, <1>18 DEF UnlockEnv
<1>19. CASE Retire
  BY <1>hand, <1>19 DEF Retire
<1>20. CASE Complete
  BY <1>hand, <1>20 DEF Complete
<1>21. CASE PrepareSpuriousWakeup
  BY <1>hand, <1>21 DEF PrepareSpuriousWakeup
<1>22. CASE UNCHANGED vars
  BY <1>22 DEF vars
<1> QED
  BY <1>1, <1>2, <1>3, <1>4, <1>5, <1>6, <1>7, <1>8, <1>9, <1>10, <1>11, <1>12, <1>13,
      <1>14, <1>15, <1>16, <1>17, <1>18, <1>19, <1>20, <1>21, <1>22 DEF Next, ThreadStep,
      PrepareStep

\* Every step keeps locations and requests in agreement; Retire and Complete move
\* another thread's location.
LEMMA RequestInvStep == IInv /\ [Next]_vars => RequestInv'
<1> SUFFICES ASSUME IInv, [Next]_vars PROVE RequestInv'
  OBVIOUS
<1>hand. hand # NoThread => /\ hand \in Threads /\ req[hand] \in Ops /\ req[hand].name \in Names
                         /\ Waiting(hand) /\ ~completed[hand]
  BY HandOp
<1> USE NamesAssumption, RequestAssumption, StoreAssumption, ThreadAssumption, BoundAssumption
    DEF IInv, TypeOK, RequestInv, HandInv, Waiting, DrainWaiters, ThreadLocs, PrepareLocs,
        threadVars, sharedVars, Goto, Leave
<1>1. ASSUME NEW t \in Threads, Call(t) PROVE RequestInv'
  BY <1>hand, <1>1 DEF Call
<1>2. ASSUME NEW t \in Threads, Enqueue(t) PROVE RequestInv'
  BY <1>hand, <1>2 DEF Enqueue
<1>3. ASSUME NEW t \in Threads, WaitOp(t) PROVE RequestInv'
  BY <1>hand, <1>3 DEF WaitOp
<1>4. ASSUME NEW t \in Threads, ReturnWrite(t) PROVE RequestInv'
  BY <1>hand, <1>4 DEF ReturnWrite
<1>5. ASSUME NEW t \in Threads, FindSymbol(t) PROVE RequestInv'
  BY <1>hand, <1>5 DEF FindSymbol
<1>6. ASSUME NEW t \in Threads, Drain(t) PROVE RequestInv'
  BY <1>hand, <1>6 DEF Drain
<1>7. ASSUME NEW t \in Threads, ReadLock(t) PROVE RequestInv'
  BY <1>hand, <1>7 DEF ReadLock
<1>8. ASSUME NEW t \in Threads, Look(t) PROVE RequestInv'
  BY <1>hand, <1>8 DEF Look
<1>9. ASSUME NEW t \in Threads, ReadUnlock(t) PROVE RequestInv'
  BY <1>hand, <1>9 DEF ReadUnlock
<1>10. ASSUME NEW t \in Threads, SpuriousWakeup(t) PROVE RequestInv'
  BY <1>hand, <1>10 DEF SpuriousWakeup
<1>11. CASE LoopTest
  BY <1>hand, <1>11 DEF LoopTest
<1>12. CASE AwaitOp
  BY <1>hand, <1>12 DEF AwaitOp
<1>13. CASE Dequeue
  BY <1>hand, <1>13 DEF Dequeue
<1>14. CASE FindOrCreateSymbol
  BY <1>hand, <1>14 DEF FindOrCreateSymbol
<1>15. CASE Dispatch
  BY <1>hand, <1>15 DEF Dispatch
<1>16. CASE LockEnv
  BY <1>hand, <1>16 DEF LockEnv
<1>17. CASE ExecuteOp
  BY <1>hand, <1>17 DEF ExecuteOp
<1>18. CASE UnlockEnv
  BY <1>hand, <1>18 DEF UnlockEnv
<1>19. CASE Retire
  BY <1>hand, <1>19 DEF Retire
<1>20. CASE Complete
  BY <1>hand, <1>20 DEF Complete
<1>21. CASE PrepareSpuriousWakeup
  BY <1>hand, <1>21 DEF PrepareSpuriousWakeup
<1>22. CASE UNCHANGED vars
  BY <1>22 DEF vars
<1> QED
  BY <1>1, <1>2, <1>3, <1>4, <1>5, <1>6, <1>7, <1>8, <1>9, <1>10, <1>11, <1>12, <1>13,
      <1>14, <1>15, <1>16, <1>17, <1>18, <1>19, <1>20, <1>21, <1>22 DEF Next, ThreadStep,
      PrepareStep

\* Every step keeps the hand full exactly from phase 2 to phase 5.
LEMMA HandInvStep == IInv /\ [Next]_vars => HandInv'
<1> SUFFICES ASSUME IInv, [Next]_vars PROVE HandInv'
  OBVIOUS
<1>hand. hand # NoThread => /\ hand \in Threads /\ req[hand] \in Ops /\ req[hand].name \in Names
                         /\ Waiting(hand) /\ ~completed[hand]
  BY HandOp
<1> USE NamesAssumption, RequestAssumption, StoreAssumption, ThreadAssumption, BoundAssumption
    DEF IInv, TypeOK, HandInv, ThreadLocs, PrepareLocs, threadVars, sharedVars, Goto, Leave
<1>1. ASSUME NEW t \in Threads, Call(t) PROVE HandInv'
  BY <1>hand, <1>1 DEF Call
<1>2. ASSUME NEW t \in Threads, Enqueue(t) PROVE HandInv'
  BY <1>hand, <1>2 DEF Enqueue
<1>3. ASSUME NEW t \in Threads, WaitOp(t) PROVE HandInv'
  BY <1>hand, <1>3 DEF WaitOp
<1>4. ASSUME NEW t \in Threads, ReturnWrite(t) PROVE HandInv'
  BY <1>hand, <1>4 DEF ReturnWrite
<1>5. ASSUME NEW t \in Threads, FindSymbol(t) PROVE HandInv'
  BY <1>hand, <1>5 DEF FindSymbol
<1>6. ASSUME NEW t \in Threads, Drain(t) PROVE HandInv'
  BY <1>hand, <1>6 DEF Drain
<1>7. ASSUME NEW t \in Threads, ReadLock(t) PROVE HandInv'
  BY <1>hand, <1>7 DEF ReadLock
<1>8. ASSUME NEW t \in Threads, Look(t) PROVE HandInv'
  BY <1>hand, <1>8 DEF Look
<1>9. ASSUME NEW t \in Threads, ReadUnlock(t) PROVE HandInv'
  BY <1>hand, <1>9 DEF ReadUnlock
<1>10. ASSUME NEW t \in Threads, SpuriousWakeup(t) PROVE HandInv'
  BY <1>hand, <1>10 DEF SpuriousWakeup
<1>11. CASE LoopTest
  BY <1>hand, <1>11 DEF LoopTest
<1>12. CASE AwaitOp
  BY <1>hand, <1>12 DEF AwaitOp
<1>13. CASE Dequeue
  BY <1>hand, <1>13 DEF Dequeue
<1>14. CASE FindOrCreateSymbol
  BY <1>hand, <1>14 DEF FindOrCreateSymbol
<1>15. CASE Dispatch
  BY <1>hand, <1>15 DEF Dispatch
<1>16. CASE LockEnv
  BY <1>hand, <1>16 DEF LockEnv
<1>17. CASE ExecuteOp
  BY <1>hand, <1>17 DEF ExecuteOp
<1>18. CASE UnlockEnv
  BY <1>hand, <1>18 DEF UnlockEnv
<1>19. CASE Retire
  BY <1>hand, <1>19 DEF Retire
<1>20. CASE Complete
  BY <1>hand, <1>20 DEF Complete
<1>21. CASE PrepareSpuriousWakeup
  BY <1>hand, <1>21 DEF PrepareSpuriousWakeup
<1>22. CASE UNCHANGED vars
  BY <1>22 DEF vars
<1> QED
  BY <1>1, <1>2, <1>3, <1>4, <1>5, <1>6, <1>7, <1>8, <1>9, <1>10, <1>11, <1>12, <1>13,
      <1>14, <1>15, <1>16, <1>17, <1>18, <1>19, <1>20, <1>21, <1>22 DEF Next, ThreadStep,
      PrepareStep

\* Every step keeps env_mtx with the thread that is between its lock and unlock.
LEMMA LockInvStep == IInv /\ [Next]_vars => LockInv'
<1> SUFFICES ASSUME IInv, [Next]_vars PROVE LockInv'
  OBVIOUS
<1>hand. hand # NoThread => /\ hand \in Threads /\ req[hand] \in Ops /\ req[hand].name \in Names
                         /\ Waiting(hand) /\ ~completed[hand]
  BY HandOp
<1> USE NamesAssumption, RequestAssumption, StoreAssumption, ThreadAssumption, BoundAssumption
    DEF IInv, TypeOK, LockInv, DrainWaiters, ThreadLocs, PrepareLocs, threadVars,
        sharedVars, Goto, Leave
<1>1. ASSUME NEW t \in Threads, Call(t) PROVE LockInv'
  BY <1>hand, <1>1 DEF Call
<1>2. ASSUME NEW t \in Threads, Enqueue(t) PROVE LockInv'
  BY <1>hand, <1>2 DEF Enqueue
<1>3. ASSUME NEW t \in Threads, WaitOp(t) PROVE LockInv'
  BY <1>hand, <1>3 DEF WaitOp
<1>4. ASSUME NEW t \in Threads, ReturnWrite(t) PROVE LockInv'
  BY <1>hand, <1>4 DEF ReturnWrite
<1>5. ASSUME NEW t \in Threads, FindSymbol(t) PROVE LockInv'
  BY <1>hand, <1>5 DEF FindSymbol
<1>6. ASSUME NEW t \in Threads, Drain(t) PROVE LockInv'
  BY <1>hand, <1>6 DEF Drain
<1>7. ASSUME NEW t \in Threads, ReadLock(t) PROVE LockInv'
  BY <1>hand, <1>7 DEF ReadLock
<1>8. ASSUME NEW t \in Threads, Look(t) PROVE LockInv'
  BY <1>hand, <1>8 DEF Look
<1>9. ASSUME NEW t \in Threads, ReadUnlock(t) PROVE LockInv'
  BY <1>hand, <1>9 DEF ReadUnlock
<1>10. ASSUME NEW t \in Threads, SpuriousWakeup(t) PROVE LockInv'
  BY <1>hand, <1>10 DEF SpuriousWakeup
<1>11. CASE LoopTest
  BY <1>hand, <1>11 DEF LoopTest
<1>12. CASE AwaitOp
  BY <1>hand, <1>12 DEF AwaitOp
<1>13. CASE Dequeue
  BY <1>hand, <1>13 DEF Dequeue
<1>14. CASE FindOrCreateSymbol
  BY <1>hand, <1>14 DEF FindOrCreateSymbol
<1>15. CASE Dispatch
  BY <1>hand, <1>15 DEF Dispatch
<1>16. CASE LockEnv
  BY <1>hand, <1>16 DEF LockEnv
<1>17. CASE ExecuteOp
  BY <1>hand, <1>17 DEF ExecuteOp
<1>18. CASE UnlockEnv
  BY <1>hand, <1>18 DEF UnlockEnv
<1>19. CASE Retire
  BY <1>hand, <1>19 DEF Retire
<1>20. CASE Complete
  BY <1>hand, <1>20 DEF Complete
<1>21. CASE PrepareSpuriousWakeup
  BY <1>hand, <1>21 DEF PrepareSpuriousWakeup
<1>22. CASE UNCHANGED vars
  BY <1>22 DEF vars
<1> QED
  BY <1>1, <1>2, <1>3, <1>4, <1>5, <1>6, <1>7, <1>8, <1>9, <1>10, <1>11, <1>12, <1>13,
      <1>14, <1>15, <1>16, <1>17, <1>18, <1>19, <1>20, <1>21, <1>22 DEF Next, ThreadStep,
      PrepareStep

\* Every step keeps results with the requests that have been performed.
LEMMA ResultInvStep == IInv /\ [Next]_vars => ResultInv'
<1> SUFFICES ASSUME IInv, [Next]_vars PROVE ResultInv'
  OBVIOUS
<1>hand. hand # NoThread => /\ hand \in Threads /\ req[hand] \in Ops /\ req[hand].name \in Names
                         /\ Waiting(hand) /\ ~completed[hand]
  BY HandOp
<1> USE NamesAssumption, RequestAssumption, StoreAssumption, ThreadAssumption, BoundAssumption
    DEF IInv, TypeOK, RequestInv, HandInv, ResultInv, Performed, Waiting, DrainWaiters,
        ThreadLocs, PrepareLocs, threadVars, sharedVars, Goto, Leave
<1>1. ASSUME NEW t \in Threads, Call(t) PROVE ResultInv'
  BY <1>hand, <1>1 DEF Call
<1>2. ASSUME NEW t \in Threads, Enqueue(t) PROVE ResultInv'
  BY <1>hand, <1>2 DEF Enqueue
<1>3. ASSUME NEW t \in Threads, WaitOp(t) PROVE ResultInv'
  BY <1>hand, <1>3 DEF WaitOp
<1>4. ASSUME NEW t \in Threads, ReturnWrite(t) PROVE ResultInv'
  BY <1>hand, <1>4 DEF ReturnWrite
<1>5. ASSUME NEW t \in Threads, FindSymbol(t) PROVE ResultInv'
  BY <1>hand, <1>5 DEF FindSymbol
<1>6. ASSUME NEW t \in Threads, Drain(t) PROVE ResultInv'
  BY <1>hand, <1>6 DEF Drain
<1>7. ASSUME NEW t \in Threads, ReadLock(t) PROVE ResultInv'
  BY <1>hand, <1>7 DEF ReadLock
<1>8. ASSUME NEW t \in Threads, Look(t) PROVE ResultInv'
  BY <1>hand, <1>8 DEF Look
<1>9. ASSUME NEW t \in Threads, ReadUnlock(t) PROVE ResultInv'
  BY <1>hand, <1>9 DEF ReadUnlock
<1>10. ASSUME NEW t \in Threads, SpuriousWakeup(t) PROVE ResultInv'
  BY <1>hand, <1>10 DEF SpuriousWakeup
<1>11. CASE LoopTest
  BY <1>hand, <1>11 DEF LoopTest
<1>12. CASE AwaitOp
  BY <1>hand, <1>12 DEF AwaitOp
<1>13. CASE Dequeue
  BY <1>hand, <1>13 DEF Dequeue
<1>14. CASE FindOrCreateSymbol
  BY <1>hand, <1>14 DEF FindOrCreateSymbol
<1>15. CASE Dispatch
  BY <1>hand, <1>15 DEF Dispatch
<1>16. CASE LockEnv
  BY <1>hand, <1>16 DEF LockEnv
<1>17. CASE ExecuteOp
  BY <1>hand, <1>17 DEF ExecuteOp
<1>18. CASE UnlockEnv
  BY <1>hand, <1>18 DEF UnlockEnv
<1>19. CASE Retire
  BY <1>hand, <1>19 DEF Retire
<1>20. CASE Complete
  BY <1>hand, <1>20 DEF Complete
<1>21. CASE PrepareSpuriousWakeup
  BY <1>hand, <1>21 DEF PrepareSpuriousWakeup
<1>22. CASE UNCHANGED vars
  BY <1>22 DEF vars
<1> QED
  BY <1>1, <1>2, <1>3, <1>4, <1>5, <1>6, <1>7, <1>8, <1>9, <1>10, <1>11, <1>12, <1>13,
      <1>14, <1>15, <1>16, <1>17, <1>18, <1>19, <1>20, <1>21, <1>22 DEF Next, ThreadStep,
      PrepareStep

\* Every step keeps the NsOps in the buffer and the writers in wait_op the same.
LEMMA NsOpAliveStep == IInv /\ [Next]_vars => NsOpAlive'
<1> SUFFICES ASSUME IInv, [Next]_vars PROVE NsOpAlive'
  OBVIOUS
<1>hand. hand # NoThread => /\ hand \in Threads /\ req[hand] \in Ops /\ req[hand].name \in Names
                         /\ Waiting(hand) /\ ~completed[hand]
  BY HandOp
<1>buf. InBuffer \subseteq Threads
  BY DEF IInv, TypeOK, InBuffer, Elements
<1> USE NamesAssumption, RequestAssumption, StoreAssumption, ThreadAssumption, BoundAssumption
    DEF IInv, TypeOK, RequestInv, HandInv, NsOpAlive, InBuffer, Waiting, DrainWaiters,
        ThreadLocs, PrepareLocs, threadVars, sharedVars, Goto, Leave
<1>1. ASSUME NEW t \in Threads, Call(t) PROVE NsOpAlive'
  BY <1>hand, <1>1 DEF Call
<1>2. ASSUME NEW t \in Threads, Enqueue(t) PROVE NsOpAlive'
  <2>1. t \notin InBuffer /\ t # NoThread
    BY <1>hand, <1>2 DEF Enqueue
  <2>2. InBuffer' = InBuffer \cup {t} /\ Distinct(queue')
    BY <1>2, <2>1, AppendElements DEF Enqueue
  <2> QED
    BY <1>hand, <1>2, <2>1, <2>2, AppendElements DEF Enqueue
<1>3. ASSUME NEW t \in Threads, WaitOp(t) PROVE NsOpAlive'
  BY <1>hand, <1>3 DEF WaitOp
<1>4. ASSUME NEW t \in Threads, ReturnWrite(t) PROVE NsOpAlive'
  BY <1>hand, <1>4 DEF ReturnWrite
<1>5. ASSUME NEW t \in Threads, FindSymbol(t) PROVE NsOpAlive'
  BY <1>hand, <1>5 DEF FindSymbol
<1>6. ASSUME NEW t \in Threads, Drain(t) PROVE NsOpAlive'
  BY <1>hand, <1>6 DEF Drain
<1>7. ASSUME NEW t \in Threads, ReadLock(t) PROVE NsOpAlive'
  BY <1>hand, <1>7 DEF ReadLock
<1>8. ASSUME NEW t \in Threads, Look(t) PROVE NsOpAlive'
  BY <1>hand, <1>8 DEF Look
<1>9. ASSUME NEW t \in Threads, ReadUnlock(t) PROVE NsOpAlive'
  BY <1>hand, <1>9 DEF ReadUnlock
<1>10. ASSUME NEW t \in Threads, SpuriousWakeup(t) PROVE NsOpAlive'
  <2>1. \A u \in Threads : Waiting(u)' <=> Waiting(u)
    BY <1>10 DEF SpuriousWakeup
  <2>2. UNCHANGED <<completed, queue, hand, InBuffer>>
    BY <1>10 DEF SpuriousWakeup
  <2> HIDE DEF InBuffer, Waiting
  <2> QED
    BY <1>hand, <1>buf, <2>1, <2>2
<1>11. CASE LoopTest
  BY <1>hand, <1>11 DEF LoopTest
<1>12. CASE AwaitOp
  BY <1>hand, <1>12 DEF AwaitOp
<1>13. CASE Dequeue
  <2>1. /\ Elements(queue) = Elements(queue') \cup {hand'} /\ hand' \in Threads
        /\ hand' \notin Elements(queue') /\ Distinct(queue')
    BY <1>13, TailElements DEF Dequeue
  <2>2. InBuffer' = InBuffer
    BY <1>13, <2>1 DEF Dequeue
  <2> QED
    BY <1>13, <2>1, <2>2 DEF Dequeue
<1>14. CASE FindOrCreateSymbol
  BY <1>hand, <1>14 DEF FindOrCreateSymbol
<1>15. CASE Dispatch
  BY <1>hand, <1>15 DEF Dispatch
<1>16. CASE LockEnv
  BY <1>hand, <1>16 DEF LockEnv
<1>17. CASE ExecuteOp
  BY <1>hand, <1>17 DEF ExecuteOp
<1>18. CASE UnlockEnv
  BY <1>hand, <1>18 DEF UnlockEnv
<1>19. CASE Retire
  <2>1. \A u \in Threads : Waiting(u)' <=> Waiting(u)
    BY <1>19 DEF Retire
  <2>2. UNCHANGED <<completed, queue, hand, InBuffer>>
    BY <1>19 DEF Retire
  <2> HIDE DEF InBuffer, Waiting
  <2> QED
    BY <1>hand, <1>buf, <2>1, <2>2
<1>20. CASE Complete
  <2>1. /\ \A u \in Threads : Waiting(u)' <=> Waiting(u)
        /\ completed' = [completed EXCEPT ![hand] = TRUE]
        /\ UNCHANGED queue /\ hand' = NoThread /\ hand # NoThread
    BY <1>hand, <1>20 DEF Complete
  <2>2. InBuffer' = InBuffer \ {hand}
    <3>1. Elements(queue) \subseteq Threads
      BY DEF Elements
    <3> QED
      BY <1>hand, <2>1, <3>1
  <2>3. NoThread \notin Elements(queue)
    BY <1>buf DEF InBuffer
  <2> HIDE DEF InBuffer, Waiting
  <2> QED
    BY <1>hand, <1>buf, <2>1, <2>2, <2>3
<1>21. CASE PrepareSpuriousWakeup
  BY <1>hand, <1>21 DEF PrepareSpuriousWakeup
<1>22. CASE UNCHANGED vars
  BY <1>22 DEF vars
<1> QED
  BY <1>1, <1>2, <1>3, <1>4, <1>5, <1>6, <1>7, <1>8, <1>9, <1>10, <1>11, <1>12, <1>13,
      <1>14, <1>15, <1>16, <1>17, <1>18, <1>19, <1>20, <1>21, <1>22 DEF Next, ThreadStep,
      PrepareStep

\* Every step keeps pending_count exact.
LEMMA PendingExactStep == IInv /\ [Next]_vars => PendingExact'
<1> SUFFICES ASSUME IInv, [Next]_vars PROVE PendingExact'
  OBVIOUS
<1>hand. hand # NoThread => /\ hand \in Threads /\ req[hand] \in Ops /\ req[hand].name \in Names
                         /\ Waiting(hand) /\ ~completed[hand]
  BY HandOp
<1> USE NamesAssumption, RequestAssumption, StoreAssumption, ThreadAssumption, BoundAssumption
    DEF IInv, TypeOK, RequestInv, HandInv, PendingExact, Counted, NsOpAlive, Waiting,
        ThreadLocs, PrepareLocs, threadVars, sharedVars, Goto, Leave
<1>1. ASSUME NEW t \in Threads, Call(t) PROVE PendingExact'
  BY <1>hand, <1>1 DEF Call
<1>2. ASSUME NEW t \in Threads, Enqueue(t) PROVE PendingExact'
  BY <1>hand, <1>2 DEF Enqueue
<1>3. ASSUME NEW t \in Threads, WaitOp(t) PROVE PendingExact'
  BY <1>hand, <1>3 DEF WaitOp
<1>4. ASSUME NEW t \in Threads, ReturnWrite(t) PROVE PendingExact'
  BY <1>hand, <1>4 DEF ReturnWrite
<1>5. ASSUME NEW t \in Threads, FindSymbol(t) PROVE PendingExact'
  BY <1>hand, <1>5 DEF FindSymbol
<1>6. ASSUME NEW t \in Threads, Drain(t) PROVE PendingExact'
  BY <1>hand, <1>6 DEF Drain
<1>7. ASSUME NEW t \in Threads, ReadLock(t) PROVE PendingExact'
  BY <1>hand, <1>7 DEF ReadLock
<1>8. ASSUME NEW t \in Threads, Look(t) PROVE PendingExact'
  BY <1>hand, <1>8 DEF Look
<1>9. ASSUME NEW t \in Threads, ReadUnlock(t) PROVE PendingExact'
  BY <1>hand, <1>9 DEF ReadUnlock
<1>10. ASSUME NEW t \in Threads, SpuriousWakeup(t) PROVE PendingExact'
  BY <1>hand, <1>10 DEF SpuriousWakeup
<1>11. CASE LoopTest
  BY <1>hand, <1>11 DEF LoopTest
<1>12. CASE AwaitOp
  BY <1>hand, <1>12 DEF AwaitOp
<1>13. CASE Dequeue
  BY <1>hand, <1>13 DEF Dequeue
<1>14. CASE FindOrCreateSymbol
  BY <1>hand, <1>14 DEF FindOrCreateSymbol
<1>15. CASE Dispatch
  BY <1>hand, <1>15 DEF Dispatch
<1>16. CASE LockEnv
  BY <1>hand, <1>16 DEF LockEnv
<1>17. CASE ExecuteOp
  BY <1>hand, <1>17 DEF ExecuteOp
<1>18. CASE UnlockEnv
  BY <1>hand, <1>18 DEF UnlockEnv
<1>19. CASE Retire
  BY <1>hand, <1>19 DEF Retire
<1>20. CASE Complete
  BY <1>hand, <1>20 DEF Complete
<1>21. CASE PrepareSpuriousWakeup
  BY <1>hand, <1>21 DEF PrepareSpuriousWakeup
<1>22. CASE UNCHANGED vars
  BY <1>22 DEF vars
<1> QED
  BY <1>1, <1>2, <1>3, <1>4, <1>5, <1>6, <1>7, <1>8, <1>9, <1>10, <1>11, <1>12, <1>13,
      <1>14, <1>15, <1>16, <1>17, <1>18, <1>19, <1>20, <1>21, <1>22 DEF Next, ThreadStep,
      PrepareStep

\* No step makes a condition true and leaves a thread asleep on it.
LEMMA NoLostWakeupStep == IInv /\ [Next]_vars => NoLostWakeup'
<1> SUFFICES ASSUME IInv, [Next]_vars PROVE NoLostWakeup'
  OBVIOUS
<1>hand. hand # NoThread => /\ hand \in Threads /\ req[hand] \in Ops /\ req[hand].name \in Names
                         /\ Waiting(hand) /\ ~completed[hand]
  BY HandOp
<1> USE NamesAssumption, RequestAssumption, StoreAssumption, ThreadAssumption, BoundAssumption
    DEF IInv, TypeOK, RequestInv, HandInv, NoLostWakeup, PendingExact, Counted,
        DrainWaiters, ThreadLocs, PrepareLocs, threadVars, sharedVars, Goto, Leave
<1>1. ASSUME NEW t \in Threads, Call(t) PROVE NoLostWakeup'
  BY <1>hand, <1>1 DEF Call
<1>2. ASSUME NEW t \in Threads, Enqueue(t) PROVE NoLostWakeup'
  BY <1>hand, <1>2 DEF Enqueue
<1>3. ASSUME NEW t \in Threads, WaitOp(t) PROVE NoLostWakeup'
  BY <1>hand, <1>3 DEF WaitOp
<1>4. ASSUME NEW t \in Threads, ReturnWrite(t) PROVE NoLostWakeup'
  BY <1>hand, <1>4 DEF ReturnWrite
<1>5. ASSUME NEW t \in Threads, FindSymbol(t) PROVE NoLostWakeup'
  BY <1>hand, <1>5 DEF FindSymbol
<1>6. ASSUME NEW t \in Threads, Drain(t) PROVE NoLostWakeup'
  BY <1>hand, <1>6 DEF Drain
<1>7. ASSUME NEW t \in Threads, ReadLock(t) PROVE NoLostWakeup'
  BY <1>hand, <1>7 DEF ReadLock
<1>8. ASSUME NEW t \in Threads, Look(t) PROVE NoLostWakeup'
  BY <1>hand, <1>8 DEF Look
<1>9. ASSUME NEW t \in Threads, ReadUnlock(t) PROVE NoLostWakeup'
  BY <1>hand, <1>9 DEF ReadUnlock
<1>10. ASSUME NEW t \in Threads, SpuriousWakeup(t) PROVE NoLostWakeup'
  BY <1>hand, <1>10 DEF SpuriousWakeup
<1>11. CASE LoopTest
  BY <1>hand, <1>11 DEF LoopTest
<1>12. CASE AwaitOp
  BY <1>hand, <1>12 DEF AwaitOp
<1>13. CASE Dequeue
  BY <1>hand, <1>13 DEF Dequeue
<1>14. CASE FindOrCreateSymbol
  BY <1>hand, <1>14 DEF FindOrCreateSymbol
<1>15. CASE Dispatch
  BY <1>hand, <1>15 DEF Dispatch
<1>16. CASE LockEnv
  BY <1>hand, <1>16 DEF LockEnv
<1>17. CASE ExecuteOp
  BY <1>hand, <1>17 DEF ExecuteOp
<1>18. CASE UnlockEnv
  BY <1>hand, <1>18 DEF UnlockEnv
<1>19. CASE Retire
  BY <1>hand, <1>19 DEF Retire
<1>20. CASE Complete
  BY <1>hand, <1>20 DEF Complete
<1>21. CASE PrepareSpuriousWakeup
  BY <1>hand, <1>21 DEF PrepareSpuriousWakeup
<1>22. CASE UNCHANGED vars
  BY <1>22 DEF vars
<1> QED
  BY <1>1, <1>2, <1>3, <1>4, <1>5, <1>6, <1>7, <1>8, <1>9, <1>10, <1>11, <1>12, <1>13,
      <1>14, <1>15, <1>16, <1>17, <1>18, <1>19, <1>20, <1>21, <1>22 DEF Next, ThreadStep,
      PrepareStep
-----------------------------------------------------------------------------
\* IInv holds in every reachable state of the buffer.
THEOREM Invariance == Spec => []IInv
<1>1. IInv /\ [Next]_vars => IInv'
  BY TypeOKStep, RequestInvStep, HandInvStep, LockInvStep, ResultInvStep,
     NsOpAliveStep, PendingExactStep, NoLostWakeupStep DEF IInv
<1> QED
  BY InitInv, <1>1, PTL DEF Spec

\* Every variable always has its type.
THEOREM TypeCorrect == Spec => []TypeOK
<1>1. IInv => TypeOK
  BY DEF IInv
<1> QED
  BY Invariance, <1>1, PTL

\* A lookup never overlaps the execution of a write or another lookup.
THEOREM LookupSafe == Spec => []LookupExcludesExecute
<1>1. IInv => LookupExcludesExecute
  <2> SUFFICES ASSUME IInv, NEW t \in Threads, pc[t] \in {"rd_look", "rd_unlock"}
               PROVE  /\ ppc \notin {"execute", "unlock_env"}
                      /\ \A u \in Threads \ {t} : pc[u] \notin {"rd_look", "rd_unlock"}
    BY DEF LookupExcludesExecute
  <2>1. envMtx = t
    BY DEF IInv, LockInv
  <2> QED
    BY <2>1, ThreadAssumption DEF IInv, LockInv
<1> QED
  BY Invariance, <1>1, PTL

\* No NsOp is freed while the buffer refers to it, and none is forgotten.
THEOREM NsOpSafe == Spec => []NsOpAlive
<1>1. IInv => NsOpAlive
  BY DEF IInv
<1> QED
  BY Invariance, <1>1, PTL

\* pending_count is exact, so it never underflows and never passes one.
THEOREM PendingCorrect == Spec => []PendingExact
<1>1. IInv => PendingExact
  BY DEF IInv
<1> QED
  BY Invariance, <1>1, PTL

\* Nobody sleeps on a condition that is already true.
THEOREM WakeupSafe == Spec => []NoLostWakeup
<1>1. IInv => NoLostWakeup
  BY DEF IInv
<1> QED
  BY Invariance, <1>1, PTL

-----------------------------------------------------------------------------
\* One step of the buffer is one step of the atomic namespace or none: Call and
\* the two returns are its Call and Return, ExecuteOp its Write, Look its Read.
LEMMA StepSimulation == IInv /\ [Next]_vars => [NS!Next]_<<store, req, result>>
<1> SUFFICES ASSUME IInv, [Next]_vars
             PROVE  NS!Next \/ UNCHANGED <<store, req, result>>
  OBVIOUS
<1>1. ASSUME NEW t \in Threads, Call(t) PROVE NS!Call(t)
  BY <1>1 DEF Call, NS!Call, IInv, RequestInv, sharedVars
<1>2. ASSUME NEW t \in Threads, ReturnWrite(t) PROVE NS!Return(t)
  BY <1>2, RequestAssumption
  DEF ReturnWrite, NS!Return, Leave, IInv, RequestInv, ResultInv, Performed, Waiting, sharedVars
<1>3. ASSUME NEW t \in Threads, ReadUnlock(t) PROVE NS!Return(t)
  BY <1>3, RequestAssumption
  DEF ReadUnlock, NS!Return, Leave, IInv, RequestInv, ResultInv, Performed
<1>4. ASSUME NEW t \in Threads, Look(t) PROVE NS!Read(t)
  <2>1. req[t] \in Reads
    BY <1>4 DEF Look, IInv, RequestInv
  <2>2. result[t] = NoResult
    BY <1>4, ThreadAssumption DEF Look, IInv, TypeOK, ResultInv, Performed, Waiting,
       HandInv, NsOpAlive, InBuffer
  <2> QED
    BY <1>4, <2>1, <2>2 DEF Look, NS!Read, sharedVars
<1>5. CASE ExecuteOp
  <2>1. /\ hand \in Threads /\ req[hand] \in Ops /\ Waiting(hand) /\ ~completed[hand]
    BY <1>5, HandOp DEF ExecuteOp, IInv, HandInv
  <2>2. result[hand] = NoResult
    BY <1>5, <2>1 DEF ExecuteOp, IInv, ResultInv, Performed, Waiting
  <2>3. NS!Write(hand)
    BY <1>5, <2>1, <2>2 DEF ExecuteOp, NS!Write
  <2> QED
    BY <2>1, <2>3 DEF NS!Next
<1>6. ASSUME NEW t \in Threads,
             Enqueue(t) \/ WaitOp(t) \/ FindSymbol(t) \/ Drain(t) \/ ReadLock(t)
               \/ SpuriousWakeup(t)
      PROVE  UNCHANGED <<store, req, result>>
  BY <1>6 DEF Enqueue, WaitOp, FindSymbol, Drain, ReadLock, SpuriousWakeup, sharedVars
<1>7. ASSUME LoopTest \/ AwaitOp \/ Dequeue \/ FindOrCreateSymbol \/ Dispatch \/ LockEnv
               \/ UnlockEnv \/ Retire \/ Complete \/ PrepareSpuriousWakeup
      PROVE  UNCHANGED <<store, req, result>>
  BY <1>7 DEF LoopTest, AwaitOp, Dequeue, FindOrCreateSymbol, Dispatch, LockEnv, UnlockEnv,
     Retire, Complete, PrepareSpuriousWakeup, threadVars, sharedVars
<1>8. CASE UNCHANGED vars
  BY <1>8 DEF vars
<1> QED
  BY <1>1, <1>2, <1>3, <1>4, <1>5, <1>6, <1>7, <1>8
  DEF Next, ThreadStep, PrepareStep, NS!Next

\* The write-buffer implements the atomic namespace, for every number of
\* threads, every set of symbols and requests, and every semantics of the
\* environments: env_* calls are linearizable.
THEOREM Linearizable == Spec => NsSpec
<1>1. Init => NS!Init
  BY DEF Init, NS!Init
<1> QED
  BY <1>1, Invariance, StepSimulation, PTL DEF Spec, NsSpec, NS!Spec

-----------------------------------------------------------------------------
\* A dispatched operation's symbol has its SymbolThread.
SymbolInv ==
  ppc \in {"dispatch"} \cup Counted => req[hand].name \in symbols

\* While a write that a read has to wait for is not executed, it is the one in the
\* prepare thread's hand, and the read has not passed its wait on drain_cnd.
CountedInv ==
  /\ counted \in [Threads -> SUBSET Threads]
  /\ \A t \in Threads : \A u \in counted[t] :
       /\ ppc \in {"lock_env", "execute"}
       /\ u = hand
       /\ req[hand].name = req[t].name
       /\ pc[t] \in {"rd_find", "rd_drain", "rd_asleep"}

\* The inductive invariant.
BarrierInv == IInv /\ SymbolInv /\ CountedInv

-----------------------------------------------------------------------------
\* The history is added beside the buffer: it starts and steps as NsBuffer does.
LEMMA BarrierStep == [BarrierNext]_<<vars, counted>> => [Next]_vars
  BY DEF BarrierNext

\* The writer whose operation is in hand stays in wait_op, with its request, for
\* every step but the one that completes it.
LEMMA HandKept ==
  ASSUME IInv, [Next]_vars, ppc \in {"dispatch"} \cup Counted
  PROVE  hand' = hand /\ req'[hand] = req[hand]
<1>hand. /\ hand # NoThread /\ hand \in Threads /\ req[hand] \in Ops
         /\ Waiting(hand) /\ ~completed[hand]
  BY HandOp DEF IInv, HandInv, Counted
<1> USE DEF Counted, Waiting, IInv, TypeOK, threadVars, sharedVars, Goto, Leave
<1>1. ASSUME NEW t \in Threads, ThreadStep(t) \/ SpuriousWakeup(t)
      PROVE  hand' = hand /\ req'[hand] = req[hand]
  BY <1>hand, <1>1 DEF ThreadStep, SpuriousWakeup, Call, Enqueue, WaitOp, ReturnWrite,
     FindSymbol, Drain, ReadLock, Look, ReadUnlock
<1>2. ASSUME PrepareStep \/ PrepareSpuriousWakeup
      PROVE  hand' = hand /\ req'[hand] = req[hand]
  BY <1>hand, <1>2 DEF PrepareStep, PrepareSpuriousWakeup, LoopTest, AwaitOp, Dequeue,
     FindOrCreateSymbol, Dispatch, LockEnv, ExecuteOp, UnlockEnv, Retire, Complete
<1>3. CASE UNCHANGED vars
  BY <1>3 DEF vars
<1> QED
  BY <1>1, <1>2, <1>3 DEF Next

\* Where the prepare thread goes while it holds an operation, and that symbols keep
\* their SymbolThreads.
LEMMA HandPlaces ==
  ASSUME [Next]_vars
  PROVE  /\ ppc = "lock_env" => ppc' \in {"lock_env", "execute"}
         /\ ppc = "execute" => ppc' \in {"execute", "unlock_env"}
         /\ ppc' \in {"dispatch"} \cup Counted
              => FindOrCreateSymbol \/ ppc \in {"dispatch"} \cup Counted
         /\ symbols \subseteq symbols'
<1> USE DEF Counted, threadVars, sharedVars
<1>1. ASSUME NEW t \in Threads, ThreadStep(t) \/ SpuriousWakeup(t)
      PROVE  symbols' = symbols /\ (ppc' = ppc \/ (ppc = "asleep" /\ ppc' = "fetch"))
  BY <1>1 DEF ThreadStep, SpuriousWakeup, Call, Enqueue, WaitOp, ReturnWrite,
     FindSymbol, Drain, ReadLock, Look, ReadUnlock
<1> QED
  BY <1>1 DEF Next, PrepareStep, PrepareSpuriousWakeup, LoopTest, AwaitOp, Dequeue,
     FindOrCreateSymbol, Dispatch, LockEnv, ExecuteOp, UnlockEnv, Retire, Complete, vars

\* Every step keeps the symbol of the dispatched operation known.
LEMMA SymbolInvStep == IInv /\ SymbolInv /\ [Next]_vars => SymbolInv'
<1> SUFFICES ASSUME IInv, SymbolInv, [Next]_vars, (ppc \in {"dispatch"} \cup Counted)'
             PROVE  req'[hand'].name \in symbols'
  BY DEF SymbolInv, Counted
<1>1. CASE FindOrCreateSymbol
  BY <1>1 DEF FindOrCreateSymbol, threadVars
<1>2. CASE ppc \in {"dispatch"} \cup Counted
  BY <1>2, HandKept, HandPlaces DEF SymbolInv
<1> QED
  BY <1>1, <1>2, HandPlaces DEF Counted

\* A read that starts is not yet past its wait, and nothing else starts one.
LEMMA ReadCalled ==
  ASSUME IInv, [Next]_vars, NEW t \in Threads, ReadStarts(t)
  PROVE  ppc' = ppc /\ hand' = hand
<1> USE DEF ReadStarts, IInv, TypeOK, sharedVars, threadVars
<1>1. ASSUME NEW u \in Threads, ThreadStep(u) \/ SpuriousWakeup(u)
      PROVE  ppc' = ppc /\ hand' = hand
  BY <1>1 DEF ThreadStep, SpuriousWakeup, Call, Enqueue, WaitOp, ReturnWrite,
     FindSymbol, Drain, ReadLock, Look, ReadUnlock, Goto, Leave
<1>2. ~PrepareStep /\ ~PrepareSpuriousWakeup
  BY DEF PrepareStep, PrepareSpuriousWakeup, LoopTest, AwaitOp, Dequeue,
     FindOrCreateSymbol, Dispatch, LockEnv, ExecuteOp, UnlockEnv, Retire, Complete, DrainWaiters
<1> QED
  BY <1>1, <1>2 DEF Next, vars

\* A read that waits for the operation in hand keeps its request and does not pass its
\* wait: its symbol has a SymbolThread, and pending_count is one.
LEMMA ReaderWaits ==
  ASSUME IInv, SymbolInv, [Next]_vars, NEW t \in Threads,
         ppc \in {"lock_env", "execute"}, req[hand].name = req[t].name,
         pc[t] \in {"rd_find", "rd_drain", "rd_asleep"}
  PROVE  /\ pc'[t] \in {"rd_find", "rd_drain", "rd_asleep"}
         /\ req'[t] = req[t]
<1>1. /\ req[t].name \in symbols /\ pending[req[t].name] = 1
  <2>1. hand # NoThread /\ req[hand].name \in Names
    BY HandOp DEF IInv, HandInv
  <2> QED
    BY <2>1 DEF SymbolInv, IInv, PendingExact, Counted
<1> USE DEF IInv, TypeOK, threadVars, sharedVars
<1>2. ASSUME NEW u \in Threads, ThreadStep(u) \/ SpuriousWakeup(u)
      PROVE  /\ pc'[t] \in {"rd_find", "rd_drain", "rd_asleep"}
             /\ req'[t] = req[t]
  BY <1>1, <1>2 DEF ThreadStep, SpuriousWakeup, Call, Enqueue, WaitOp, ReturnWrite,
     FindSymbol, Drain, ReadLock, Look, ReadUnlock, Goto, Leave
<1>3. ASSUME PrepareStep \/ PrepareSpuriousWakeup
      PROVE  /\ pc'[t] \in {"rd_find", "rd_drain", "rd_asleep"}
             /\ req'[t] = req[t]
  BY <1>3 DEF PrepareStep, PrepareSpuriousWakeup, LoopTest, AwaitOp, Dequeue,
     FindOrCreateSymbol, Dispatch, LockEnv, ExecuteOp, UnlockEnv, Retire, Complete
<1> QED
  BY <1>2, <1>3 DEF Next, vars

\* Every step keeps what the history says of the reads under way.
LEMMA CountedInvStep ==
  IInv /\ SymbolInv /\ CountedInv /\ [BarrierNext]_<<vars, counted>> => CountedInv'
<1> SUFFICES ASSUME IInv, SymbolInv, CountedInv, [BarrierNext]_<<vars, counted>>
             PROVE  CountedInv'
  OBVIOUS
<1>0. [Next]_vars
  BY BarrierStep
<1>hand. ppc \in {"lock_env", "execute"} =>
           /\ hand \in Threads /\ Waiting(hand)
           /\ hand' = hand /\ req'[hand] = req[hand]
  BY <1>0, HandOp, HandKept DEF IInv, HandInv, Counted
<1>1. CASE UNCHANGED <<vars, counted>>
  BY <1>1 DEF vars, CountedInv
<1>2. CASE BarrierNext
  <2>1. ASSUME NEW t \in Threads PROVE counted'[t] \in SUBSET Threads
    <3>1. Found(t) \subseteq Threads
      BY <1>hand DEF Found, Counted
    <3> QED
      BY <1>2, <3>1 DEF BarrierNext, CountedInv
  <2>2. ASSUME NEW t \in Threads, NEW u \in counted'[t]
        PROVE  /\ ppc' \in {"lock_env", "execute"}
               /\ u = hand'
               /\ req'[hand'].name = req'[t].name
               /\ pc'[t] \in {"rd_find", "rd_drain", "rd_asleep"}
    <3>1. CASE ReadStarts(t)
      <4>1. u \in Found(t)
        BY <1>2, <2>2, <3>1 DEF BarrierNext
      <4>2. /\ ppc \in {"lock_env", "execute"} /\ u = hand
            /\ req[hand].name = req'[t].name
        BY <4>1 DEF Found, Counted
      <4>3. ppc' = ppc /\ hand' = hand
        BY <1>0, <3>1, ReadCalled
      <4> QED
        BY <1>hand, <3>1, <4>2, <4>3 DEF ReadStarts
    <3>2. CASE ~ReadStarts(t)
      <4>1. u \in counted[t] /\ u \notin Executed
        BY <1>2, <2>2, <3>2 DEF BarrierNext
      <4>2. /\ ppc \in {"lock_env", "execute"} /\ u = hand
            /\ req[hand].name = req[t].name
            /\ pc[t] \in {"rd_find", "rd_drain", "rd_asleep"}
        BY <4>1 DEF CountedInv
      <4>3. ppc' \in {"lock_env", "execute"}
        BY <1>0, <4>1, <4>2, HandPlaces DEF Executed
      <4> QED
        BY <1>0, <1>hand, <4>2, <4>3, ReaderWaits
    <3> QED
      BY <3>1, <3>2
  <2>3. counted' = [t \in Threads |-> counted'[t]]
    BY <1>2 DEF BarrierNext
  <2> QED
    BY <2>1, <2>2, <2>3 DEF CountedInv
<1> QED
  BY <1>1, <1>2

\* The buffer with its history satisfies the invariant at every step.
THEOREM BarrierInvariance == BarrierSpec => []BarrierInv
<1>1. BarrierInit => Init /\ SymbolInv /\ CountedInv
  BY DEF BarrierInit, Init, SymbolInv, CountedInv, Counted
<1>2. BarrierInv /\ [BarrierNext]_<<vars, counted>> => (SymbolInv /\ CountedInv)'
  BY BarrierStep, SymbolInvStep, CountedInvStep DEF BarrierInv
<1>3. BarrierInit => BarrierInv
  BY <1>1, InitInv DEF BarrierInv
<1>4. BarrierInv /\ [BarrierNext]_<<vars, counted>> => BarrierInv'
  <2>1. IInv /\ [Next]_vars => IInv'
    BY TypeOKStep, RequestInvStep, HandInvStep, LockInvStep, ResultInvStep,
       NsOpAliveStep, PendingExactStep, NoLostWakeupStep DEF IInv
  <2> QED
    BY <1>2, <2>1, BarrierStep DEF BarrierInv
<1> QED
  BY <1>3, <1>4, PTL DEF BarrierSpec

\* A read looks its symbol up only when every write of the symbol that was dispatched
\* at the time of its call has been executed (ns_buffer.h:108).
THEOREM ReadsAfterDispatched == BarrierSpec => []DispatchedWritesProcessed
<1>1. BarrierInv => DispatchedWritesProcessed
  BY DEF BarrierInv, CountedInv, DispatchedWritesProcessed, Holding
<1> QED
  BY <1>1, BarrierInvariance, PTL

-----------------------------------------------------------------------------
(* Indexed assignments.  The invariant is of its own: IInv says more of    *)
(* the queue than is needed here, and an evaluation joins threads with     *)
(* env_mtx held, which NsBuffer never does.                                *)

\* Where the prepare thread holds env_mtx, and where another thread does.
PrepareHolds == {"execute", "evaluate", "join", "assign", "unlock_env"}

ReaderHolds == {"rd_look", "rd_unlock"}

\* env_mtx is owned by exactly the thread whose location says so.
OwnerInv ==
  /\ pc \in [Threads -> ThreadLocs]
  /\ envMtx = Prepare <=> ppc \in PrepareHolds
  /\ \A t \in Threads : envMtx = t <=> pc[t] \in ReaderHolds

-----------------------------------------------------------------------------
\* A thread takes env_mtx when nobody has it, and gives up its own only.
LEMMA ThreadOwner ==
  ASSUME OwnerInv, NEW u \in Threads, ThreadStep(u) \/ SpuriousWakeup(u)
  PROVE  OwnerInv'
<1>t. NoThread \notin Threads /\ Prepare \notin Threads /\ Prepare # NoThread
  BY ThreadAssumption
<1> USE DEF OwnerInv, PrepareHolds, ReaderHolds, ThreadLocs, threadVars, sharedVars, Goto, Leave
<1>1. CASE Call(u)
  BY <1>1 DEF Call
<1>2. CASE Enqueue(u)
  BY <1>2 DEF Enqueue
<1>3. CASE WaitOp(u)
  BY <1>3 DEF WaitOp
<1>4. CASE ReturnWrite(u)
  BY <1>4 DEF ReturnWrite
<1>5. CASE FindSymbol(u)
  BY <1>5 DEF FindSymbol
<1>6. CASE Drain(u)
  BY <1>6 DEF Drain
<1>7. CASE ReadLock(u)
  BY <1>t, <1>7 DEF ReadLock
<1>8. CASE Look(u)
  BY <1>8 DEF Look
<1>9. CASE ReadUnlock(u)
  BY <1>t, <1>9 DEF ReadUnlock
<1>10. CASE SpuriousWakeup(u)
  BY <1>10 DEF SpuriousWakeup
<1> QED
  BY <1>1, <1>2, <1>3, <1>4, <1>5, <1>6, <1>7, <1>8, <1>9, <1>10 DEF ThreadStep

\* So does the prepare thread; phases 4 and 5 wake threads that hold nothing.
LEMMA PrepareOwner ==
  ASSUME OwnerInv, OrdinaryPrepareStep \/ PrepareSpuriousWakeup
  PROVE  OwnerInv'
<1>t. NoThread \notin Threads /\ Prepare \notin Threads /\ Prepare # NoThread
  BY ThreadAssumption
<1> USE DEF OwnerInv, PrepareHolds, ReaderHolds, ThreadLocs, threadVars, sharedVars
<1>1. CASE LoopTest \/ AwaitOp \/ Dequeue \/ FindOrCreateSymbol \/ Dispatch
           \/ PrepareSpuriousWakeup
  BY <1>1 DEF LoopTest, AwaitOp, Dequeue, FindOrCreateSymbol, Dispatch, PrepareSpuriousWakeup
<1>2. CASE LockEnv
  BY <1>t, <1>2 DEF LockEnv
<1>3. CASE ExecuteOp
  BY <1>3 DEF ExecuteOp
<1>4. CASE UnlockEnv
  BY <1>t, <1>4 DEF UnlockEnv
<1>5. CASE Retire
  <2>1. /\ pc' \in [Threads -> ThreadLocs]
        /\ \A t \in Threads : pc'[t] = pc[t] \/ (pc[t] = "rd_asleep" /\ pc'[t] = "rd_drain")
    BY <1>5 DEF Retire, DrainWaiters
  <2> QED
    BY <1>5, <2>1 DEF Retire
<1>6. CASE Complete
  <2>1. /\ pc' \in [Threads -> ThreadLocs]
        /\ \A t \in Threads : pc'[t] = pc[t] \/ (pc[t] = "wr_asleep" /\ pc'[t] = "wr_wait")
    BY <1>6 DEF Complete
  <2> QED
    BY <1>6, <2>1 DEF Complete
<1> QED
  BY <1>1, <1>2, <1>3, <1>4, <1>5, <1>6 DEF OrdinaryPrepareStep

\* An indexed assignment keeps env_mtx from its first step to its last.
LEMMA IndexOwner ==
  ASSUME OwnerInv, AssignIndexChain
  PROVE  OwnerInv'
<1> USE DEF OwnerInv, PrepareHolds, ReaderHolds, threadVars, sharedVars
<1>1. CASE BeginIndex
  BY <1>1 DEF BeginIndex
<1>2. CASE NestedCall
  BY <1>2 DEF NestedCall
<1>3. CASE StartWorkers
  BY <1>3 DEF StartWorkers
<1>4. CASE JoinWorkers
  BY <1>4 DEF JoinWorkers
<1>5. CASE AssignElement
  BY <1>5 DEF AssignElement
<1>6. CASE FailIndex
  BY <1>6 DEF FailIndex
<1> QED
  BY <1>1, <1>2, <1>3, <1>4, <1>5, <1>6 DEF AssignIndexChain

\* env_mtx has the owner its holders' locations say, at every step.
THEOREM OwnerExact == IndexSpec => []OwnerInv
<1>1. IndexInit => OwnerInv
  BY ThreadAssumption
  DEF IndexInit, Init, OwnerInv, PrepareHolds, ReaderHolds, ThreadLocs
<1>2. OwnerInv /\ [IndexNext]_ivars => OwnerInv'
  <2> SUFFICES ASSUME OwnerInv, [IndexNext]_ivars PROVE OwnerInv'
    OBVIOUS
  <2>1. ASSUME NEW t \in Threads, LiveStep(t) \/ (SpuriousWakeup(t) /\ Elsewhere)
        PROVE  OwnerInv'
    BY <2>1, ThreadOwner DEF LiveStep
  <2>2. CASE UNCHANGED vars
    BY <2>2 DEF vars, OwnerInv
  <2>3. ASSUME NEW t \in Threads, EndWorker(t) PROVE OwnerInv'
    BY <2>2, <2>3 DEF EndWorker
  <2>4. CASE UNCHANGED ivars
    BY <2>2, <2>4 DEF ivars
  <2>5. CASE IndexPrepareStep \/ (PrepareSpuriousWakeup /\ Elsewhere)
    BY <2>5, PrepareOwner, IndexOwner DEF IndexPrepareStep
  <2> QED
    BY <2>1, <2>3, <2>4, <2>5 DEF IndexNext
<1> QED
  BY <1>1, <1>2, PTL DEF IndexSpec

\* To the other threads an indexed assignment is one step: none of them looks at the
\* environments from the lookup of its base to the write back, whatever its index
\* expressions call or start (ns_buffer.c, NS_OP_INDEX_ASSIGN under env_mtx).
THEOREM AssignExclusive == IndexSpec => []IndexAssignExclusive
<1>1. OwnerInv => IndexAssignExclusive
  <2> SUFFICES ASSUME OwnerInv, ppc \in PrepareHolds, NEW t \in Threads
               PROVE  pc[t] \notin ReaderHolds
    BY DEF IndexAssignExclusive, PrepareHolds, ReaderHolds
  <2> QED
    BY ThreadAssumption DEF OwnerInv
<1> QED
  BY <1>1, OwnerExact, PTL

-----------------------------------------------------------------------------
(* NsShutdown. *)

\* The places at which the prepare thread has no operation, the drain loop's among them.
HandFree == {"top", "fetch", "asleep", "drain_fetch", "exited"}

\* The drain loop, like the main one, has only operations whose writer waits for them
\* and has not freed them, and the buffer is freed with none in hand.
OpsUsable ==
  /\ \A t \in InBuffer : Waiting(t) /\ ~completed[t]
  /\ Distinct(queue) /\ hand \notin Elements(queue)
  /\ Freed => hand = NoThread

\* A write that waits and is nowhere in the buffer came after the last one drained.
LostBehindTail ==
  \A t \in Threads : Waiting(t) /\ ~completed[t] /\ t \notin InBuffer => tailLeft

\* The types that matter, and where the shutdown and the prepare thread are.
ShutdownPlaces ==
  /\ pc \in [Threads -> ThreadLocs \cup {"direct_wr", "direct_rd"}]
  /\ completed \in [Threads -> BOOLEAN]
  /\ queue \in Seq(Threads) /\ hand \in Threads \cup {NoThread}
  /\ \A t \in Threads : pc[t] = "wr_enqueue" => ~completed[t]
  /\ hand = NoThread <=> ppc \in HandFree
  /\ running <=> dpc = "serving"
  /\ running => ppc \in PrepareLocs
  /\ tailLeft => queue = <<>> /\ ~running
  /\ Freed => ppc = "exited"

ShutdownInv == ShutdownPlaces /\ OpsUsable /\ LostBehindTail

\* An operation leaves the buffer only when it is completed.
OpsKept == \A t \in InBuffer : t \in InBuffer' \/ completed'[t]

\* Before the shutdown every step is one of the buffer in service.
LEMMA ServingStep ==
  ASSUME IInv, ShutdownPlaces, [ShutdownNext]_svars, running'
  PROVE  running /\ [Next]_vars
<1> USE DEF ShutdownPlaces, ActiveAnswers, InService, ThreadLocs, PrepareLocs
<1>0. ppc \in PrepareLocs /\ pc \in [Threads -> ThreadLocs]
  BY DEF IInv, TypeOK
<1>1. ASSUME NEW t \in Threads, WorkerStep(t)
      PROVE  running /\ ThreadStep(t)
  <2>1. running /\ dpc = "serving" /\ ~tailLeft /\ pc[t] \in ThreadLocs
    BY <1>0, <1>1 DEF WorkerStep, BufferedCall, BufferedStep, DirectCall, DirectReturn,
      ReadLockSkipped, ReadUnlockAnyway
  <2>2. ~DirectCall(t) /\ ~DirectReturn(t) /\ ~ReadLockSkipped(t)
    BY <2>1 DEF DirectCall, DirectReturn, ReadLockSkipped
  <2>3. CASE BufferedCall(t)
    BY <2>1, <2>3 DEF BufferedCall, ThreadStep
  <2>4. CASE BufferedStep(t)
    BY <2>1, <2>4 DEF BufferedStep, EnqueueBehindTail, ThreadStep
  <2>5. CASE ReadUnlockAnyway(t)
    BY <2>1, <2>5 DEF ReadUnlockAnyway, ReadUnlock, ThreadStep
  <2> QED
    BY <1>1, <2>1, <2>2, <2>3, <2>4, <2>5 DEF WorkerStep
<1>2. ASSUME NEW t \in Threads, SpuriousWakeup(t), InService
      PROVE  running /\ [Next]_vars
  BY <1>2 DEF Next
<1>3. CASE PrepareThread
  <2>1. running
    BY <1>3 DEF PrepareThread, DrainDequeue
  <2>2. ~LeaveLoop /\ ~DrainLoopStep /\ ~DrainDequeue
    BY <1>0, <2>1 DEF LeaveLoop, DrainLoopStep, DrainDequeue, DrainFindSymbol, DrainLockEnv,
      DrainExecute, DrainUnlockEnv, DrainRetire, DrainComplete, DrainExit
  <2>3. MainLoopStep
    BY <1>3, <2>2 DEF PrepareThread
  <2> QED
    BY <2>1, <2>3 DEF MainLoopStep, PrepareStep, Next
<1>4. CASE PrepareSpuriousWakeup /\ InService
  BY <1>4 DEF Next
<1>5. ~Stop
  BY DEF Stop
<1>6. ~ShutdownStep
  BY DEF ShutdownStep, SignalStop, JoinAndFree, ClearPointer, Freed
<1>7. CASE UNCHANGED svars
  BY <1>7 DEF svars
<1> QED
  BY <1>1, <1>2, <1>3, <1>4, <1>5, <1>6, <1>7 DEF ShutdownNext, Next

\* ns_buffer_init.
LEMMA ShutdownStart == ShutdownInit => IInv /\ ShutdownInv
<1> SUFFICES ASSUME ShutdownInit PROVE IInv /\ ShutdownInv
  OBVIOUS
<1>1. IInv
  BY InitInv DEF ShutdownInit
<1>2. ShutdownPlaces
  BY <1>1 DEF IInv, TypeOK, ShutdownInit, Init, ShutdownPlaces, HandFree, Freed
<1>3. OpsUsable /\ LostBehindTail
  BY <1>1 DEF IInv, NsOpAlive, ShutdownInit, Freed, OpsUsable, LostBehindTail
<1> QED
  BY <1>1, <1>2, <1>3 DEF ShutdownInv

\* A step that keeps the buffer and the threads that wait in it.
LEMMA BufferKept ==
  ASSUME ShutdownInv, ShutdownPlaces', UNCHANGED <<queue, hand, tailLeft>>,
         \A t \in Threads : Waiting(t)' = Waiting(t) /\ (Waiting(t) => completed'[t] = completed[t])
  PROVE  ShutdownInv' /\ OpsKept
<1>1. InBuffer' = InBuffer
  BY DEF InBuffer
<1>2. \A t \in InBuffer : t \in Threads
  BY DEF ShutdownInv, ShutdownPlaces, InBuffer, Elements
<1>3. OpsUsable'
  <2>1. Freed' => hand' = NoThread
    BY DEF ShutdownPlaces, HandFree
  <2> QED
    BY <1>1, <1>2, <2>1 DEF ShutdownInv, OpsUsable
<1>4. LostBehindTail'
  BY <1>1 DEF ShutdownInv, LostBehindTail
<1> QED
  BY <1>1, <1>3, <1>4 DEF ShutdownInv, OpsKept

\* What is in the prepare thread's hand.
LEMMA DrainedOp ==
  ASSUME ShutdownInv, ppc \notin HandFree
  PROVE  hand \in Threads /\ Waiting(hand) /\ ~completed[hand] /\ ~Freed /\ hand \notin Elements(queue)
BY DEF ShutdownInv, ShutdownPlaces, OpsUsable, InBuffer, HandFree

\* The steps of the threads.
LEMMA WorkerKeeps ==
  ASSUME ShutdownInv, NEW t \in Threads,
         WorkerStep(t) \/ (SpuriousWakeup(t) /\ InService)
  PROVE  ShutdownInv' /\ OpsKept
<1> USE DEF InService, Goto, Leave, threadVars, sharedVars
<1>0. ShutdownPlaces
  BY DEF ShutdownInv
<1>1. \A u \in InBuffer : u \in Threads /\ Waiting(u) /\ ~completed[u]
  BY <1>0 DEF ShutdownInv, ShutdownPlaces, OpsUsable, InBuffer, Elements
<1>2. CASE BufferedCall(t)
  <2>1. ShutdownPlaces'
    BY <1>0, <1>2 DEF ShutdownPlaces, BufferedCall, Call, ThreadLocs, Freed
  <2>2. \A u \in Threads : Waiting(u)' = Waiting(u) /\ (Waiting(u) => completed'[u] = completed[u])
    <3>1. PICK loc \in {"wr_enqueue", "rd_find"} : pc' = [pc EXCEPT ![t] = loc]
      BY <1>2 DEF BufferedCall, Call
    <3>2. pc[t] = "idle" /\ completed' = [completed EXCEPT ![t] = FALSE]
      BY <1>2 DEF BufferedCall, Call
    <3>3. \A u \in Threads : u = t => Waiting(u)' = Waiting(u) /\ ~Waiting(u)
      BY <1>0, <3>1, <3>2 DEF ShutdownPlaces, Waiting
    <3>4. \A u \in Threads : u # t => pc'[u] = pc[u] /\ completed'[u] = completed[u]
      BY <1>0, <3>1, <3>2 DEF ShutdownPlaces
    <3>5. \A u \in Threads : u # t => Waiting(u)' = Waiting(u)
      BY <3>4 DEF Waiting
    <3> QED
      BY <3>3, <3>4, <3>5
  <2> QED
    BY <1>2, <2>1, <2>2, BufferKept DEF BufferedCall, Call
<1>3. CASE DirectCall(t) \/ DirectReturn(t) \/ ReadLockSkipped(t) \/ ReadUnlockAnyway(t)
  <2>1. PICK loc \in {"direct_wr", "direct_rd", "rd_look", "idle"} :
          pc' = [pc EXCEPT ![t] = loc]
    BY <1>3 DEF DirectCall, DirectReturn, ReadLockSkipped, ReadUnlockAnyway
  <2>2. /\ pc[t] \in {"idle", "direct_wr", "direct_rd", "rd_find", "rd_unlock"}
        /\ UNCHANGED <<completed, queue, hand, ppc, running, dpc, tailLeft>>
    BY <1>3 DEF DirectCall, DirectReturn, ReadLockSkipped, ReadUnlockAnyway
  <2>3. ShutdownPlaces'
    BY <1>0, <2>1, <2>2 DEF ShutdownPlaces, ThreadLocs, Freed
  <2>4. \A u \in Threads : Waiting(u)' = Waiting(u) /\ (Waiting(u) => completed'[u] = completed[u])
    BY <1>0, <2>1, <2>2 DEF ShutdownPlaces, Waiting
  <2> QED
    BY <2>2, <2>3, <2>4, BufferKept
<1>4. CASE (WaitOp(t) \/ FindSymbol(t) \/ Drain(t) \/ ReadLock(t) \/ Look(t)
             \/ SpuriousWakeup(t)) /\ InService
  <2>1. ShutdownPlaces'
    BY <1>0, <1>4 DEF ShutdownPlaces, WaitOp, FindSymbol, Drain, ReadLock, Look,
      SpuriousWakeup, ThreadLocs, Freed
  <2>2. \A u \in Threads : Waiting(u)' = Waiting(u) /\ (Waiting(u) => completed'[u] = completed[u])
    BY <1>0, <1>4 DEF ShutdownPlaces, WaitOp, FindSymbol, Drain, ReadLock, Look,
      SpuriousWakeup, Waiting
  <2>3. UNCHANGED <<queue, hand, tailLeft>>
    BY <1>4 DEF WaitOp, FindSymbol, Drain, ReadLock, Look, SpuriousWakeup
  <2> QED
    BY <2>1, <2>2, <2>3, BufferKept
<1>5. CASE ~tailLeft /\ Enqueue(t) /\ InService
  <2>1. ShutdownPlaces'
    <3>1. queue' \in Seq(Threads)
      BY <1>0, <1>5, AppendProperties DEF ShutdownPlaces, Enqueue
    <3>2. /\ ppc' \in HandFree <=> ppc \in HandFree
          /\ ppc \in PrepareLocs => ppc' \in PrepareLocs
          /\ ppc = "exited" => ppc' = "exited"
      BY <1>5 DEF Enqueue, HandFree, PrepareLocs
    <3> QED
      BY <1>0, <1>5, <3>1, <3>2 DEF ShutdownPlaces, Enqueue, ThreadLocs, Freed
  <2>2. /\ Elements(queue') = Elements(queue) \cup {t} /\ hand' = hand
        /\ t \notin InBuffer => Distinct(queue')
    BY <1>0, <1>5, AppendElements DEF ShutdownInv, ShutdownPlaces, OpsUsable, InBuffer, Enqueue
  <2>3. t \notin InBuffer /\ Waiting(t)' /\ ~completed'[t]
    BY <1>0, <1>1, <1>5 DEF ShutdownPlaces, Enqueue, Waiting
  <2>4. \A u \in Threads \ {t} : Waiting(u)' = Waiting(u) /\ completed'[u] = completed[u]
    BY <1>0, <1>5 DEF ShutdownPlaces, Enqueue, Waiting
  <2>5. InBuffer' = InBuffer \cup {t}
    BY <2>2, ThreadAssumption DEF InBuffer
  <2>6. OpsUsable'
    <3>1. \A u \in InBuffer' : Waiting(u)' /\ ~completed'[u]
      BY <1>1, <2>3, <2>4, <2>5
    <3>2. hand' \notin Elements(queue')
      <4>1. hand # t
        BY <2>3, ThreadAssumption DEF InBuffer
      <4> QED
        BY <2>2, <4>1 DEF ShutdownInv, OpsUsable
    <3>3. Freed' => hand' = NoThread
      BY <2>1 DEF ShutdownPlaces, HandFree
    <3> QED
      BY <2>2, <2>3, <3>1, <3>2, <3>3 DEF OpsUsable
  <2>7. LostBehindTail'
    BY <1>5, <2>4, <2>5 DEF ShutdownInv, LostBehindTail
  <2> QED
    BY <2>1, <2>5, <2>6, <2>7 DEF ShutdownInv, OpsKept
<1>6. CASE EnqueueBehindTail(t) /\ InService
  <2>1. ShutdownPlaces'
    BY <1>0, <1>6 DEF ShutdownPlaces, EnqueueBehindTail, ThreadLocs, Freed
  <2>2. InBuffer' = InBuffer /\ tailLeft' /\ UNCHANGED completed /\ hand' = hand /\ queue' = queue
    BY <1>6 DEF EnqueueBehindTail, InBuffer
  <2>3. \A u \in InBuffer : Waiting(u)'
    BY <1>0, <1>1, <1>6 DEF ShutdownPlaces, EnqueueBehindTail, Waiting
  <2>4. OpsUsable'
    <3>1. Freed' => hand' = NoThread
      BY <2>1 DEF ShutdownPlaces, HandFree
    <3> QED
      BY <1>1, <2>2, <2>3, <3>1 DEF ShutdownInv, OpsUsable
  <2>5. LostBehindTail'
    BY <2>2 DEF LostBehindTail
  <2> QED
    BY <2>1, <2>2, <2>4, <2>5 DEF ShutdownInv, OpsKept
<1>7. CASE ReturnWrite(t) /\ InService
  <2>1. ShutdownPlaces'
    BY <1>0, <1>7 DEF ShutdownPlaces, ReturnWrite, ThreadLocs, Freed
  <2>2. t \notin InBuffer /\ InBuffer' = InBuffer /\ UNCHANGED <<completed, hand, queue, tailLeft>>
    BY <1>1, <1>7 DEF ReturnWrite, InBuffer
  <2>3. /\ ~Waiting(t)'
        /\ \A u \in Threads \ {t} : Waiting(u)' = Waiting(u)
    BY <1>0, <1>7 DEF ShutdownPlaces, ReturnWrite, Waiting
  <2>4. OpsUsable'
    <3>1. Freed' => hand' = NoThread
      BY <2>1 DEF ShutdownPlaces, HandFree
    <3> QED
      BY <1>1, <2>2, <2>3, <3>1 DEF ShutdownInv, OpsUsable
  <2>5. LostBehindTail'
    BY <2>2, <2>3 DEF ShutdownInv, LostBehindTail
  <2> QED
    BY <2>1, <2>2, <2>4, <2>5 DEF ShutdownInv, OpsKept
<1> QED
  BY <1>2, <1>3, <1>4, <1>5, <1>6, <1>7 DEF WorkerStep, BufferedStep

\* Taking an operation off the queue, in the main loop and in the drain loop.
LEMMA TakenKeeps ==
  ASSUME ShutdownInv, ShutdownPlaces', ppc \in HandFree, queue # <<>>,
         hand' = Head(queue), queue' = Tail(queue), UNCHANGED <<pc, completed>>
  PROVE  ShutdownInv' /\ OpsKept
<1>0. queue \in Seq(Threads) /\ hand = NoThread /\ Distinct(queue) /\ ~tailLeft
  BY DEF ShutdownInv, ShutdownPlaces, OpsUsable
<1>1. /\ Elements(queue) = Elements(queue') \cup {hand'}
      /\ hand' \in Threads /\ hand' \notin Elements(queue') /\ Distinct(queue')
  BY <1>0, TailElements
<1>2. InBuffer' = InBuffer
  BY <1>0, <1>1, ThreadAssumption DEF InBuffer
<1>3. \A u \in InBuffer : u \in Threads /\ Waiting(u)' /\ ~completed'[u]
  BY <1>0 DEF ShutdownInv, OpsUsable, InBuffer, Elements, Waiting
<1>4. OpsUsable'
  <2>1. Freed' => hand' = NoThread
    BY DEF ShutdownPlaces, HandFree
  <2> QED
    BY <1>1, <1>2, <1>3, <2>1 DEF OpsUsable
<1>5. LostBehindTail'
  BY <1>0, <1>2 DEF ShutdownInv, LostBehindTail, Waiting
<1> QED
  BY <1>2, <1>4, <1>5 DEF ShutdownInv, OpsKept

\* Completing the operation in hand, in the main loop and in the drain loop.
LEMMA CompletedKeeps ==
  ASSUME ShutdownInv, ShutdownPlaces', ppc \notin HandFree,
         completed' = [completed EXCEPT ![hand] = TRUE],
         pc' = IF pc[hand] = "wr_asleep" THEN [pc EXCEPT ![hand] = "wr_wait"] ELSE pc,
         hand' = NoThread, UNCHANGED <<queue, tailLeft>>
  PROVE  ShutdownInv' /\ OpsKept
<1>0. hand \in Threads /\ Waiting(hand) /\ ~completed[hand] /\ hand \notin Elements(queue)
  BY DrainedOp
<1>1. /\ completed'[hand]
      /\ \A u \in Threads \ {hand} : completed'[u] = completed[u]
      /\ \A u \in Threads : Waiting(u)' = Waiting(u)
  BY <1>0 DEF ShutdownInv, ShutdownPlaces, Waiting
<1>2. InBuffer' = InBuffer \ {hand} /\ InBuffer \subseteq Threads
  BY <1>0 DEF ShutdownInv, ShutdownPlaces, InBuffer, Elements
<1>3. OpsUsable'
  <2>1. \A u \in InBuffer' : Waiting(u)' /\ ~completed'[u]
    BY <1>1, <1>2 DEF ShutdownInv, OpsUsable
  <2>2. NoThread \notin Elements(queue)
    BY ThreadAssumption DEF ShutdownInv, ShutdownPlaces, Elements
  <2> QED
    BY <2>1, <2>2 DEF ShutdownInv, OpsUsable
<1>4. LostBehindTail'
  BY <1>0, <1>1, <1>2 DEF ShutdownInv, LostBehindTail
<1>5. OpsKept
  BY <1>1, <1>2 DEF OpsKept
<1> QED
  BY <1>3, <1>4, <1>5 DEF ShutdownInv

\* The steps of the prepare thread.
LEMMA PrepareKeeps ==
  ASSUME ShutdownInv, PrepareThread \/ (PrepareSpuriousWakeup /\ InService)
  PROVE  ShutdownInv' /\ OpsKept
<1> USE DEF InService, threadVars, sharedVars
<1>0. ShutdownPlaces
  BY DEF ShutdownInv
<1>1. ppc \notin HandFree =>
        hand \in Threads /\ Waiting(hand) /\ ~completed[hand] /\ ~Freed
  BY DrainedOp
<1>2. CASE (LoopTest \/ AwaitOp \/ FindOrCreateSymbol \/ Dispatch \/ LockEnv \/ ExecuteOp
             \/ UnlockEnv \/ LeaveLoop \/ DrainFindSymbol \/ DrainLockEnv \/ DrainExecute
             \/ DrainUnlockEnv \/ DrainExit \/ PrepareSpuriousWakeup) /\ InService
  <2>1. UNCHANGED <<pc, completed, queue, hand, tailLeft, running, dpc>>
    BY <1>2 DEF LoopTest, AwaitOp, FindOrCreateSymbol, Dispatch, LockEnv, ExecuteOp, UnlockEnv,
      LeaveLoop, DrainFindSymbol, DrainLockEnv, DrainExecute, DrainUnlockEnv, DrainExit,
      PrepareSpuriousWakeup
  <2>2. /\ ppc # "exited" /\ (ppc' \in HandFree <=> ppc \in HandFree)
        /\ running /\ ppc \in PrepareLocs => ppc' \in PrepareLocs
    BY <1>2 DEF LoopTest, AwaitOp, FindOrCreateSymbol, Dispatch, LockEnv, ExecuteOp, UnlockEnv,
      LeaveLoop, DrainFindSymbol, DrainLockEnv, DrainExecute, DrainUnlockEnv, DrainExit,
      PrepareSpuriousWakeup, HandFree, PrepareLocs
  <2>3. ShutdownPlaces'
    BY <1>0, <2>1, <2>2 DEF ShutdownPlaces, Freed
  <2> QED
    BY <2>1, <2>3, BufferKept DEF Waiting
<1>3. CASE (Retire \/ DrainRetire) /\ InService
  <2>1. /\ UNCHANGED <<completed, queue, hand, tailLeft, running, dpc>>
        /\ ppc \notin HandFree /\ ppc' \notin HandFree
        /\ ppc \in PrepareLocs => ppc' \in PrepareLocs
        /\ \/ pc' = pc
           \/ pc' = [u \in Threads |->
                       IF u \in DrainWaiters(req[hand].name) THEN "rd_drain" ELSE pc[u]]
    BY <1>3 DEF Retire, DrainRetire, HandFree, PrepareLocs
  <2>2. /\ pc' \in [Threads -> ThreadLocs \cup {"direct_wr", "direct_rd"}]
        /\ \A u \in Threads : (pc'[u] = "wr_enqueue" <=> pc[u] = "wr_enqueue")
                              /\ Waiting(u)' = Waiting(u)
    BY <1>0, <2>1 DEF ShutdownPlaces, DrainWaiters, ThreadLocs, Waiting
  <2>3. ShutdownPlaces'
    BY <1>0, <1>1, <2>1, <2>2 DEF ShutdownPlaces, Freed
  <2> QED
    BY <2>1, <2>2, <2>3, BufferKept
<1>4. CASE (Dequeue /\ InService) \/ DrainDequeue
  <2>1. /\ ppc \in HandFree \ {"exited"} /\ ppc' \notin HandFree /\ queue # <<>>
        /\ hand' = Head(queue) /\ queue' = Tail(queue)
        /\ UNCHANGED <<pc, completed, running, dpc>>
        /\ \/ tailLeft' = tailLeft /\ ppc' = "find"
           \/ (tailLeft' => queue' = <<>>) /\ ppc = "drain_fetch"
    BY <1>4 DEF Dequeue, DrainDequeue, HandFree
  <2>2. queue \in Seq(Threads) /\ ~tailLeft /\ queue' \in Seq(Threads) /\ hand' \in Threads
    BY <1>0, <2>1, HeadTailProperties DEF ShutdownPlaces
  <2>3. (running => ppc' \in PrepareLocs) /\ (tailLeft' => queue' = <<>> /\ ~running)
    <3>1. running => ppc # "drain_fetch"
      BY <1>0 DEF ShutdownPlaces, PrepareLocs
    <3> QED
      BY <2>1, <2>2, <3>1 DEF PrepareLocs
  <2>4. ~Freed
    BY <1>0, <2>1 DEF ShutdownPlaces
  <2>5. ShutdownPlaces'
    BY <1>0, <2>1, <2>2, <2>3, <2>4, ThreadAssumption DEF ShutdownPlaces, Freed
  <2> QED
    BY <2>1, <2>5, TakenKeeps
<1>5. CASE (Complete \/ DrainComplete) /\ InService
  <2>1. /\ ppc \notin HandFree /\ ppc' \in HandFree
        /\ ppc \in PrepareLocs => ppc' \in PrepareLocs
        /\ completed' = [completed EXCEPT ![hand] = TRUE]
        /\ pc' = IF pc[hand] = "wr_asleep" THEN [pc EXCEPT ![hand] = "wr_wait"] ELSE pc
        /\ hand' = NoThread /\ UNCHANGED <<queue, running, dpc, tailLeft>>
    BY <1>5 DEF Complete, DrainComplete, HandFree, PrepareLocs
  <2>2. ShutdownPlaces'
    BY <1>0, <1>1, <2>1 DEF ShutdownPlaces, Freed, ThreadLocs, Waiting
  <2> QED
    BY <2>1, <2>2, CompletedKeeps
<1> QED
  BY <1>2, <1>3, <1>4, <1>5 DEF PrepareThread, MainLoopStep, DrainLoopStep

\* Nothing sets running again.
LEMMA RunsOnce ==
  ASSUME [ShutdownNext]_svars, running'
  PROVE  running
BY DEF ShutdownNext, WorkerStep, BufferedCall, BufferedStep, DirectCall, DirectReturn,
  ReadLockSkipped, ReadUnlockAnyway, InService, PrepareThread, DrainDequeue, Stop,
  ShutdownStep, SignalStop, JoinAndFree, ClearPointer, svars

\* Every step keeps the invariant and what is in the buffer.
LEMMA ShutdownStepKeeps ==
  ASSUME ShutdownInv, [ShutdownNext]_svars
  PROVE  ShutdownInv' /\ OpsKept
<1>1. CASE \E t \in Threads : WorkerStep(t) \/ (SpuriousWakeup(t) /\ InService)
  BY <1>1, WorkerKeeps
<1>2. CASE PrepareThread \/ (PrepareSpuriousWakeup /\ InService)
  BY <1>2, PrepareKeeps
<1>3. CASE Stop \/ ShutdownStep \/ UNCHANGED svars
  <2>0. ShutdownPlaces
    BY DEF ShutdownInv
  <2>1. /\ UNCHANGED <<pc, completed, queue, hand, tailLeft>>
        /\ running' => running
        /\ \/ ppc' = ppc
           \/ ppc = "asleep" /\ ppc' = "fetch"
        /\ running' <=> dpc' = "serving"
        /\ dpc' \in {"freed", "gone"} => ppc' = "exited"
    BY <1>3, <2>0 DEF Stop, ShutdownStep, SignalStop, JoinAndFree, ClearPointer, svars, vars,
      threadVars, sharedVars, ShutdownPlaces, Freed
  <2>2. /\ ppc' \in HandFree <=> ppc \in HandFree
        /\ ppc \in PrepareLocs => ppc' \in PrepareLocs
    BY <2>1 DEF HandFree, PrepareLocs
  <2>3. ShutdownPlaces'
    BY <2>0, <2>1, <2>2 DEF ShutdownPlaces, Freed
  <2> QED
    BY <2>1, <2>3, BufferKept DEF Waiting
<1> QED
  BY <1>1, <1>2, <1>3 DEF ShutdownNext

\* Until ns_buffer_shutdown begins, everything that is proved of the buffer in service
\* holds, whatever the shutdown does to it later.
THEOREM ServesUntilShutdown == ShutdownSpec => [](running => IInv)
<1>1. ShutdownInit => ShutdownInv /\ (running => IInv)
  BY ShutdownStart
<1>2. ShutdownInv /\ (running => IInv) /\ [ShutdownNext]_svars
        => ShutdownInv' /\ (running => IInv)'
  <2> SUFFICES ASSUME ShutdownInv, running => IInv, [ShutdownNext]_svars
               PROVE  ShutdownInv' /\ (running => IInv)'
    OBVIOUS
  <2>1. ShutdownInv'
    BY ShutdownStepKeeps
  <2>3. ASSUME running' PROVE IInv'
    <3>1. running
      BY <2>3, RunsOnce
    <3>2. running /\ [Next]_vars
      BY <2>3, <3>1, ServingStep DEF ShutdownInv
    <3> QED
      BY <3>1, <3>2, TypeOKStep, RequestInvStep, HandInvStep, LockInvStep, ResultInvStep,
        NsOpAliveStep, PendingExactStep, NoLostWakeupStep DEF IInv
  <2> QED
    BY <2>1, <2>3
<1> QED
  BY <1>1, <1>2, PTL DEF ShutdownSpec

\* The drain loop never touches an operation that its writer has freed, no operation is
\* in hand when the buffer is freed, and a write that waits and is nowhere in the
\* buffer came after the last one was drained (ns_buffer_shutdown, prepare_thread_func).
THEOREM ShutdownSafe == ShutdownSpec => [](OpsUsable /\ LostBehindTail)
<1>1. ShutdownInit => ShutdownInv
  BY ShutdownStart
<1>2. ShutdownInv /\ [ShutdownNext]_svars => ShutdownInv'
  BY ShutdownStepKeeps
<1>3. ShutdownInv => OpsUsable /\ LostBehindTail
  BY DEF ShutdownInv
<1> QED
  BY <1>1, <1>2, <1>3, PTL DEF ShutdownSpec

\* An operation in the buffer stays there until it is completed, shutdown or not.
THEOREM WritesKept == ShutdownSpec => [][OpsKept]_svars
<1>1. ShutdownInit => ShutdownInv
  BY ShutdownStart
<1>2. ShutdownInv /\ [ShutdownNext]_svars => ShutdownInv' /\ [OpsKept]_svars
  BY ShutdownStepKeeps
<1> QED
  BY <1>1, <1>2, PTL DEF ShutdownSpec

=============================================================================
