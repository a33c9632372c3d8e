-------------------------- MODULE WorkQueueProofs --------------------------
(***************************************************************************)
(* The work queue for every set of ids, every number of consumers, every   *)
(* combination of faults and every bound on the grants.  QueueInv says in  *)
(* how many places a copy can be; the run's invariants follow from it, and *)
(* so does the refinement of AtMostOnceQueue.                              *)
(***************************************************************************)
EXTENDS WorkQueue, TLAPS

Occurs(q, c) == \E n \in 1..Len(q) : q[n] = c
NoRepeats(q) == \A m, n \in 1..Len(q) : q[m] = q[n] => m = n

(* Every copy somewhere has been granted.                                  *)
OnlyGranted ==
    /\ \A c \in Copies : InQueue(c) \/ c \in pushing \/ c \in started
                           => c.grant <= grants[c.id]
    /\ \A k \in Consumers : Busy(k) => msg[k].grant <= grants[msg[k].id]

(* A copy that waits for a handler waits in one place, once.               *)
OnePlace ==
    /\ NoRepeats(queue)
    /\ \A c \in pushing : ~InQueue(c)
    /\ \A k \in Consumers : pc[k] = "push" =>
         /\ ~InQueue(msg[k])
         /\ msg[k] \notin pushing
         /\ \A l \in Consumers \ {k} : pc[l] = "push" => msg[l] # msg[k]

(* Every grant is the live key's or that of a window that ended.           *)
GrantsAccounted ==
    \A i \in Ids : grants[i] = ended[i] + (IF i \in claims THEN 1 ELSE 0)

QueueInv == /\ TypeOK
            /\ OnlyGranted
            /\ OnePlace
            /\ NoCopyStartsTwice
            /\ OneHandlerPerCopy
            /\ GrantsAccounted

-----------------------------------------------------------------------------
(* Appending adds one copy.                                                *)
LEMMA OccursAppend ==
    ASSUME NEW q \in Seq(Copies), NEW c \in Copies
    PROVE  /\ Append(q, c) \in Seq(Copies)
           /\ \A d : Occurs(Append(q, c), d) <=> Occurs(q, d) \/ d = c
           /\ NoRepeats(q) /\ ~Occurs(q, c) => NoRepeats(Append(q, c))
<1>1. Append(q, c) \in Seq(Copies) /\ Len(Append(q, c)) = Len(q) + 1 /\ Len(q) \in Nat
  OBVIOUS
<1>2. \A n \in 1..Len(q) : Append(q, c)[n] = q[n]
  OBVIOUS
<1>3. Append(q, c)[Len(q) + 1] = c
  OBVIOUS
<1> HIDE DEF Copies
<1> QED
  BY <1>1, <1>2, <1>3 DEF Occurs, NoRepeats

(* Taking the first copy off a list without repetitions removes that copy  *)
(* and no other.                                                           *)
LEMMA OccursTail ==
    ASSUME NEW q \in Seq(Copies), q # <<>>, NoRepeats(q)
    PROVE  /\ Head(q) \in Copies
           /\ Tail(q) \in Seq(Copies)
           /\ Occurs(q, Head(q))
           /\ \A d : Occurs(Tail(q), d) <=> Occurs(q, d) /\ d # Head(q)
           /\ NoRepeats(Tail(q))
<1>1. /\ Tail(q) \in Seq(Copies) /\ Len(q) \in Nat \ {0}
      /\ Len(Tail(q)) = Len(q) - 1 /\ Head(q) = q[1] /\ Head(q) \in Copies
  OBVIOUS
<1>2. \A n \in 1..(Len(q) - 1) : Tail(q)[n] = q[n + 1]
  OBVIOUS
<1>3. Occurs(q, Head(q))
  BY <1>1 DEF Occurs
<1>4. ASSUME NEW d, Occurs(Tail(q), d) PROVE Occurs(q, d) /\ d # Head(q)
  BY <1>1, <1>2, <1>4 DEF Occurs, NoRepeats
<1>5. ASSUME NEW d, Occurs(q, d), d # Head(q) PROVE Occurs(Tail(q), d)
  <2>1. PICK n \in 1..Len(q) : q[n] = d
    BY <1>5 DEF Occurs
  <2>2. n # 1 /\ n - 1 \in 1..(Len(q) - 1)
    BY <2>1, <1>1, <1>5
  <2>3. Tail(q)[n - 1] = d
    BY <2>1, <2>2, <1>2
  <2> QED
    BY <2>2, <2>3, <1>1 DEF Occurs
<1>6. NoRepeats(Tail(q))
  BY <1>1, <1>2 DEF NoRepeats
<1> QED
  BY <1>1, <1>3, <1>4, <1>5, <1>6

(* The copy of the next grant is nowhere yet.                              *)
LEMMA NextCopyFresh ==
    ASSUME QueueInv, NEW i \in Ids, grants[i] < MaxGrants
    PROVE  /\ NextCopy(i) \in Copies
           /\ NextCopy(i).id = i
           /\ NextCopy(i).grant = grants[i] + 1
           /\ ~InQueue(NextCopy(i))
           /\ NextCopy(i) \notin pushing
           /\ NextCopy(i) \notin started
           /\ \A k \in Consumers : Busy(k) => msg[k] # NextCopy(i)
<1> DEFINE c == NextCopy(i)
<1>1. c \in Copies /\ c.id = i /\ c.grant = grants[i] + 1 /\ grants[i] \in Nat
  BY QueueAssumption DEF QueueInv, TypeOK, NextCopy, Copies
<1>2. ~(c.grant <= grants[c.id])
  BY <1>1
<1> QED
  BY <1>1, <1>2 DEF QueueInv, OnlyGranted

-----------------------------------------------------------------------------
LEMMA InitQueueInv == Init => QueueInv
  BY QueueAssumption
     DEF Init, QueueInv, TypeOK, OnlyGranted, OnePlace, NoCopyStartsTwice,
         OneHandlerPerCopy, GrantsAccounted, InQueue, NoRepeats, Busy

(* Every step of a producer, a consumer, an operator or the clock keeps    *)
(* QueueInv.                                                               *)
LEMMA NextQueueInv == QueueInv /\ [Next]_vars => QueueInv'
<1> SUFFICES ASSUME QueueInv, [Next]_vars PROVE QueueInv'
  OBVIOUS
<1> USE QueueAssumption
    DEF QueueInv, TypeOK, OnlyGranted, OnePlace, NoCopyStartsTwice,
        OneHandlerPerCopy, GrantsAccounted, Busy
<1>a. \A c : InQueue(c) <=> Occurs(queue, c)
  BY DEF InQueue, Occurs
<1>b. \A c : InQueue(c)' <=> Occurs(queue', c)
  BY DEF InQueue, Occurs
<1>1. ASSUME NEW i \in Ids, Claim(i) PROVE QueueInv'
  <2> DEFINE new == NextCopy(i)
  <2>f. /\ i \in Ids /\ grants[i] \in 0..(MaxGrants - 1)
        /\ new \in Copies /\ new.id = i /\ new.grant = grants[i] + 1
        /\ ~InQueue(new) /\ new \notin pushing /\ new \notin started
        /\ \A l \in Consumers : Busy(l) => msg[l] # new
    <3>1. i \in Ids /\ grants[i] \in 0..(MaxGrants - 1)
      BY <1>1 DEF Claim, Grant, Copies
    <3> QED
      BY <3>1, NextCopyFresh
  <2>1. TypeOK'
    BY <1>1, <1>a, <1>b, <2>f DEF Claim, Grant
  <2>2. OnlyGranted'
    <3>1. \A c \in Copies : c.id \in Ids /\ c.grant \in Nat
      BY QueueAssumption DEF Copies
    <3>2. \A j \in Ids : grants[j] \in Nat /\ grants'[j] \in Nat /\ grants[j] <= grants'[j]
      BY <1>1, <2>f DEF Claim, Grant
    <3>3. grants'[i] = grants[i] + 1
      BY <1>1, <2>f DEF Claim, Grant
    <3>4. ASSUME NEW c \in Copies, c.grant <= grants[c.id] PROVE c.grant <= grants'[c.id]
      BY <3>1, <3>2, <3>4
    <3>5. new.grant <= grants'[new.id]
      BY <3>3, <2>f
    <3>6. ASSUME NEW c \in Copies, InQueue(c)' \/ c \in pushing' \/ c \in started'
          PROVE  c.grant <= grants'[c.id]
      BY <3>4, <3>5, <3>6, <1>1, <1>a, <1>b, <2>f DEF Claim
    <3>7. ASSUME NEW l \in Consumers, Busy(l)' PROVE msg'[l].grant <= grants'[msg'[l].id]
      BY <3>4, <3>5, <3>7, <1>1, <2>f DEF Claim
    <3> QED
      BY <3>6, <3>7
  <2>3. OnePlace'
    BY <1>1, <1>a, <1>b, <2>f DEF Claim, Grant
  <2>4. NoCopyStartsTwice'
    BY <1>1, <1>a, <1>b, <2>f DEF Claim, Grant
  <2>5. OneHandlerPerCopy'
    BY <1>1, <1>a, <1>b, <2>f DEF Claim, Grant
  <2>6. GrantsAccounted'
    BY <1>1, <1>a, <1>b, <2>f DEF Claim, Grant
  <2> QED
    BY <2>1, <2>2, <2>3, <2>4, <2>5, <2>6
<1>2. ASSUME NEW i \in Ids, ClaimHeld(i) PROVE QueueInv'
  BY <1>2, <1>a, <1>b DEF ClaimHeld
<1>3. ASSUME NEW c \in pushing, Push(c) PROVE QueueInv'
  <2>g. /\ c \in Copies /\ c.id \in Ids
        /\ queue' \in Seq(Copies)
        /\ \A d : Occurs(queue', d) <=> Occurs(queue, d) \/ d = c
        /\ NoRepeats(queue')
    BY <1>3, <1>a, OccursAppend DEF Push, Copies
  <2>1. TypeOK'
    BY <1>3, <1>a, <1>b, <2>g DEF Push
  <2>2. OnlyGranted'
    BY <1>3, <1>a, <1>b, <2>g DEF Push
  <2>3. OnePlace'
    BY <1>3, <1>a, <1>b, <2>g DEF Push
  <2>4. NoCopyStartsTwice'
    BY <1>3, <1>a, <1>b, <2>g DEF Push
  <2>5. OneHandlerPerCopy'
    BY <1>3, <1>a, <1>b, <2>g DEF Push
  <2>6. GrantsAccounted'
    BY <1>3, <1>a, <1>b, <2>g DEF Push
  <2> QED
    BY <2>1, <2>2, <2>3, <2>4, <2>5, <2>6
<1>4. ASSUME NEW c \in pushing, PushLost(c) PROVE QueueInv'
  BY <1>4, <1>a, <1>b DEF PushLost
<1>5. ASSUME NEW k \in Consumers, Dequeue(k) PROVE QueueInv'
  BY <1>5, <1>a, <1>b, OccursTail DEF Dequeue
<1>6. ASSUME NEW k \in Consumers, DequeueRaises(k) PROVE QueueInv'
  BY <1>6, <1>a, <1>b, OccursTail DEF DequeueRaises
<1>7. ASSUME NEW k \in Consumers, HandlerReturns(k) PROVE QueueInv'
  BY <1>7, <1>a, <1>b DEF HandlerReturns
<1>8. ASSUME NEW k \in Consumers, HandlerRaises(k) PROVE QueueInv'
  BY <1>8, <1>a, <1>b DEF HandlerRaises
<1>9. ASSUME NEW k \in Consumers, RequeueClaim(k) PROVE QueueInv'
  <2> DEFINE new == NextCopy(msg[k].id)
  <2>f. /\ msg[k].id \in Ids /\ grants[msg[k].id] \in 0..(MaxGrants - 1)
        /\ new \in Copies /\ new.id = msg[k].id /\ new.grant = grants[msg[k].id] + 1
        /\ ~InQueue(new) /\ new \notin pushing /\ new \notin started
        /\ \A l \in Consumers : Busy(l) => msg[l] # new
    <3>1. msg[k].id \in Ids /\ grants[msg[k].id] \in 0..(MaxGrants - 1)
      BY <1>9 DEF RequeueClaim, Grant, Copies
    <3> QED
      BY <3>1, NextCopyFresh
  <2>1. TypeOK'
    BY <1>9, <1>a, <1>b, <2>f DEF RequeueClaim, Grant
  <2>2. OnlyGranted'
    <3>1. \A c \in Copies : c.id \in Ids /\ c.grant \in Nat
      BY QueueAssumption DEF Copies
    <3>2. \A j \in Ids : grants[j] \in Nat /\ grants'[j] \in Nat /\ grants[j] <= grants'[j]
      BY <1>9, <2>f DEF RequeueClaim, Grant
    <3>3. grants'[msg[k].id] = grants[msg[k].id] + 1
      BY <1>9, <2>f DEF RequeueClaim, Grant
    <3>4. ASSUME NEW c \in Copies, c.grant <= grants[c.id] PROVE c.grant <= grants'[c.id]
      BY <3>1, <3>2, <3>4
    <3>5. new.grant <= grants'[new.id]
      BY <3>3, <2>f
    <3>6. ASSUME NEW c \in Copies, InQueue(c)' \/ c \in pushing' \/ c \in started'
          PROVE  c.grant <= grants'[c.id]
      BY <3>4, <3>5, <3>6, <1>9, <1>a, <1>b, <2>f DEF RequeueClaim
    <3>7. ASSUME NEW l \in Consumers, Busy(l)' PROVE msg'[l].grant <= grants'[msg'[l].id]
      BY <3>4, <3>5, <3>7, <1>9, <2>f DEF RequeueClaim
    <3> QED
      BY <3>6, <3>7
  <2>3. OnePlace'
    BY <1>9, <1>a, <1>b, <2>f DEF RequeueClaim, Grant
  <2>4. NoCopyStartsTwice'
    BY <1>9, <1>a, <1>b, <2>f DEF RequeueClaim, Grant
  <2>5. OneHandlerPerCopy'
    BY <1>9, <1>a, <1>b, <2>f DEF RequeueClaim, Grant
  <2>6. GrantsAccounted'
    BY <1>9, <1>a, <1>b, <2>f DEF RequeueClaim, Grant
  <2> QED
    BY <2>1, <2>2, <2>3, <2>4, <2>5, <2>6
<1>10. ASSUME NEW k \in Consumers, RequeueHeld(k) PROVE QueueInv'
  BY <1>10, <1>a, <1>b DEF RequeueHeld
<1>11. ASSUME NEW k \in Consumers, RequeuePush(k) PROVE QueueInv'
  BY <1>11, <1>a, <1>b, OccursAppend DEF RequeuePush
<1>12. ASSUME NEW k \in Consumers, ConsumerDies(k) PROVE QueueInv'
  BY <1>12, <1>a, <1>b DEF ConsumerDies
<1>13. ASSUME NEW k \in Consumers, Restart(k) PROVE QueueInv'
  BY <1>13, <1>a, <1>b DEF Restart
<1>17. ASSUME NEW k \in Consumers, Stop(k) PROVE QueueInv'
  BY <1>17, <1>a, <1>b DEF Stop
<1>14. ASSUME NEW i \in Ids, Expire(i) PROVE QueueInv'
  BY <1>14, <1>a, <1>b DEF Expire
<1>15. ASSUME NEW i \in Ids, ManualPush(i) PROVE QueueInv'
  <2> DEFINE new == NextCopy(i)
  <2>f. /\ i \in Ids /\ grants[i] \in 0..(MaxGrants - 1)
        /\ new \in Copies /\ new.id = i /\ new.grant = grants[i] + 1
        /\ ~InQueue(new) /\ new \notin pushing /\ new \notin started
        /\ \A l \in Consumers : Busy(l) => msg[l] # new
    <3>1. i \in Ids /\ grants[i] \in 0..(MaxGrants - 1)
      BY <1>15 DEF ManualPush, Grant, Copies
    <3> QED
      BY <3>1, NextCopyFresh
  <2>g. /\ queue' \in Seq(Copies)
        /\ \A d : Occurs(queue', d) <=> Occurs(queue, d) \/ d = new
        /\ NoRepeats(queue')
    BY <1>15, <1>a, <2>f, OccursAppend DEF ManualPush
  <2>1. TypeOK'
    BY <1>15, <1>a, <1>b, <2>f, <2>g DEF ManualPush, Grant
  <2>2. OnlyGranted'
    <3>1. \A c \in Copies : c.id \in Ids /\ c.grant \in Nat
      BY QueueAssumption DEF Copies
    <3>2. \A j \in Ids : grants[j] \in Nat /\ grants'[j] \in Nat /\ grants[j] <= grants'[j]
      BY <1>15, <2>f DEF ManualPush, Grant
    <3>3. grants'[i] = grants[i] + 1
      BY <1>15, <2>f DEF ManualPush, Grant
    <3>4. ASSUME NEW c \in Copies, c.grant <= grants[c.id] PROVE c.grant <= grants'[c.id]
      BY <3>1, <3>2, <3>4
    <3>5. new.grant <= grants'[new.id]
      BY <3>3, <2>f
    <3>6. ASSUME NEW c \in Copies, InQueue(c)' \/ c \in pushing' \/ c \in started'
          PROVE  c.grant <= grants'[c.id]
      BY <3>4, <3>5, <3>6, <1>15, <1>a, <1>b, <2>f, <2>g DEF ManualPush
    <3>7. ASSUME NEW l \in Consumers, Busy(l)' PROVE msg'[l].grant <= grants'[msg'[l].id]
      BY <3>4, <3>5, <3>7, <1>15, <2>f DEF ManualPush
    <3> QED
      BY <3>6, <3>7
  <2>3. OnePlace'
    BY <1>15, <1>a, <1>b, <2>f, <2>g DEF ManualPush, Grant
  <2>4. NoCopyStartsTwice'
    BY <1>15, <1>a, <1>b, <2>f, <2>g DEF ManualPush, Grant
  <2>5. OneHandlerPerCopy'
    BY <1>15, <1>a, <1>b, <2>f, <2>g DEF ManualPush, Grant
  <2>6. GrantsAccounted'
    BY <1>15, <1>a, <1>b, <2>f, <2>g DEF ManualPush, Grant
  <2> QED
    BY <2>1, <2>2, <2>3, <2>4, <2>5, <2>6
<1>16. CASE UNCHANGED vars
  BY <1>16, <1>a, <1>b DEF vars
<1> QED
  BY <1>1, <1>2, <1>3, <1>4, <1>5, <1>6, <1>7, <1>8, <1>9, <1>10, <1>11,
     <1>12, <1>13, <1>14, <1>15, <1>16, <1>17 DEF Next, ConsumerStep

LEMMA QueueInvariant == SafeSpec => []QueueInv
  BY InitQueueInv, NextQueueInv, PTL DEF SafeSpec

(* Queue, keys and consumers keep their ranges, and an id whose key is     *)
(* gone has a grant left.                                                  *)
THEOREM QueueTypeCorrect == SafeSpec => []TypeOK
<1>1. QueueInv => TypeOK
  BY DEF QueueInv
<1> QED
  BY QueueInvariant, <1>1, PTL

(* SET NX gives an id at most one copy per dedupe window.                  *)
THEOREM QueueOneCopyPerWindow == SafeSpec => []OneCopyPerWindow
<1>1. QueueInv => OneCopyPerWindow
  <2> SUFFICES ASSUME QueueInv, NEW i \in Ids PROVE grants[i] <= ended[i] + 1
    BY DEF OneCopyPerWindow
  <2>1. ended[i] \in Nat
    BY QueueAssumption DEF QueueInv, TypeOK
  <2> QED
    BY <2>1 DEF QueueInv, GrantsAccounted
<1> QED
  BY QueueInvariant, <1>1, PTL

(* BRPOP with a fresh claim per push hands no copy out twice.              *)
THEOREM QueueNoCopyStartsTwice == SafeSpec => []NoCopyStartsTwice
<1>1. QueueInv => NoCopyStartsTwice
  BY DEF QueueInv
<1> QED
  BY QueueInvariant, <1>1, PTL

(* No two consume() loops handle the same copy, finished or not.           *)
THEOREM QueueOneHandlerPerCopy == SafeSpec => []OneHandlerPerCopy
<1>1. QueueInv => OneHandlerPerCopy
  BY DEF QueueInv
<1> QED
  BY QueueInvariant, <1>1, PTL

-----------------------------------------------------------------------------
(* Granting an id's next copy issues that copy and no other.               *)
LEMMA GrantIssues ==
    ASSUME QueueInv, NEW i \in Ids, Grant(i)
    PROVE  /\ NextCopy(i) \in Copies
           /\ NextCopy(i) \notin Issued
           /\ Issued' = Issued \union {NextCopy(i)}
<1>1. grants \in [Ids -> Nat] /\ grants[i] + 1 \in 1..MaxGrants
  BY QueueAssumption DEF QueueInv, TypeOK, Grant
<1>2. \A c \in Copies : c = [id |-> c.id, grant |-> c.grant] /\ c.id \in Ids /\ c.grant \in Nat
  BY QueueAssumption DEF Copies
<1>3. NextCopy(i) \in Copies /\ NextCopy(i).id = i /\ NextCopy(i).grant = grants[i] + 1
  BY <1>1 DEF NextCopy, Copies
<1>4. NextCopy(i) \notin Issued
  BY <1>1, <1>3 DEF Issued
<1>5. ASSUME NEW c \in Copies
      PROVE  c.grant <= grants'[c.id] <=> c.grant <= grants[c.id] \/ c = NextCopy(i)
  <2>1. CASE c.id = i
    BY <2>1, <1>1, <1>2 DEF Grant, NextCopy
  <2>2. CASE c.id # i
    BY <2>2, <1>1, <1>2, <1>3 DEF Grant
  <2> QED
    BY <2>1, <2>2
<1> QED
  BY <1>3, <1>4, <1>5 DEF Issued

(* The queue implements the at-most-once queue: every step is one of its   *)
(* steps or none.                                                          *)
THEOREM QueueIsAtMostOnce == SafeSpec => ImplementsAtMostOnce
<1>1. Init => AtMostOnce!Init
  BY QueueAssumption DEF Init, AtMostOnce!Init, Issued, Copies, Holding
<1>2. QueueInv /\ [Next]_vars => [AtMostOnce!Next]_AtMostOnce!vars
  <2> SUFFICES ASSUME QueueInv, [Next]_vars
               PROVE  AtMostOnce!Next \/ UNCHANGED AtMostOnce!vars
    OBVIOUS
  <2> DEFINE Stutter == UNCHANGED <<Issued, started, done, Holding>>
  <2>a. Stutter => UNCHANGED AtMostOnce!vars
    BY DEF AtMostOnce!vars
  <2>b. grants' = grants => Issued' = Issued
    BY DEF Issued
  <2>t. /\ pc \in [Consumers -> {"poll", "handling", "requeue", "push", "dead", "stopped"}]
        /\ msg \in [Consumers -> Copies \union {NoCopy}]
    BY DEF QueueInv, TypeOK
  <2>1. ASSUME NEW i \in Ids, Claim(i) PROVE AtMostOnce!Next
    <3>1. AtMostOnce!Issue(NextCopy(i))
      BY <2>1, GrantIssues DEF Claim, AtMostOnce!Issue, Holding
    <3> QED
      BY <3>1, <2>1, GrantIssues DEF Claim, AtMostOnce!Next
  <2>2. ASSUME NEW i \in Ids, ManualPush(i) PROVE AtMostOnce!Next
    <3>1. AtMostOnce!Issue(NextCopy(i))
      BY <2>2, GrantIssues DEF ManualPush, AtMostOnce!Issue, Holding
    <3> QED
      BY <3>1, <2>2, GrantIssues DEF ManualPush, AtMostOnce!Next
  <2>3. ASSUME NEW i \in Ids, ClaimHeld(i) \/ Expire(i) PROVE Stutter
    BY <2>3, <2>b DEF ClaimHeld, Expire, Holding
  <2>4. ASSUME NEW c \in pushing, Push(c) \/ PushLost(c) PROVE Stutter
    BY <2>4, <2>b DEF Push, PushLost, Holding
  <2>5. ASSUME NEW k \in Consumers, Dequeue(k) PROVE AtMostOnce!Next
    <3> DEFINE c == Head(queue)
    <3>1. c \in Copies /\ InQueue(c)
      BY <2>5, OccursTail DEF Dequeue, QueueInv, TypeOK, OnePlace, InQueue, Occurs
    <3>2. c \in Issued \ started
      BY <3>1 DEF QueueInv, OnlyGranted, NoCopyStartsTwice, Issued
    <3>3. Holding[k] = NoCopy /\ Holding' = [Holding EXCEPT ![k] = c]
      BY <2>5, <2>t DEF Dequeue, Holding
    <3>4. AtMostOnce!Start(k, c)
      BY <2>5, <2>b, <3>2, <3>3 DEF Dequeue, AtMostOnce!Start
    <3> QED
      BY <3>1, <3>4 DEF AtMostOnce!Next
  <2>6. ASSUME NEW k \in Consumers, DequeueRaises(k) PROVE Stutter
    BY <2>6, <2>b DEF DequeueRaises, Holding
  <2>7. ASSUME NEW k \in Consumers, HandlerReturns(k) PROVE AtMostOnce!Next
    <3>1. Holding[k] = msg[k] /\ msg[k] \in started \ done
      BY <2>7 DEF HandlerReturns, Holding, QueueInv, OneHandlerPerCopy
    <3>2. Holding' = [Holding EXCEPT ![k] = NoCopy]
      BY <2>7, <2>t DEF HandlerReturns, Holding
    <3>3. AtMostOnce!Finish(k)
      BY <2>7, <2>b, <3>1, <3>2 DEF HandlerReturns, AtMostOnce!Finish
    <3> QED
      BY <3>3 DEF AtMostOnce!Next
  <2>8. ASSUME NEW k \in Consumers, HandlerRaises(k) \/ ConsumerDies(k) PROVE AtMostOnce!Next
    <3>1. Holding' = [Holding EXCEPT ![k] = NoCopy]
      BY <2>8, <2>t DEF HandlerRaises, ConsumerDies, Holding
    <3>2. AtMostOnce!Drop(k)
      BY <2>8, <2>b, <3>1 DEF HandlerRaises, ConsumerDies, AtMostOnce!Drop
    <3> QED
      BY <3>2 DEF AtMostOnce!Next
  <2>9. ASSUME NEW k \in Consumers, RequeueClaim(k) PROVE AtMostOnce!Next
    <3>1. Holding' = Holding
      BY <2>9, <2>t DEF RequeueClaim, Holding
    <3>2. msg[k].id \in Ids
      BY <2>9 DEF RequeueClaim, QueueInv, TypeOK, Busy, Copies
    <3>3. AtMostOnce!Issue(NextCopy(msg[k].id)) /\ NextCopy(msg[k].id) \in Copies
      BY <2>9, <3>1, <3>2, GrantIssues DEF RequeueClaim, AtMostOnce!Issue
    <3> QED
      BY <3>3 DEF AtMostOnce!Next
  <2>10. ASSUME NEW k \in Consumers, RequeueHeld(k) \/ RequeuePush(k) PROVE Stutter
    BY <2>10, <2>b, <2>t DEF RequeueHeld, RequeuePush, Holding
  <2>11. ASSUME NEW k \in Consumers, Restart(k) \/ Stop(k) PROVE Stutter
    BY <2>11, <2>b, <2>t DEF Restart, Stop, Holding
  <2>12. ASSUME UNCHANGED vars PROVE Stutter
    BY <2>12, <2>b DEF vars, Holding
  <2> QED
    BY <2>a, <2>1, <2>2, <2>3, <2>4, <2>5, <2>6, <2>7, <2>8, <2>9, <2>10, <2>11, <2>12
       DEF Next, ConsumerStep
<1> QED
  BY <1>1, <1>2, QueueInvariant, PTL DEF SafeSpec, ImplementsAtMostOnce, AtMostOnce!Spec
=============================================================================
