-------------------------- MODULE KeysetCacheProofs --------------------------
(***************************************************************************)
(* Proofs about the keyset cache, for any number of overlapping calls, any *)
(* number of rotations, any time-to-live and any delay of an answer.       *)
(***************************************************************************)
EXTENDS KeysetCache, TLAPS

\* A call that has an instance in hand has a cached one too, and only a token
\* is ever retried.
Held(c) ==
    /\ kpc[c] \in {"refresh", "retry", "given"} =>
         job[c].on \in Callers /\ entry \in Callers
    /\ kpc[c] = "retry" => job[c].token # 0

\* The stamp is at most one answer younger than the view.
Stamped(x) == inst[x].seen <= inst[x].age + Latency

\* A token's keyset is one that every answer to the call must list.
Genuine(c, n) == job[c].token <= n \/ job[c].token = Unlisted
Asked(c) ==
    /\ Genuine(c, listed)
    /\ job[c].answer # Absent => Genuine(c, job[c].answer.view.known)
    /\ kpc[c] = "refused" => job[c].failed \/ job[c].token = Unlisted

KeysInv ==
    /\ KeysTypeOK
    /\ \A c \in Callers : Held(c)
    /\ \A c \in Callers : Stamped(c)
    /\ \A c \in Callers : Asked(c)

LEMMA KeysInitInv == KeysInit => KeysInv
<1> SUFFICES ASSUME KeysInit PROVE KeysInv
  OBVIOUS
<1>1. NoInstance \in Instances /\ NoInstance.seen = 0 /\ NoInstance.age = 0
  BY KeysetAssumption DEF NoInstance, Instances, Views
<1>2. NoJob \in Jobs /\ NoJob.token = 0 /\ NoJob.answer = Absent
  BY KeysetAssumption DEF NoJob, Jobs, Unlisted
<1>3. KeysTypeOK
  BY <1>1, <1>2, KeysetAssumption
  DEF KeysInit, KeysTypeOK, KeyLabels, Keysets
<1>4. \A c \in Callers : Held(c) /\ Stamped(c) /\ Asked(c)
  BY <1>1, <1>2, KeysetAssumption
  DEF KeysInit, Held, Stamped, Asked, Genuine
<1> QED BY <1>3, <1>4 DEF KeysInv

-----------------------------------------------------------------------------
(* What the pieces of a step return                                        *)

\* A load leaves an instance with the answer's view and a renewed stamp; if it
\* can be bound, it is bound to a keyset of the view.
LEMMA LoadedIsBound ==
  ASSUME NEW w \in Instances, NEW a \in Answers, NEW v \in Rebound(Loaded(w, a))
  PROVE  /\ v \in Instances
         /\ v.view = a.view /\ v.age = 0 /\ v.seen = a.delay
         /\ ~Unbindable(v) => v.bound \in v.view.live
<1> DEFINE l == Loaded(w, a)
<1>1. l \in Instances /\ l.view = a.view /\ l.age = 0 /\ l.seen = a.delay
  BY KeysetAssumption DEF Loaded, Instances, Answers
<1>2. CASE Usable(l) \/ l.view.live = {}
  <2>1. v = l
    BY <1>2 DEF Rebound
  <2> QED BY <1>1, <1>2, <2>1 DEF Unbindable, Usable
<1>3. CASE ~(Usable(l) \/ l.view.live = {})
  <2>1. PICK k \in l.view.live : v = [l EXCEPT !.bound = k]
    BY <1>3 DEF Rebound
  <2>2. k \in 0..MaxKeyset
    BY <1>1, KeysetAssumption DEF Instances, Views, Keysets
  <2>3. /\ v \in Instances /\ v.bound = k
        /\ v.view = l.view /\ v.age = l.age /\ v.seen = l.seen
    BY <1>1, <2>1, <2>2 DEF Instances
  <2> QED BY <1>1, <2>3
<1> QED BY <1>2, <1>3

\* The calls other than c are left alone.
Others(c) ==
    \A d \in Callers \ {c} : kpc'[d] = kpc[d] /\ job'[d] = job[d]

LEMMA RefuseIs ==
  ASSUME KeysTypeOK, NEW c \in Callers, Refuse(c)
  PROVE  /\ job' \in [Callers -> Jobs] /\ kpc' \in [Callers -> KeyLabels]
         /\ kpc'[c] = "refused" /\ job'[c].failed /\ job'[c].answer = Absent
         /\ job'[c].token = job[c].token
         /\ Others(c)
<1>1. Asking(job[c].token, job[c].on, TRUE) \in Jobs
  BY DEF KeysTypeOK, Asking, Jobs
<1> QED BY <1>1 DEF KeysTypeOK, Refuse, Asking, KeyLabels, Others

LEMMA GiveIs ==
  ASSUME KeysTypeOK, NEW c \in Callers, NEW token \in 0..Unlisted,
         NEW o \in Callers, NEW failed \in BOOLEAN,
         entry' \in Callers, inst' \in [Callers -> Instances],
         Give(c, token, o, failed)
  PROVE  /\ job' \in [Callers -> Jobs] /\ kpc' \in [Callers -> KeyLabels]
         /\ kpc'[c] \in {"given", "retry"}
         /\ kpc'[c] = "retry" => token # 0
         /\ job'[c].token = token /\ job'[c].answer = Absent
         /\ job'[c].on \in Callers /\ job'[c].failed = failed
         /\ Others(c)
<1> DEFINE x == IF token = 0 THEN o ELSE entry'
<1>1. Asking(token, x, failed) \in Jobs
  BY DEF Asking, Jobs
<1>2. job' = [job EXCEPT ![c] = Asking(token, x, failed)]
  BY DEF Give
<1>3. inst'[entry'].view.known \in 0..MaxKeyset
  BY DEF Instances, Views
<1>4. kpc'[c] \in {"given", "retry"} /\ (kpc'[c] = "retry" => token # 0)
  BY <1>3 DEF KeysTypeOK, Give, Knows
<1>5. kpc' \in [Callers -> KeyLabels]
  BY DEF KeysTypeOK, Give, KeyLabels, Awaiting
<1>6. job' \in [Callers -> Jobs] /\ job'[c] = Asking(token, x, failed)
  BY <1>1, <1>2 DEF KeysTypeOK
<1>7. Others(c)
  BY <1>2 DEF KeysTypeOK, Give, Others
<1> QED BY <1>4, <1>5, <1>6, <1>7 DEF Asking

\* Whatever a call has been given, and whatever it has been refused, keeps the
\* invariant when no other call's instance is disturbed.
LEMMA CallKeeps ==
  ASSUME KeysInv, NEW c \in Callers, Others(c), UNCHANGED mintKeys,
         job' \in [Callers -> Jobs], kpc' \in [Callers -> KeyLabels],
         inst' \in [Callers -> Instances], \A x \in Callers : Stamped(x)',
         entry' \in Callers \cup {Absent},
         entry \in Callers => entry' \in Callers,
         Held(c)', Asked(c)'
  PROVE  KeysInv'
<1>1. KeysTypeOK'
  BY DEF KeysInv, KeysTypeOK, mintKeys
<1>2. ASSUME NEW d \in Callers \ {c} PROVE Held(d)' /\ Asked(d)'
  BY <1>2 DEF KeysInv, Held, Asked, Genuine, Others, mintKeys
<1> QED BY <1>1, <1>2 DEF KeysInv

-----------------------------------------------------------------------------
(* Each action keeps the invariant                                         *)

LEMMA BeginInv ==
  ASSUME KeysInv, NEW c \in Callers, NEW token \in 0..Unlisted,
         BeginKeys(c, token)
  PROVE  KeysInv'
<1>1. inst' \in [Callers -> Instances] /\ UNCHANGED <<mintKeys, entry, inst>>
  BY DEF BeginKeys, KeysInv, KeysTypeOK
<1>2. \A x \in Callers : Stamped(x)'
  BY <1>1 DEF KeysInv, Stamped
<1>3. entry' \in Callers \cup {Absent} /\ (entry \in Callers => entry' \in Callers)
  BY <1>1 DEF KeysInv, KeysTypeOK
<1>4. token <= listed \/ token = Unlisted
  BY DEF BeginKeys, KeysInv, KeysTypeOK, Keysets
<1>5. CASE entry # Absent /\ ~Stale(inst[entry]) /\ Usable(inst[entry])
  <2>1. entry \in Callers /\ entry' \in Callers
    BY <1>1, <1>5 DEF KeysInv, KeysTypeOK
  <2>2. Give(c, token, entry, FALSE)
    BY <1>5 DEF BeginKeys
  <2>3. /\ job' \in [Callers -> Jobs] /\ kpc' \in [Callers -> KeyLabels]
        /\ kpc'[c] \in {"given", "retry"} /\ (kpc'[c] = "retry" => token # 0)
        /\ job'[c].token = token /\ job'[c].answer = Absent
        /\ job'[c].on \in Callers
        /\ Others(c)
    BY <1>1, <2>1, <2>2, GiveIs DEF KeysInv
  <2>4. Held(c)' /\ Asked(c)'
    BY <1>1, <1>4, <2>1, <2>3 DEF Held, Asked, Genuine, mintKeys
  <2> QED BY <1>1, <1>2, <1>3, <2>3, <2>4, CallKeeps
<1>6. CASE ~(entry # Absent /\ ~Stale(inst[entry]) /\ Usable(inst[entry]))
  <2> DEFINE j == Asking(token, entry, FALSE)
             l == IF entry = Absent THEN "create" ELSE "refresh"
  <2>1. kpc' = [kpc EXCEPT ![c] = l] /\ job' = [job EXCEPT ![c] = j]
    BY <1>6 DEF BeginKeys
  <2>2. j \in Jobs /\ l \in KeyLabels /\ l \notin {"retry", "given", "refused"}
        /\ (l = "refresh" => entry \in Callers)
    BY DEF KeysInv, KeysTypeOK, Asking, Jobs, KeyLabels, Awaiting
  <2>3. j.token = token /\ j.on = entry /\ j.answer = Absent
    BY DEF Asking
  <2>4. job' \in [Callers -> Jobs] /\ kpc' \in [Callers -> KeyLabels]
        /\ kpc'[c] = l /\ job'[c] = j /\ Others(c)
    BY <2>1, <2>2 DEF KeysInv, KeysTypeOK, Others
  <2> HIDE DEF j, l
  <2>5. Held(c)' /\ Asked(c)'
    BY <1>1, <1>4, <2>2, <2>3, <2>4 DEF Held, Asked, Genuine, mintKeys
  <2> QED BY <1>1, <1>2, <1>3, <2>4, <2>5, CallKeeps
<1> QED BY <1>5, <1>6

LEMMA RefusalInv ==
  ASSUME KeysInv, NEW c \in Callers, Refuse(c), UNCHANGED <<mintKeys, entry>>,
         inst' \in [Callers -> Instances], \A x \in Callers : Stamped(x)'
  PROVE  KeysInv'
<1>1. /\ job' \in [Callers -> Jobs] /\ kpc' \in [Callers -> KeyLabels]
      /\ kpc'[c] = "refused" /\ job'[c].failed /\ job'[c].answer = Absent
      /\ job'[c].token = job[c].token
      /\ Others(c)
  BY RefuseIs DEF KeysInv
<1>2. Held(c)' /\ Asked(c)'
  BY <1>1 DEF KeysInv, Held, Asked, Genuine, mintKeys
<1> QED BY <1>1, <1>2, CallKeeps DEF KeysInv, KeysTypeOK

LEMMA CreatedInv ==
  ASSUME KeysInv, NEW c \in Callers, Created(c)
  PROVE  KeysInv'
<1> DEFINE a == job[c].answer  l == Loaded(NoInstance, a)
<1>1. PICK k \in a.view.live : inst' = [inst EXCEPT ![c] = [l EXCEPT !.bound = k]]
  BY DEF Created
<1>2. a \in Answers
  BY DEF Created, KeysInv, KeysTypeOK, Jobs
<1>3. l \in Instances /\ l.age = 0 /\ l.seen = a.delay /\ a.delay <= Latency
  BY <1>2, KeysetAssumption DEF Loaded, Instances, Answers, NoInstance
<1>4. k \in 0..MaxKeyset
  BY <1>2, KeysetAssumption DEF Answers, Views, Keysets
<1>5. [l EXCEPT !.bound = k] \in Instances
      /\ [l EXCEPT !.bound = k].age = 0 /\ [l EXCEPT !.bound = k].seen <= Latency
  BY <1>3, <1>4 DEF Instances
<1>6. inst' \in [Callers -> Instances] /\ \A x \in Callers : Stamped(x)'
  BY <1>1, <1>5, KeysetAssumption DEF KeysInv, KeysTypeOK, Stamped
<1>7. entry' = c /\ UNCHANGED mintKeys /\ Give(c, job[c].token, c, FALSE)
  BY DEF Created
<1>8. job[c].token \in 0..Unlisted
  BY DEF KeysInv, KeysTypeOK, Jobs
<1>9. /\ job' \in [Callers -> Jobs] /\ kpc' \in [Callers -> KeyLabels]
      /\ kpc'[c] \in {"given", "retry"} /\ (kpc'[c] = "retry" => job[c].token # 0)
      /\ job'[c].token = job[c].token /\ job'[c].answer = Absent
      /\ job'[c].on \in Callers
      /\ Others(c)
  BY <1>6, <1>7, <1>8, GiveIs DEF KeysInv
<1>10. Held(c)' /\ Asked(c)'
  BY <1>7, <1>9 DEF KeysInv, Held, Asked, Genuine, mintKeys
<1> QED BY <1>6, <1>7, <1>9, <1>10, CallKeeps

\* What a load of a call's instance leaves behind.
LEMMA RefreshIs ==
  ASSUME KeysInv, NEW c \in Callers, kpc[c] \in {"refresh", "retry"},
         Refresh(c, job[c].on)
  PROVE  /\ job[c].on \in Callers /\ entry \in Callers
         /\ job[c].answer \in Answers
         /\ inst' \in [Callers -> Instances] /\ \A x \in Callers : Stamped(x)'
         /\ UNCHANGED <<mintKeys, entry>>
         /\ inst'[job[c].on].view = job[c].answer.view
         /\ inst'[job[c].on].age = 0 /\ inst'[job[c].on].seen <= Latency
         /\ ~Unbindable(inst'[job[c].on]) =>
              inst'[job[c].on].bound \in inst'[job[c].on].view.live
<1> DEFINE o == job[c].on  a == job[c].answer
<1>1. o \in Callers /\ entry \in Callers
  BY DEF KeysInv, Held
<1>2. a \in Answers /\ a.delay \in 0..Latency
  BY DEF Refresh, KeysInv, KeysTypeOK, Jobs, Answers
<1>3. inst[o] \in Instances
  BY <1>1 DEF KeysInv, KeysTypeOK
<1>4. PICK w \in Rebound(Loaded(inst[o], a)) : inst' = [inst EXCEPT ![o] = w]
  BY DEF Refresh
<1>5. /\ w \in Instances
      /\ w.view = a.view /\ w.age = 0 /\ w.seen = a.delay
      /\ ~Unbindable(w) => w.bound \in w.view.live
  BY <1>2, <1>3, <1>4, LoadedIsBound
<1>6. inst'[o] = w /\ inst' \in [Callers -> Instances]
      /\ \A x \in Callers \ {o} : inst'[x] = inst[x]
  BY <1>1, <1>4, <1>5 DEF KeysInv, KeysTypeOK
<1>7. \A x \in Callers : Stamped(x)'
  BY <1>2, <1>5, <1>6, KeysetAssumption DEF KeysInv, Stamped
<1>8. UNCHANGED <<mintKeys, entry>>
  BY DEF Refresh
<1> QED BY <1>1, <1>2, <1>5, <1>6, <1>7, <1>8

LEMMA RefreshedInv ==
  ASSUME KeysInv, NEW c \in Callers, Refreshed(c)
  PROVE  KeysInv'
<1> DEFINE o == job[c].on
<1>1. /\ o \in Callers /\ entry \in Callers /\ UNCHANGED <<mintKeys, entry>>
      /\ inst' \in [Callers -> Instances] /\ \A x \in Callers : Stamped(x)'
  BY RefreshIs DEF Refreshed
<1>2. CASE Unbindable(inst'[o])
  BY <1>1, <1>2, RefusalInv DEF Refreshed
<1>3. CASE ~Unbindable(inst'[o])
  <2>1. Give(c, job[c].token, o, FALSE)
    BY <1>3 DEF Refreshed
  <2>2. job[c].token \in 0..Unlisted
    BY DEF KeysInv, KeysTypeOK, Jobs
  <2>3. /\ job' \in [Callers -> Jobs] /\ kpc' \in [Callers -> KeyLabels]
        /\ kpc'[c] \in {"given", "retry"}
        /\ kpc'[c] = "retry" => job[c].token # 0
        /\ job'[c].token = job[c].token /\ job'[c].answer = Absent
        /\ job'[c].on \in Callers
        /\ Others(c)
    BY <1>1, <2>1, <2>2, GiveIs DEF KeysInv
  <2>4. Held(c)' /\ Asked(c)'
    BY <1>1, <2>3 DEF KeysInv, Held, Asked, Genuine, mintKeys
  <2> QED BY <1>1, <2>3, <2>4, CallKeeps
<1> QED BY <1>2, <1>3

LEMMA RefreshFailInv ==
  ASSUME KeysInv, NEW c \in Callers, RefreshFail(c)
  PROVE  KeysInv'
<1> DEFINE o == job[c].on
<1>1. /\ o \in Callers /\ entry \in Callers /\ UNCHANGED <<mintKeys, entry>>
      /\ inst' \in [Callers -> Instances] /\ \A x \in Callers : Stamped(x)'
  BY DEF RefreshFail, KeysInv, KeysTypeOK, Held, Stamped
<1>2. CASE ~Usable(inst[o])
  BY <1>1, <1>2, RefusalInv DEF RefreshFail
<1>3. CASE Usable(inst[o])
  <2>1. Give(c, job[c].token, o, TRUE)
    BY <1>3 DEF RefreshFail
  <2>2. job[c].token \in 0..Unlisted
    BY DEF KeysInv, KeysTypeOK, Jobs
  <2>3. /\ job' \in [Callers -> Jobs] /\ kpc' \in [Callers -> KeyLabels]
        /\ kpc'[c] \in {"given", "retry"}
        /\ kpc'[c] = "retry" => job[c].token # 0
        /\ job'[c].token = job[c].token /\ job'[c].answer = Absent
        /\ job'[c].on \in Callers
        /\ Others(c)
    BY <1>1, <2>1, <2>2, GiveIs DEF KeysInv
  <2>4. Held(c)' /\ Asked(c)'
    BY <1>1, <2>3 DEF KeysInv, Held, Asked, Genuine, mintKeys
  <2> QED BY <1>1, <2>3, <2>4, CallKeeps
<1> QED BY <1>2, <1>3

LEMMA RetriedInv ==
  ASSUME KeysInv, NEW c \in Callers, Retried(c)
  PROVE  KeysInv'
<1> DEFINE o == job[c].on
<1>1. /\ o \in Callers /\ entry \in Callers /\ UNCHANGED <<mintKeys, entry>>
      /\ inst' \in [Callers -> Instances] /\ \A x \in Callers : Stamped(x)'
      /\ inst'[o].view = job[c].answer.view
  BY RefreshIs DEF Retried
<1>2. CASE Unbindable(inst'[o])
  BY <1>1, <1>2, RefusalInv DEF Retried
<1>3. CASE ~Unbindable(inst'[o])
  <2> DEFINE l == IF Knows(inst'[o], job[c].token) THEN "given" ELSE "refused"
             j == Answered(job[c], Absent)
  <2>1. kpc' = [kpc EXCEPT ![c] = l] /\ job' = [job EXCEPT ![c] = j]
    BY <1>3 DEF Retried
  <2>2. j \in Jobs /\ j.token = job[c].token /\ j.on = o /\ j.answer = Absent
    BY DEF KeysInv, KeysTypeOK, Jobs, Answered
  <2>3. l \in {"given", "refused"} /\ l \in KeyLabels
    BY DEF KeyLabels
  <2>4. l = "refused" => job[c].token = Unlisted
    <3>1. Genuine(c, job[c].answer.view.known)
      BY DEF KeysInv, Asked, Retried, Refresh
    <3> QED BY <1>1, <3>1 DEF Genuine, Knows
  <2>5. job' \in [Callers -> Jobs] /\ kpc' \in [Callers -> KeyLabels]
        /\ kpc'[c] = l /\ job'[c] = j /\ Others(c)
    BY <2>1, <2>2, <2>3 DEF KeysInv, KeysTypeOK, Others
  <2> HIDE DEF j, l
  <2>6. Held(c)' /\ Asked(c)'
    BY <1>1, <2>2, <2>3, <2>4, <2>5 DEF KeysInv, Held, Asked, Genuine, mintKeys
  <2> QED BY <1>1, <2>5, <2>6, CallKeeps
<1> QED BY <1>2, <1>3

LEMMA EndInv ==
  ASSUME KeysInv, NEW c \in Callers, EndKeys(c)
  PROVE  KeysInv'
<1>1. NoInstance \in Instances /\ NoInstance.seen = 0 /\ NoInstance.age = 0
  BY KeysetAssumption DEF NoInstance, Instances, Views
<1>2. inst' \in [Callers -> Instances] /\ \A x \in Callers : Stamped(x)'
  BY <1>1, KeysetAssumption DEF EndKeys, KeysInv, KeysTypeOK, Stamped
<1>3. NoJob \in Jobs /\ NoJob.token = 0 /\ NoJob.answer = Absent
  BY KeysetAssumption DEF NoJob, Jobs, Unlisted
<1>4. kpc' = [kpc EXCEPT ![c] = "idle"] /\ job' = [job EXCEPT ![c] = NoJob]
      /\ UNCHANGED <<mintKeys, entry>>
  BY DEF EndKeys
<1>5. job' \in [Callers -> Jobs] /\ kpc' \in [Callers -> KeyLabels]
      /\ kpc'[c] = "idle" /\ job'[c] = NoJob /\ Others(c)
  BY <1>3, <1>4 DEF KeysInv, KeysTypeOK, KeyLabels, Others
<1>6. Held(c)' /\ Asked(c)'
  BY <1>3, <1>4, <1>5 DEF KeysInv, KeysTypeOK, Keysets, Held, Asked, Genuine, mintKeys
<1> QED BY <1>2, <1>4, <1>5, <1>6, CallKeeps DEF KeysInv, KeysTypeOK

LEMMA GivesInv ==
  ASSUME KeysInv, NEW c \in Callers, MintGives(c)
  PROVE  KeysInv'
<1> DEFINE a == [view |-> [known |-> listed, live |-> active], delay |-> 0]
           j == Answered(job[c], a)
<1>1. a \in Answers /\ a.view.known = listed
  BY KeysetAssumption DEF Answers, Views, KeysInv, KeysTypeOK, Keysets
<1>2. /\ j \in Jobs /\ j.token = job[c].token /\ j.on = job[c].on
      /\ j.answer = a /\ j.failed = job[c].failed
  BY <1>1 DEF KeysInv, KeysTypeOK, Jobs, Answered
<1>3. job' = [job EXCEPT ![c] = j] /\ UNCHANGED <<mintKeys, entry, inst, kpc>>
  BY DEF MintGives
<1> HIDE DEF j, a
<1>4. job' \in [Callers -> Jobs] /\ kpc' \in [Callers -> KeyLabels]
      /\ job'[c] = j /\ Others(c)
  BY <1>2, <1>3 DEF KeysInv, KeysTypeOK, Others
<1>5. Held(c)' /\ Asked(c)'
  BY <1>1, <1>2, <1>3, <1>4 DEF KeysInv, Held, Asked, Genuine, mintKeys
<1>6. inst' \in [Callers -> Instances] /\ \A x \in Callers : Stamped(x)'
  BY <1>3 DEF KeysInv, KeysTypeOK, Stamped
<1> QED BY <1>3, <1>4, <1>5, <1>6, CallKeeps DEF KeysInv, KeysTypeOK

LEMMA RotateInv == KeysInv /\ Rotate => KeysInv'
<1> SUFFICES ASSUME KeysInv, Rotate PROVE KeysInv'
  OBVIOUS
<1>1. listed' \in Keysets /\ active' \subseteq Keysets /\ listed <= listed'
  BY KeysetAssumption DEF Rotate, KeysInv, KeysTypeOK, Keysets
<1>2. UNCHANGED <<past, entry, inst, kpc, job>>
  BY DEF Rotate
<1>3. KeysTypeOK'
  BY <1>1, <1>2 DEF KeysInv, KeysTypeOK
<1>4. ASSUME NEW c \in Callers PROVE Held(c)' /\ Stamped(c)' /\ Asked(c)'
  BY <1>1, <1>2 DEF KeysInv, KeysTypeOK, Keysets, Jobs, Unlisted, Held, Stamped,
     Asked, Genuine
<1> QED BY <1>3, <1>4 DEF KeysInv

LEMMA ExpireInv ==
  ASSUME KeysInv, NEW k \in Keysets, ExpireKeyset(k)
  PROVE  KeysInv'
<1>1. active' \subseteq Keysets /\ past' \subseteq Keysets
  BY DEF ExpireKeyset, KeysInv, KeysTypeOK
<1>2. UNCHANGED <<listed, entry, inst, kpc, job>>
  BY DEF ExpireKeyset
<1>3. KeysTypeOK'
  BY <1>1, <1>2 DEF KeysInv, KeysTypeOK
<1>4. ASSUME NEW c \in Callers PROVE Held(c)' /\ Stamped(c)' /\ Asked(c)'
  BY <1>2 DEF KeysInv, Held, Stamped, Asked, Genuine
<1> QED BY <1>3, <1>4 DEF KeysInv

\* Time changes ages only.
LEMMA TickIs ==
  ASSUME KeysInv, KeysTick, NEW c \in Callers
  PROVE  /\ inst'[c] \in Instances /\ inst'[c].view = inst[c].view /\ Stamped(c)'
         /\ job'[c] \in Jobs
         /\ job'[c].token = job[c].token /\ job'[c].on = job[c].on
         /\ job'[c].failed = job[c].failed
         /\ job'[c].answer # Absent =>
              job[c].answer # Absent /\ job'[c].answer.view = job[c].answer.view
<1>1. inst'[c] \in Instances /\ inst'[c].view = inst[c].view /\ Stamped(c)'
  <2>1. inst[c] \in Instances
    BY DEF KeysInv, KeysTypeOK
  <2>2. CASE inst[c] = NoInstance
    BY <2>1, <2>2 DEF KeysTick, KeysInv, Stamped
  <2>3. CASE inst[c] # NoInstance
    <3>1. inst'[c] = [bound |-> inst[c].bound, view |-> inst[c].view,
                      age  |-> Upto(inst[c].age, KeysetTtl + 1),
                      seen |-> Upto(inst[c].seen, KeysetTtl + Latency + 1)]
      BY <2>3 DEF KeysTick
    <3>2. inst[c].seen <= inst[c].age + Latency
      BY DEF KeysInv, Stamped
    <3>3. /\ Upto(inst[c].age, KeysetTtl + 1) \in 0..KeysetTtl + 1
          /\ Upto(inst[c].seen, KeysetTtl + Latency + 1) \in 0..KeysetTtl + Latency + 1
          /\ Upto(inst[c].seen, KeysetTtl + Latency + 1)
               <= Upto(inst[c].age, KeysetTtl + 1) + Latency
      BY <2>1, <3>2, KeysetAssumption DEF Instances, Upto
    <3> QED BY <2>1, <3>1, <3>3 DEF Instances, Stamped
  <2> QED BY <2>2, <2>3
<1>2. /\ job'[c] \in Jobs
      /\ job'[c].token = job[c].token /\ job'[c].on = job[c].on
      /\ job'[c].failed = job[c].failed
      /\ job'[c].answer # Absent =>
           job[c].answer # Absent /\ job'[c].answer.view = job[c].answer.view
  <2>1. job[c] \in Jobs
    BY DEF KeysInv, KeysTypeOK
  <2>2. CASE job[c].answer = Absent
    BY <2>1, <2>2 DEF KeysTick
  <2>3. CASE job[c].answer # Absent
    <3> DEFINE a == [view |-> job[c].answer.view, delay |-> job[c].answer.delay + 1]
    <3>1. job[c].answer \in Answers /\ job[c].answer.delay < Latency
      BY <2>1, <2>3 DEF KeysTick, Jobs
    <3>2. a \in Answers /\ a.view = job[c].answer.view
      BY <3>1, KeysetAssumption DEF Answers
    <3>3. job'[c] = Answered(job[c], a)
      BY <2>3 DEF KeysTick
    <3> HIDE DEF a
    <3>4. job'[c] = [token |-> job[c].token, on |-> job[c].on, answer |-> a,
                     failed |-> job[c].failed]
      BY <3>3 DEF Answered
    <3> QED BY <2>1, <2>3, <3>2, <3>4 DEF Jobs
  <2> QED BY <2>2, <2>3
<1> QED BY <1>1, <1>2

LEMMA TickInv == KeysInv /\ KeysTick => KeysInv'
<1> SUFFICES ASSUME KeysInv, KeysTick PROVE KeysInv'
  OBVIOUS
<1>3. UNCHANGED <<mintKeys, entry, kpc>>
  BY DEF KeysTick
<1>4. inst' \in [Callers -> Instances] /\ job' \in [Callers -> Jobs]
  BY TickIs DEF KeysTick
<1>5. KeysTypeOK'
  BY <1>3, <1>4 DEF KeysInv, KeysTypeOK, mintKeys
<1>6. ASSUME NEW c \in Callers PROVE Held(c)' /\ Asked(c)'
  BY <1>3, TickIs DEF KeysInv, Held, Asked, Genuine, mintKeys
<1>7. \A c \in Callers : Stamped(c)'
  BY TickIs
<1> QED BY <1>5, <1>6, <1>7 DEF KeysInv

LEMMA KeysStutter == KeysInv /\ UNCHANGED keysVars => KeysInv'
  BY DEF KeysInv, KeysTypeOK, Held, Stamped, Asked, Genuine, keysVars, mintKeys

LEMMA KeysStepInv == KeysInv /\ [KeysNext]_keysVars => KeysInv'
<1> SUFFICES ASSUME KeysInv, [KeysNext]_keysVars PROVE KeysInv'
  OBVIOUS
<1>1. ASSUME NEW c \in Callers, CreateFail(c) PROVE KeysInv'
  BY <1>1, RefusalInv DEF CreateFail, KeysInv, KeysTypeOK, Stamped
<1>2. ASSUME NEW c \in Callers, RetryFail(c) PROVE KeysInv'
  BY <1>2, RefusalInv DEF RetryFail, KeysInv, KeysTypeOK, Stamped
<1> QED
  BY <1>1, <1>2, BeginInv, CreatedInv, RefreshedInv, RefreshFailInv, RetriedInv,
     EndInv, GivesInv, RotateInv, ExpireInv, TickInv, KeysStutter
  DEF KeysNext, KeysStep, AnswerKeys

-----------------------------------------------------------------------------
(* What is handed out                                                      *)

\* The two sides of the action properties, at one step.
UsableNow(c) ==
    /\ Handed(c).bound \in Handed(c).view.live
    /\ Handed(c).bound \notin past \/ Handed(c).age = 0
RecentNow(c) == Handed(c).seen <= KeysetTtl + Latency \/ job'[c].failed

LEMMA HandedStep ==
  ASSUME KeysInv, [KeysNext]_keysVars, NEW c \in Callers, HandsOut(c)
  PROVE  UsableNow(c) /\ RecentNow(c)
<1>1. ASSUME NEW token \in 0..Unlisted, BeginKeys(c, token)
      PROVE  UsableNow(c) /\ RecentNow(c)
  <2>1. entry # Absent /\ ~Stale(inst[entry]) /\ Usable(inst[entry])
    BY <1>1 DEF BeginKeys, HandsOut, KeysInv, KeysTypeOK
  <2>2. entry \in Callers /\ Give(c, token, entry, FALSE)
        /\ UNCHANGED <<entry, inst>>
    BY <1>1, <2>1 DEF BeginKeys, KeysInv, KeysTypeOK
  <2>3. entry' \in Callers /\ inst' \in [Callers -> Instances]
    BY <2>2 DEF KeysInv, KeysTypeOK
  <2>4. job'[c].on = entry
    BY <2>2 DEF HandsOut, Give, Asking, KeysInv, KeysTypeOK
  <2>5. Handed(c) = inst[entry]
    BY <2>2, <2>4 DEF Handed
  <2>6. inst[entry].age <= KeysetTtl /\ inst[entry].seen <= inst[entry].age + Latency
    BY <2>1, <2>2, KeysetAssumption DEF Stale, KeysInv, KeysTypeOK, Stamped, Instances
  <2> QED
    BY <2>1, <2>2, <2>5, <2>6, KeysetAssumption
    DEF UsableNow, RecentNow, Usable, KeysInv, KeysTypeOK, Instances
<1>2. CASE Created(c)
  <2> DEFINE a == job[c].answer  l == Loaded(NoInstance, a)
  <2>1. PICK k \in a.view.live : inst' = [inst EXCEPT ![c] = [l EXCEPT !.bound = k]]
    BY <1>2 DEF Created
  <2>2. a \in Answers /\ a.delay \in 0..Latency
    BY <1>2 DEF Created, KeysInv, KeysTypeOK, Jobs, Answers
  <2>3. inst'[c] = [l EXCEPT !.bound = k]
    BY <2>1 DEF KeysInv, KeysTypeOK
  <2>4. inst'[c].bound = k /\ inst'[c].view = a.view /\ inst'[c].age = 0
        /\ inst'[c].seen = a.delay
    BY <2>3 DEF Loaded
  <2>5. job'[c].on = c
    <3>1. KeysInv'
      BY <1>2, CreatedInv
    <3>2. Give(c, job[c].token, c, FALSE) /\ job[c].token \in 0..Unlisted /\ entry' = c
      BY <1>2 DEF Created, KeysInv, KeysTypeOK, Jobs
    <3>3. entry' \in Callers /\ inst' \in [Callers -> Instances] /\ KeysTypeOK
      BY <3>1, <3>2 DEF KeysInv, KeysTypeOK
    <3>4. job'[c].token = job[c].token /\ (job[c].token = 0 => job'[c].on = c)
      BY <3>2, <3>3 DEF Give, Asking, KeysTypeOK
    <3> QED BY <3>4 DEF HandsOut
  <2> QED
    BY <2>2, <2>4, <2>5, KeysetAssumption DEF UsableNow, RecentNow, Handed
<1>3. CASE Refreshed(c)
  <2> DEFINE o == job[c].on
  <2>1. /\ o \in Callers /\ entry \in Callers /\ UNCHANGED <<mintKeys, entry>>
        /\ inst' \in [Callers -> Instances]
        /\ inst'[o].age = 0 /\ inst'[o].seen <= Latency
        /\ ~Unbindable(inst'[o]) => inst'[o].bound \in inst'[o].view.live
    BY <1>3, RefreshIs DEF Refreshed
  <2>2. ~Unbindable(inst'[o])
    BY <1>3, RefuseIs DEF Refreshed, HandsOut, KeysInv
  <2>3. Give(c, job[c].token, o, FALSE) /\ job[c].token \in 0..Unlisted
    BY <1>3, <2>2 DEF Refreshed, KeysInv, KeysTypeOK, Jobs
  <2>4. job'[c].on = o
    <3>1. entry' \in Callers /\ KeysTypeOK
      BY <2>1 DEF KeysInv
    <3>2. job'[c].token = job[c].token /\ (job[c].token = 0 => job'[c].on = o)
      BY <2>3, <3>1 DEF Give, Asking, KeysTypeOK
    <3> QED BY <3>2 DEF HandsOut
  <2>5. inst'[o].seen <= KeysetTtl + Latency
    BY <2>1, KeysetAssumption DEF Instances
  <2> QED BY <2>1, <2>2, <2>4, <2>5 DEF UsableNow, RecentNow, Handed
<1>4. CASE RefreshFail(c)
  <2> DEFINE o == job[c].on
  <2>1. o \in Callers /\ entry \in Callers /\ UNCHANGED <<mintKeys, entry, inst>>
    BY <1>4 DEF RefreshFail, KeysInv, Held
  <2>2. Usable(inst[o])
    BY <1>4, RefuseIs DEF RefreshFail, HandsOut, KeysInv
  <2>3. Give(c, job[c].token, o, TRUE) /\ job[c].token \in 0..Unlisted
    BY <1>4, <2>2 DEF RefreshFail, KeysInv, KeysTypeOK, Jobs
  <2>4. job'[c].on = o /\ job'[c].failed
    BY <2>3 DEF HandsOut, Give, Asking, KeysInv, KeysTypeOK
  <2> QED BY <2>1, <2>2, <2>4 DEF UsableNow, RecentNow, Handed, Usable, mintKeys
<1>5. ~Retried(c)
  BY DEF Retried, Refuse, Asking, Answered, HandsOut, KeysInv, KeysTypeOK, Held, Jobs
<1>6. ~CreateFail(c) /\ ~RetryFail(c)
  BY RefuseIs DEF CreateFail, RetryFail, HandsOut, KeysInv
<1>7. ASSUME NEW d \in Callers, d # c,
             AnswerKeys(d) \/ MintGives(d) \/ EndKeys(d)
               \/ \E token \in 0..Unlisted : BeginKeys(d, token)
      PROVE  kpc'[c] = kpc[c]
  BY <1>7 DEF AnswerKeys, MintGives, EndKeys, BeginKeys, Created, CreateFail,
     Refreshed, RefreshFail, Retried, RetryFail, Refuse, Give, KeysInv, KeysTypeOK
<1>8. ~MintGives(c) /\ ~EndKeys(c)
  BY DEF MintGives, EndKeys, HandsOut, KeysInv, KeysTypeOK
<1>9. ~Rotate /\ ~KeysTick /\ ~(UNCHANGED keysVars) /\ ~\E k \in Keysets : ExpireKeyset(k)
  BY DEF Rotate, KeysTick, ExpireKeyset, HandsOut, keysVars
<1> QED
  BY <1>1, <1>2, <1>3, <1>4, <1>5, <1>6, <1>7, <1>8, <1>9
  DEF KeysNext, KeysStep, AnswerKeys, HandsOut

-----------------------------------------------------------------------------
(* The theorems                                                            *)

LEMMA KeysInvariant == KeysSpec => []KeysInv
<1>1. KeysInv /\ [KeysNext]_keysVars => KeysInv'
  BY KeysStepInv
<1> QED BY KeysInitInv, <1>1, PTL DEF KeysSpec

\* The cache's state keeps its type.
THEOREM KeysTypesCorrect == KeysSpec => []KeysTypeOK
<1>1. KeysInv => KeysTypeOK
  BY DEF KeysInv
<1> QED BY <1>1, KeysInvariant, PTL

\* A stale cache never refuses a token whose keyset the mint has listed.
THEOREM RefusalsHaveCause == KeysSpec => []RefusedForCause
<1>1. KeysInv => RefusedForCause
  BY DEF KeysInv, Asked, RefusedForCause
<1> QED BY <1>1, KeysInvariant, PTL

\* A wallet that is handed out is bound to a keyset it can make outputs with.
THEOREM HandedUsable == KeysSpec => HandedIsUsable
<1>1. KeysInv /\ [KeysNext]_keysVars =>
        [\A c \in Callers : HandsOut(c) =>
           /\ Handed(c).bound \in Handed(c).view.live
           /\ Handed(c).bound \notin past \/ Handed(c).age = 0]_keysVars
  BY HandedStep DEF UsableNow
<1> QED BY <1>1, KeysInvariant, PTL DEF KeysSpec, HandedIsUsable

\* However loads overlap, a wallet that is handed out is as recent as the stamp
\* says, up to one answer under way.
THEOREM HandedRecent == KeysSpec => HandedIsRecent
<1>1. KeysInv /\ [KeysNext]_keysVars =>
        [\A c \in Callers : HandsOut(c) =>
           Handed(c).seen <= KeysetTtl + Latency \/ job'[c].failed]_keysVars
  BY HandedStep DEF RecentNow
<1> QED BY <1>1, KeysInvariant, PTL DEF KeysSpec, HandedIsRecent
=============================================================================
