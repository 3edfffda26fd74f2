---------------------------- MODULE IngressProofs ----------------------------
(***************************************************************************)
(* Theorems about Ingress, for every set of uploads and hot frames and all  *)
(* limits of the retry map, the collector and the queue.                    *)
(***************************************************************************)
EXTENDS Ingress, SequenceFacts

USE IngressAssumption
-----------------------------------------------------------------------------
(* Inductive invariants *)

\* What the main thread holds, and the limits that Put and BackOff rely on.
Holding ==
    /\ pc \in {"reject_scan", "reject_due", "pop", "pop_first"} => held \in Uploads
    /\ pc \in {"pop", "pop_first"} => due # <<>>
    /\ pc \in {"put", "report"} => held \in Burst
    /\ pc = "put" /\ ~held.full => Len(queue) < MaxPending

\* The retry map has one entry per path.
OneEntry == \A i, j \in DOMAIN retry : retry[i].file = retry[j].file => i = j

\* No path is in the collector twice: a hot frame enters it once.
Distinct ==
    /\ IsInjective(pending)
    /\ \A f \in HotFrames : disk[f] = "absent" => f \notin ToSet(pending)

TypeInv == TypeOK /\ OneEntry /\ Holding /\ Distinct

Live == InHand \cup Queued \cup Taken
Ended == {"report_stop", "join", "left"}
Increasing(s) == \A i, j \in 1 .. Len(s) : i < j => s[i].id < s[j].id

\* How far the stop has come.
Stopping ==
    /\ IF pc \in Ended THEN queue \in {<<Sentinel>>, <<>>} ELSE Sentinel \notin ToSet(queue)
    /\ Sentinel \notin ToSet(dropped)
    /\ processing.ended => pc \in Ended /\ queue = <<>> /\ processing.taken = NoBurst
    /\ pc \notin {"drain", "report_stop", "left"} => dropped = <<>>
    /\ shut => pc = "left" /\ processing.ended /\ dropped = <<>>
    /\ pc = "left" /\ ~shut => fate["unreported"] # {}

\* Bursts are numbered in the order in which they were emitted, and the queue keeps it.
Ordered ==
    /\ Increasing(queue) /\ Increasing(dropped)
    /\ \A b \in ToSet(dropped), c \in ToSet(queue) : c # Sentinel => b.id < c.id
    /\ pc = "put" => \A b \in ToSet(queue) : b.id < held.id
    /\ pc = "report" => \A b \in ToSet(queue) : held.id < b.id
    /\ FreshestKept

\* A burst is in one place or has met one fate.
Apart ==
    /\ \A x, y \in Fates : \A id \in fate[x] : id \in fate[y] => x = y
    /\ \A x \in Fates : \A b \in Live : b.id \notin fate[x]
    /\ \A b \in InHand : \A c \in Queued \cup Taken : b.id # c.id
    /\ \A b \in Taken : \A c \in Queued : b.id # c.id

\* The numbers given out, and nothing else, are in use.
Numbered ==
    /\ \A b \in Live : b.id \in 1 .. emitted
    /\ \A x \in Fates : fate[x] \subseteq 1 .. emitted
    /\ pc = "put" => held.id = emitted
    /\ \A id \in 1 .. emitted : (\E x \in Fates : id \in fate[x]) \/ (\E b \in Live : b.id = id)

Account == Stopping /\ Ordered /\ Apart /\ Numbered

\* How often a file was collected bounds the places it is in; a hot frame is in one.
Again(f) == f \in Uploads /\ given[f] > 1
Placed ==
    /\ \A f \in Uploads : f \in ToSet(pending) => given[f] >= 1
    /\ \A b \in Live : \A f \in b.paths : /\ f \in Uploads => given[f] >= 1
                                          /\ f \in ToSet(pending) => Again(f)
    /\ \A b, c \in Live : b.id # c.id => \A f \in b.paths : f \in c.paths => Again(f)
    /\ \A f \in HotFrames : disk[f] = "absent" => \A b \in Live : f \notin b.paths

\* Bursts that wait for the processor or are in its hands.
Waits == Queued \cup Taken \cup {c \in InHand : pc = "put"}
Same(b, c) == b.id = c.id /\ b.paths = c.paths /\ b.first = c.first /\ b.trigger = c.trigger

\* The upload that opened a burst stays in front while it is there once.
Opened ==
    /\ pc \in {"pop", "pop_first"} => pending # <<>>
    /\ pending # <<>> => /\ trigger \in Uploads /\ given[trigger] >= 1
                         /\ trigger = Head(pending) \/ Again(trigger) \/ trigger \notin ToSet(pending)
    /\ \A b \in Live : b.trigger \in b.paths => b.first = b.trigger \/ Again(b.trigger)

FileInv == Placed /\ Opened /\ UploadHeld
-----------------------------------------------------------------------------
(* The retry map *)

Entry == [file : Uploads, attempts : 0 .. MaxAttempts]
OneFile(s) == \A i, j \in 1 .. Len(s) : s[i].file = s[j].file => i = j

\* Where a waiting path is, and how often it was tried.
LEMMA Places ==
    ASSUME TypeInv, NEW f \in Uploads
    PROVE  /\ f \in Waiting => At(f) \in 1 .. Len(retry) /\ retry[At(f)].file = f
           /\ Attempts(f) \in 0 .. MaxAttempts
           /\ DOMAIN retry = 1 .. Len(retry) /\ retry \in Seq(Entry) /\ OneFile(retry)
<1>1. DOMAIN retry = 1 .. Len(retry) /\ retry \in Seq(Entry)
  BY LenProperties DEF TypeInv, TypeOK, Entry
<1>2. OneFile(retry)
  BY <1>1 DEF TypeInv, OneEntry, OneFile
<1>3. f \in Waiting => At(f) \in 1 .. Len(retry) /\ retry[At(f)].file = f
  BY <1>1 DEF Waiting, At
<1>4. \A i \in 1 .. Len(retry) : retry[i] \in Entry
  BY <1>1
<1>5. Attempts(f) \in 0 .. MaxAttempts
  BY <1>3, <1>4 DEF Attempts, Entry
<1>6. QED
  BY <1>1, <1>2, <1>3, <1>5

\* Taking a path out of the map.
LEMMA WithoutFacts ==
    ASSUME TypeInv, NEW f \in Uploads
    PROVE  /\ Without(f) \in Seq(Entry) /\ Len(Without(f)) <= Len(retry) /\ OneFile(Without(f))
           /\ \A i \in 1 .. Len(Without(f)) : Without(f)[i].file # f
<1>1. /\ retry \in Seq(Entry) /\ OneFile(retry) /\ DOMAIN retry = 1 .. Len(retry)
      /\ Len(retry) \in Nat
  BY Places
<1>2. CASE f \notin Waiting
  <2>1. Without(f) = retry
    BY <1>2 DEF Without
  <2>2. \A i \in 1 .. Len(retry) : retry[i].file # f
    BY <1>1, <1>2 DEF Waiting
  <2>3. QED
    BY <1>1, <2>1, <2>2
<1>3. CASE f \in Waiting
  <2>1. PICK p \in 1 .. Len(retry) : p = At(f) /\ retry[p].file = f
    BY <1>3, Places
  <2>2. PICK r \in Seq(Entry) :
           /\ r = RemoveAt(retry, p) /\ Len(r) = Len(retry) - 1
           /\ \A i \in 1 .. Len(retry) - 1 : r[i] = IF i < p THEN retry[i] ELSE retry[i + 1]
    <3>1. /\ RemoveAt(retry, p) \in Seq(Entry) /\ Len(RemoveAt(retry, p)) = Len(retry) - 1
          /\ \A i \in 1 .. Len(retry) - 1 :
                RemoveAt(retry, p)[i] = IF i < p THEN retry[i] ELSE retry[i + 1]
      BY <1>1, RemoveAtElements
    <3>2. QED
      BY <3>1
  <2>3. Without(f) = r
    BY <1>3, <2>1, <2>2 DEF Without
  <2>4. OneFile(r) /\ \A i \in 1 .. Len(r) : r[i].file # f
    <3>1. \A i, j \in 1 .. Len(retry) : retry[i].file = retry[j].file => i = j
      BY <1>1 DEF OneFile
    <3>2. ASSUME NEW i \in 1 .. Len(r), NEW j \in 1 .. Len(r), r[i].file = r[j].file PROVE i = j
      <4>1. PICK a \in 1 .. Len(retry) : a = IF i < p THEN i ELSE i + 1
        BY <1>1, <2>2
      <4>2. PICK b \in 1 .. Len(retry) : b = IF j < p THEN j ELSE j + 1
        BY <1>1, <2>2
      <4>3. r[i] = retry[a] /\ r[j] = retry[b]
        BY <1>1, <2>2, <4>1, <4>2
      <4>4. a = b
        BY <3>1, <3>2, <4>3
      <4>5. QED
        BY <1>1, <2>2, <4>1, <4>2, <4>4
    <3>3. ASSUME NEW i \in 1 .. Len(r) PROVE r[i].file # f
      <4>1. PICK a \in 1 .. Len(retry) : a = IF i < p THEN i ELSE i + 1
        BY <1>1, <2>2
      <4>2. r[i] = retry[a] /\ a # p
        BY <1>1, <2>2, <4>1
      <4>3. QED
        BY <2>1, <3>1, <4>2
    <3>4. QED
      BY <3>2, <3>3 DEF OneFile
  <2>5. Len(r) <= Len(retry)
    BY <1>1, <2>2
  <2>6. QED
    BY <2>2, <2>3, <2>4, <2>5
<1>4. QED
  BY <1>2, <1>3

\* schedule_candidate keeps one entry per path and the limit.
LEMMA ScheduledFacts ==
    ASSUME TypeInv, NEW f \in Uploads
    PROVE  /\ Scheduled(f) \in Seq(Entry) /\ Len(Scheduled(f)) <= MaxRetry
           /\ OneFile(Scheduled(f)) /\ Evicted(f) \in Uploads \cup {NoFile}
<1>1. PICK w \in Seq(Entry) : /\ w = Without(f) /\ Len(w) <= Len(retry) /\ OneFile(w)
                              /\ \A i \in 1 .. Len(w) : w[i].file # f
  BY WithoutFacts
<1>2. PICK e \in Entry : e = [file |-> f, attempts |-> Attempts(f)]
  BY Places DEF Entry
<1>3. PICK m \in Seq(Entry) : /\ m = Append(w, e) /\ Len(m) = Len(w) + 1 /\ Len(w) \in Nat
                              /\ \A i \in 1 .. Len(w) : m[i] = w[i]
                              /\ m[Len(w) + 1] = e
  <2>1. /\ Append(w, e) \in Seq(Entry) /\ Len(Append(w, e)) = Len(w) + 1 /\ Len(w) \in Nat
        /\ \A i \in 1 .. Len(w) : Append(w, e)[i] = w[i]
        /\ Append(w, e)[Len(w) + 1] = e
    BY AppendElements
  <2>2. QED
    BY <2>1
<1>4. Len(retry) \in Nat /\ Len(retry) <= MaxRetry /\ MaxRetry \in Nat \ {0}
  BY Places DEF TypeInv, TypeOK
<1>5. OneFile(m)
  BY <1>1, <1>2, <1>3 DEF OneFile
<1>6. /\ Scheduled(f) = IF Len(m) > MaxRetry THEN Tail(m) ELSE m
      /\ Evicted(f) = IF Len(m) > MaxRetry THEN Head(m).file ELSE NoFile
  BY <1>1, <1>2, <1>3 DEF Scheduled, Evicted
<1>7. CASE Len(m) > MaxRetry
  <2>1. m # <<>>
    BY <1>4, <1>7
  <2>2. PICK t \in Seq(Entry) :
           /\ t = Tail(m) /\ Len(t) = Len(m) - 1 /\ Head(m) \in Entry
           /\ \A i \in 1 .. Len(m) - 1 : t[i] = m[i + 1] /\ i + 1 \in 1 .. Len(m)
    <3>1. /\ Tail(m) \in Seq(Entry) /\ Len(Tail(m)) = Len(m) - 1 /\ Head(m) \in Entry
          /\ \A i \in 1 .. Len(m) - 1 : Tail(m)[i] = m[i + 1] /\ i + 1 \in 1 .. Len(m)
      BY <2>1, TailElements
    <3>2. QED
      BY <3>1
  <2>3. OneFile(t)
    <3>1. ASSUME NEW i \in 1 .. Len(t), NEW j \in 1 .. Len(t), t[i].file = t[j].file PROVE i = j
      <4>1. i \in 1 .. Len(m) - 1 /\ j \in 1 .. Len(m) - 1
        BY <2>2
      <4>2. /\ t[i] = m[i + 1] /\ i + 1 \in 1 .. Len(m)
            /\ t[j] = m[j + 1] /\ j + 1 \in 1 .. Len(m)
        BY <2>2, <4>1
      <4>3. i + 1 = j + 1
        BY <1>5, <3>1, <4>2 DEF OneFile
      <4>4. QED
        BY <4>3
    <3>2. QED
      BY <3>1 DEF OneFile
  <2>4. Len(t) <= MaxRetry
    BY <1>1, <1>3, <1>4, <2>2
  <2>5. Head(m).file \in Uploads
    BY <2>2 DEF Entry
  <2>6. QED
    BY <1>6, <1>7, <2>2, <2>3, <2>4, <2>5
<1>8. CASE ~(Len(m) > MaxRetry)
  <2>1. Len(m) <= MaxRetry
    BY <1>3, <1>4, <1>8
  <2>2. QED
    BY <1>3, <1>5, <1>6, <1>8, <2>1
<1>9. QED
  BY <1>7, <1>8
-----------------------------------------------------------------------------
(* Types *)

\* What a sequence of bursts or paths loses or gains stays of its type.
LEMMA SeqTypes ==
    ASSUME NEW S, NEW s \in Seq(S)
    PROVE  /\ Len(s) \in Nat
           /\ \A e \in S : Append(s, e) \in Seq(S) /\ Len(Append(s, e)) = Len(s) + 1
           /\ s # <<>> => /\ Head(s) \in S /\ Tail(s) \in Seq(S) /\ Len(Tail(s)) = Len(s) - 1
                          /\ Len(s) > 0
  BY TailElements, AppendElements

\* BurstCollector.add keeps the limit; what was in front stays there or goes.
LEMMA AddedFacts ==
    ASSUME NEW f \in Files, pending \in Seq(Files), IsInjective(pending),
           Len(pending) <= MaxCandidates
    PROVE  /\ Added(f) \in Seq(Files) /\ Len(Added(f)) <= MaxCandidates
           /\ IsInjective(Added(f)) /\ ToSet(Added(f)) \subseteq ToSet(pending) \cup {f}
           /\ Added(f) # <<>>
           /\ pending = <<>> => Head(Added(f)) = f
           /\ pending # <<>> /\ f # Head(pending) =>
                 Head(Added(f)) = Head(pending) \/ Head(pending) \notin ToSet(Added(f))
<1>1. PICK r \in Seq(Files) :
         /\ r = RemoveFirst(pending, f) /\ Len(r) <= Len(pending)
         /\ ToSet(r) = ToSet(pending) \ {f} /\ IsInjective(r)
         /\ pending # <<>> /\ f # Head(pending) => r # <<>> /\ Head(r) = Head(pending)
  <2>1. /\ RemoveFirst(pending, f) \in Seq(Files) /\ Len(RemoveFirst(pending, f)) <= Len(pending)
        /\ ToSet(RemoveFirst(pending, f)) = ToSet(pending) \ {f}
        /\ IsInjective(RemoveFirst(pending, f))
        /\ pending # <<>> /\ f # Head(pending) =>
              RemoveFirst(pending, f) # <<>> /\ Head(RemoveFirst(pending, f)) = Head(pending)
    BY RemoveFirstElements
  <2>2. QED
    BY <2>1
<1>2. PICK m \in Seq(Files) :
         /\ m = Append(r, f) /\ Len(m) = Len(r) + 1 /\ Len(r) \in Nat
         /\ \A i \in 1 .. Len(r) : m[i] = r[i]
         /\ m[Len(r) + 1] = f /\ ToSet(m) = ToSet(r) \cup {f} /\ IsInjective(m)
  <2>1. /\ Append(r, f) \in Seq(Files) /\ Len(Append(r, f)) = Len(r) + 1 /\ Len(r) \in Nat
        /\ \A i \in 1 .. Len(r) : Append(r, f)[i] = r[i]
        /\ Append(r, f)[Len(r) + 1] = f /\ ToSet(Append(r, f)) = ToSet(r) \cup {f}
    BY AppendElements
  <2>2. IsInjective(Append(r, f))
    BY <1>1, StillDistinct
  <2>3. QED
    BY <2>1, <2>2
<1>3. Added(f) = IF Len(m) > MaxCandidates THEN Tail(m) ELSE m
  BY <1>1, <1>2 DEF Added
<1>4. Len(pending) \in Nat /\ MaxCandidates \in Nat \ {0} /\ m # <<>> /\ Head(m) = m[1]
  BY <1>2, SeqTypes
<1>5. PICK t \in Seq(Files) :
         /\ t = Tail(m) /\ Len(t) = Len(m) - 1 /\ ToSet(m) = {Head(m)} \cup ToSet(t)
         /\ IsInjective(t) /\ Head(m) \notin ToSet(t)
  <2>1. /\ Tail(m) \in Seq(Files) /\ Len(Tail(m)) = Len(m) - 1
        /\ ToSet(m) = {Head(m)} \cup ToSet(Tail(m))
    BY <1>4, TailElements
  <2>2. IsInjective(Tail(m)) /\ Head(m) \notin ToSet(Tail(m))
    BY <1>2, <1>4, StillDistinct
  <2>3. QED
    BY <2>1, <2>2
<1>6. ToSet(m) \subseteq ToSet(pending) \cup {f}
  BY <1>1, <1>2
<1>7. ASSUME pending # <<>>, f # Head(pending) PROVE Head(m) = Head(pending)
  <2>1. r # <<>> /\ Head(r) = Head(pending)
    BY <1>1, <1>7
  <2>2. Head(r) = r[1] /\ Len(r) > 0
    BY <2>1, SeqTypes
  <2>3. QED
    BY <1>2, <1>4, <2>1, <2>2
<1>8. ASSUME pending = <<>> PROVE Head(m) = f /\ Len(m) = 1
  <2>1. Len(pending) = 0
    BY <1>8
  <2>2. Len(r) = 0
    BY <1>1, <1>2, <2>1
  <2>3. QED
    BY <1>2, <1>4, <2>2
<1>9. CASE Len(m) > MaxCandidates
  <2>1. Added(f) = t /\ Len(t) > 0 /\ Len(t) <= MaxCandidates
    BY <1>1, <1>2, <1>3, <1>4, <1>5, <1>9
  <2>2. pending # <<>>
    <3>1. ASSUME pending = <<>> PROVE FALSE
      <4>1. Len(m) = 1
        BY <1>8, <3>1
      <4>2. QED
        BY <1>4, <1>9, <4>1
    <3>2. QED
      BY <3>1
  <2>3. t # <<>>
    BY <2>1
  <2>4. QED
    BY <1>5, <1>6, <1>7, <2>1, <2>2, <2>3
<1>10. CASE ~(Len(m) > MaxCandidates)
  <2>1. Added(f) = m /\ Len(m) <= MaxCandidates
    BY <1>2, <1>3, <1>4, <1>10
  <2>2. QED
    BY <1>2, <1>4, <1>6, <1>7, <1>8, <2>1
<1>11. QED
  BY <1>9, <1>10

\* SetToSeq lists a finite set without repetition.
LEMMA SetToSeqFacts ==
    ASSUME NEW S, IsFiniteSet(S)
    PROVE  /\ SetToSeq(S) \in Seq(S) /\ Len(SetToSeq(S)) = Cardinality(S) /\ Cardinality(S) \in Nat
           /\ IsInjective(SetToSeq(S)) /\ ToSet(SetToSeq(S)) \subseteq S
<1>1. Cardinality(S) \in Nat
  BY FS_CardinalityType
<1>2. \E b \in [1 .. Cardinality(S) -> S] : IsInjective(b)
  <2>1. \E b : b \in Bijection(1 .. Cardinality(S), S)
    BY FS_CardinalityType, FS_NatBijection DEF ExistsBijection
  <2>2. QED
    BY <2>1 DEF Bijection, Injection, IsInjective
<1>3. PICK q : /\ q = SetToSeq(S) /\ q \in [1 .. Cardinality(S) -> S] /\ IsInjective(q)
  BY <1>2 DEF SetToSeq
<1>4. q \in Seq(S) /\ Len(q) = Cardinality(S)
  BY <1>1, <1>3
<1>5. ToSet(q) \subseteq S
  BY <1>4, InToSet
<1>6. QED
  BY <1>1, <1>3, <1>4, <1>5

\* A file that is not there yet was not there before.
LEMMA RemovedFacts ==
    ASSUME TypeOK, NEW S
    PROVE  /\ Removed(S) \in [Files -> {"absent", "partial", "complete", "removed"}]
           /\ \A f \in Files : Removed(S)[f] = "absent" => disk[f] = "absent"
           /\ \A f \in Files : f \notin S => Removed(S)[f] = disk[f]
<1>1. \A f \in Files : disk[f] \in {"absent", "partial", "complete", "removed"}
  BY DEF TypeOK
<1>2. \A f \in Files : Removed(S)[f] = IF f \in S /\ OnDisk(f) THEN "removed" ELSE disk[f]
  BY DEF Removed
<1>3. QED
  BY <1>1, <1>2 DEF Removed

\* The first layer holds when run_worker starts: nothing is queued, collected or held.
LEMMA TypeInit == Init => TypeInv
<1> SUFFICES ASSUME Init PROVE TypeInv
  OBVIOUS
<1>1. TypeOK
  <2>1. Idle \in [taken : Burst, ended : BOOLEAN]
    BY DEF Idle, NoBurst, Sentinel, Burst
  <2>2. [x \in Fates |-> {}] \in [Fates -> SUBSET Nat]
    OBVIOUS
  <2>3. \A S : <<>> \in Seq(S) /\ Len(<<>>) = 0
    OBVIOUS
  <2>4. disk \in [Files -> {"absent", "partial", "complete", "removed"}]
    BY DEF Init
  <2>5. observer \in [alive : BOOLEAN, file : Uploads \cup {NoFile}]
    BY DEF Init
  <2>6. given \in [Uploads -> 0 .. 2]
    BY DEF Init
  <2>7. /\ notices \in Seq(Uploads) /\ due \in Seq(Uploads) /\ pending \in Seq(Files)
        /\ retry \in Seq([file : Uploads, attempts : 0 .. MaxAttempts])
        /\ queue \in Seq(Burst) /\ dropped \in Seq(Burst)
    BY <2>3 DEF Init
  <2>8. Len(retry) <= MaxRetry /\ Len(pending) <= MaxCandidates /\ Len(queue) <= MaxPending
    BY <2>3 DEF Init
  <2>9. processing \in [taken : Burst, ended : BOOLEAN] /\ fate \in [Fates -> SUBSET Nat]
    BY <2>1, <2>2 DEF Init
  <2>10. QED
    BY <2>4, <2>5, <2>6, <2>7, <2>8, <2>9 DEF Init, TypeOK
<1>2. ToSet(<<>>) = {} /\ IsInjective(<<>>)
  BY DEF ToSet, IsInjective
<1>3. QED
  BY <1>1, <1>2 DEF Init, TypeInv, OneEntry, Holding, Distinct

\* Every step keeps the types, the limits, one entry per path and one place per candidate.
LEMMA TypeStep == TypeInv /\ [Next]_vars => TypeInv'
<1> SUFFICES ASSUME TypeInv, [Next]_vars PROVE TypeInv'
  OBVIOUS
<1> USE DEF untouched, worker, history, collector, mainRest
<1>t. TypeOK /\ OneEntry /\ Holding /\ Distinct
  BY DEF TypeInv
<1>f. Uploads \subseteq Files /\ HotFrames \subseteq Files /\ NoFile \notin Files
  BY DEF Files
<1>q. ASSUME UNCHANGED <<retry, due, pending, trigger, queue, dropped, held, pc>> PROVE
         /\ OneEntry' /\ Holding'
  BY <1>t, <1>q DEF OneEntry, Holding
<1>1. ASSUME NEW f \in Uploads, BeginUpload(f) PROVE TypeInv'
  <2>1. TypeOK'
    <3>1. Append(notices, f) \in Seq(Uploads)
      BY <1>t, SeqTypes DEF TypeOK
    <3>2. toScan' \subseteq Uploads
      BY <1>1, <1>t DEF BeginUpload, TypeOK
    <3>3. QED
      BY <1>1, <1>t, <1>f, <3>1, <3>2 DEF BeginUpload, TypeOK
  <2>2. Distinct'
    BY <1>1, <1>t, <1>f DEF BeginUpload, Distinct, TypeOK
  <2>3. QED
    BY <1>1, <1>q, <2>1, <2>2 DEF BeginUpload, TypeInv
<1>2. ASSUME NEW f \in Uploads, FinishUpload(f) PROVE TypeInv'
  <2>1. TypeOK'
    <3>1. Append(notices, f) \in Seq(Uploads)
      BY <1>t, SeqTypes DEF TypeOK
    <3>2. QED
      BY <1>2, <1>t, <1>f, <3>1 DEF FinishUpload, TypeOK
  <2>2. Distinct'
    BY <1>2, <1>t, <1>f DEF FinishUpload, Distinct, TypeOK
  <2>3. QED
    BY <1>2, <1>q, <2>1, <2>2 DEF FinishUpload, TypeInv
<1>3. CASE Observe
  <2>1. Head(notices) \in Uploads /\ Tail(notices) \in Seq(Uploads)
    BY <1>3, <1>t, SeqTypes DEF Observe, TypeOK
  <2>2. /\ retry' \in Seq(Entry) /\ Len(retry') <= MaxRetry
        /\ OneFile(retry') /\ Evicted(Head(notices)) \in Uploads \cup {NoFile}
    BY <1>3, <2>1, ScheduledFacts DEF Observe
  <2>3. TypeOK'
    <3>1. observer' \in [alive : BOOLEAN, file : Uploads \cup {NoFile}]
      BY <1>3, <1>t, <2>2 DEF Observe, TypeOK
    <3>2. notices' \in Seq(Uploads) /\ UNCHANGED <<disk, queue, processing, stop, worker, history>>
      BY <1>3, <2>1 DEF Observe
    <3>3. QED
      BY <1>t, <2>2, <3>1, <3>2 DEF worker, history, TypeOK, Entry
  <2>4. OneEntry'
    BY <2>2, LenProperties DEF OneEntry, OneFile
  <2>5. QED
    BY <1>3, <1>t, <2>3, <2>4 DEF Observe, TypeInv, Holding, Distinct
<1>4. CASE ObserverRejects
  <2>1. observer.file \in Uploads
    BY <1>4, <1>t DEF ObserverRejects, TypeOK
  <2>2. TypeOK'
    <3>1. observer' \in [alive : BOOLEAN, file : Uploads \cup {NoFile}]
      <4>1. [alive |-> TRUE, file |-> NoFile] \in [alive : BOOLEAN, file : Uploads \cup {NoFile}]
        OBVIOUS
      <4>2. [alive |-> FALSE, file |-> NoFile] \in [alive : BOOLEAN, file : Uploads \cup {NoFile}]
        OBVIOUS
      <4>3. QED
        BY <1>4, <4>1, <4>2 DEF ObserverRejects
    <3>2. disk' \in [Files -> {"absent", "partial", "complete", "removed"}]
      BY <1>4, <1>t, RemovedFacts DEF ObserverRejects
    <3>3. QED
      BY <1>4, <1>t, <2>1, <3>1, <3>2 DEF ObserverRejects, TypeOK
  <2>3. Distinct'
    BY <1>4, <1>t, <1>f, RemovedFacts DEF ObserverRejects, Distinct
  <2>4. QED
    BY <1>4, <1>q, <2>2, <2>3 DEF ObserverRejects, TypeInv
<1>5. CASE MainRejects
  <2>1. held \in Uploads
    BY <1>5, <1>t DEF MainRejects, Holding
  <2>2. TypeOK'
    BY <1>5, <1>t, <2>1, RemovedFacts DEF MainRejects, TypeOK
  <2>3. Distinct'
    BY <1>5, <1>t, <1>f, RemovedFacts DEF MainRejects, Distinct
  <2>4. QED
    BY <1>5, <1>t, <2>2, <2>3 DEF MainRejects, TypeInv, OneEntry, Holding
<1>6. CASE LeaveLoop
  BY <1>6, <1>t DEF LeaveLoop, TypeInv, TypeOK, OneEntry, Holding, Distinct
<1>7. CASE Scan
  <2>0. UNCHANGED <<disk, notices, observer, queue, processing, stop, due, pending, trigger,
                    dropped, shut, history>>
    BY <1>7 DEF Scan
  <2>1. CASE toScan = {} /\ pc' = "retry" /\ UNCHANGED <<retry, held, toScan>>
    BY <1>t, <2>0, <2>1 DEF TypeInv, TypeOK, OneEntry, Holding, Distinct
  <2>2. ASSUME NEW f \in toScan, toScan' = toScan \ {f},
               pc' = "reject_scan" /\ held' = f /\ UNCHANGED retry
        PROVE  TypeInv'
    BY <1>t, <2>0, <2>2 DEF TypeInv, TypeOK, OneEntry, Holding, Distinct
  <2>3. ASSUME NEW f \in toScan, toScan' = toScan \ {f}, retry' = Scheduled(f), held' = Evicted(f),
               pc' = IF Evicted(f) = NoFile THEN "retry" ELSE "reject_scan"
        PROVE  TypeInv'
    <3>1. f \in Uploads
      BY <1>t DEF TypeOK
    <3>2. /\ retry' \in Seq(Entry) /\ Len(retry') <= MaxRetry
          /\ OneFile(retry') /\ Evicted(f) \in Uploads \cup {NoFile}
      BY <2>3, <3>1, ScheduledFacts
    <3>3. TypeOK'
      BY <1>t, <2>0, <2>3, <3>2 DEF TypeOK, Entry
    <3>4. OneEntry'
      BY <3>2, LenProperties DEF OneEntry, OneFile
    <3>5. QED
      BY <1>t, <2>0, <2>3, <3>2, <3>3, <3>4 DEF TypeInv, Holding, Distinct
  <2>4. QED
    BY <1>7, <2>1, <2>2, <2>3 DEF Scan
<1>8. CASE TakeSnapshot
  <2>1. due' \in Seq(Uploads)
    <3>1. PICK n \in 0 .. Len(retry) : \E awake \in [1 .. n -> DOMAIN retry] :
             due' = [k \in 1 .. n |-> retry[awake[k]].file]
      BY <1>8 DEF TakeSnapshot
    <3>2. \A i \in DOMAIN retry : retry[i].file \in Uploads
      <4>1. retry \in Seq(Entry)
        BY <1>t DEF TypeOK, Entry
      <4>2. \A i \in DOMAIN retry : retry[i] \in Entry
        BY <4>1
      <4>3. QED
        BY <4>2 DEF Entry
    <3>3. n \in Nat
      BY <1>t, SeqTypes DEF TypeOK
    <3>4. due' \in [1 .. n -> Uploads]
      BY <3>1, <3>2
    <3>5. QED
      BY <3>3, <3>4
  <2>2. QED
    BY <1>8, <1>t, <2>1 DEF TakeSnapshot, TypeInv, TypeOK, OneEntry, Holding, Distinct
<1>9. CASE SkipDue
  <2>1. due' \in Seq(Uploads)
    <3>1. due # <<>> => Tail(due) \in Seq(Uploads)
      BY <1>t, SeqTypes DEF TypeOK
    <3>2. QED
      BY <1>9, <1>t, <3>1 DEF SkipDue, TypeOK
  <2>2. QED
    BY <1>9, <1>t, <2>1 DEF SkipDue, TypeInv, TypeOK, OneEntry, Holding, Distinct
<1>10. CASE Expire
  <2>1. Head(due) \in Uploads /\ Tail(due) \in Seq(Uploads)
    BY <1>10, <1>t, SeqTypes DEF Expire, TypeOK
  <2>2. retry' \in Seq(Entry) /\ Len(retry') <= Len(retry) /\ OneFile(retry')
    BY <1>10, <2>1, WithoutFacts DEF Expire
  <2>3. Len(retry') <= MaxRetry
    BY <1>t, <2>2, SeqTypes DEF TypeOK
  <2>4. OneEntry'
    BY <2>2, LenProperties DEF OneEntry, OneFile
  <2>5. TypeOK'
    BY <1>10, <1>t, <2>1, <2>2, <2>3 DEF Expire, TypeOK, Entry
  <2>6. QED
    BY <1>10, <1>t, <2>1, <2>4, <2>5 DEF Expire, TypeInv, Holding, Distinct
<1>11. CASE BackOff
  <2>1. Head(due) \in Uploads /\ Tail(due) \in Seq(Uploads)
    BY <1>11, <1>t, SeqTypes DEF BackOff, TypeOK
  <2>2. PICK f \in Uploads : f = Head(due)
    BY <2>1
  <2>3. /\ At(f) \in 1 .. Len(retry) /\ retry[At(f)].file = f
        /\ retry[At(f)].attempts < MaxAttempts
        /\ retry \in Seq(Entry) /\ OneFile(retry) /\ DOMAIN retry = 1 .. Len(retry)
    BY <1>11, <2>2, Places DEF BackOff, Attempts
  <2>4. \A i \in 1 .. Len(retry) : /\ retry[i] \in Entry
                                   /\ retry[i].file = f => retry[i].attempts < MaxAttempts
    BY <2>3 DEF OneFile
  <2>5. retry' = [i \in 1 .. Len(retry) |->
                    IF retry[i].file = f THEN [retry[i] EXCEPT !.attempts = @ + 1] ELSE retry[i]]
    BY <1>11, <2>2, <2>3 DEF BackOff
  <2>6. ASSUME NEW i \in 1 .. Len(retry)
        PROVE  retry'[i] \in Entry /\ retry'[i].file = retry[i].file
    <3>1. retry[i] \in Entry /\ (retry[i].file = f => retry[i].attempts < MaxAttempts)
      BY <2>4
    <3>2. retry[i].file = f => [retry[i] EXCEPT !.attempts = @ + 1] \in Entry
      BY <3>1 DEF Entry
    <3>3. [retry[i] EXCEPT !.attempts = @ + 1].file = retry[i].file
      BY <3>1 DEF Entry
    <3>4. QED
      BY <2>5, <3>1, <3>2, <3>3
  <2>7. retry' \in [1 .. Len(retry) -> Entry] /\ Len(retry) \in Nat
    BY <2>3, <2>5, <2>6
  <2>8. retry' \in Seq(Entry) /\ Len(retry') = Len(retry) /\ DOMAIN retry' = 1 .. Len(retry)
    BY <2>7
  <2>9. OneEntry'
    BY <2>3, <2>6, <2>8 DEF OneEntry, OneFile
  <2>10. TypeOK'
    BY <1>11, <1>t, <2>1, <2>8 DEF BackOff, TypeOK, Entry
  <2>11. QED
    BY <1>11, <1>t, <2>9, <2>10 DEF BackOff, TypeInv, Holding, Distinct
<1>12. CASE Collect
  <2>1. PICK f \in Uploads : f = Head(due)
    BY <1>12, <1>t, SeqTypes DEF Collect, TypeOK
  <2>2. /\ pending' \in Seq(Files) /\ Len(pending') <= MaxCandidates
        /\ IsInjective(pending') /\ ToSet(pending') \subseteq ToSet(pending) \cup {f}
    <3>1. pending' = Added(f)
      BY <1>12, <2>1 DEF Collect
    <3>2. /\ Added(f) \in Seq(Files) /\ Len(Added(f)) <= MaxCandidates
          /\ IsInjective(Added(f)) /\ ToSet(Added(f)) \subseteq ToSet(pending) \cup {f}
      BY <1>t, <1>f, AddedFacts DEF TypeOK, Distinct
    <3>3. QED
      BY <3>1, <3>2
  <2>3. PICK S : disk' = Removed(S)
    BY <1>12 DEF Collect
  <2>4. Distinct'
    BY <1>t, <1>f, <2>2, <2>3, RemovedFacts DEF Distinct
  <2>5. given' \in [Uploads -> 0 .. 2]
    BY <1>12, <1>t, <2>1 DEF Collect, TypeOK
  <2>6. TypeOK'
    BY <1>12, <1>t, <1>f, <2>1, <2>2, <2>3, <2>5, RemovedFacts, SMTT(20) DEF Collect, TypeOK
  <2>7. OneEntry' /\ Holding'
    BY <1>12, <1>t, <2>1 DEF Collect, OneEntry, Holding
  <2>8. QED
    BY <2>4, <2>6, <2>7 DEF TypeInv
<1>13. CASE Pop
  <2>1. held \in Uploads /\ Tail(due) \in Seq(Uploads)
    BY <1>13, <1>t, SeqTypes DEF Pop, Holding, TypeOK
  <2>2. retry' \in Seq(Entry) /\ Len(retry') <= Len(retry) /\ OneFile(retry')
    BY <1>13, <2>1, WithoutFacts DEF Pop
  <2>3. Len(retry') <= MaxRetry
    BY <1>t, <2>2, SeqTypes DEF TypeOK
  <2>4. OneEntry'
    BY <2>2, LenProperties DEF OneEntry, OneFile
  <2>5. PICK frames \in SUBSET {h \in HotFrames : disk[h] = "absent"} :
           /\ Cardinality(frames) <= MaxCandidates - Len(pending)
           /\ pending' = pending \o SetToSeq(frames)
           /\ disk' = [f \in Files |-> IF f \in frames THEN "complete" ELSE disk[f]]
    BY <1>13 DEF Pop
  <2>6. IsFiniteSet(frames) /\ frames \subseteq Files
    BY <1>f, FS_Subset DEF Files
  <2>7. PICK l \in Seq(Files) : /\ l = SetToSeq(frames) /\ Len(l) = Cardinality(frames)
                                /\ Cardinality(frames) \in Nat
                                /\ IsInjective(l) /\ ToSet(l) \subseteq frames
    <3>1. /\ SetToSeq(frames) \in Seq(frames) /\ Len(SetToSeq(frames)) = Cardinality(frames)
          /\ Cardinality(frames) \in Nat
          /\ IsInjective(SetToSeq(frames)) /\ ToSet(SetToSeq(frames)) \subseteq frames
      BY <2>6, SetToSeqFacts
    <3>2. SetToSeq(frames) \in Seq(Files)
      BY <2>6, <3>1
    <3>3. QED
      BY <3>1, <3>2
  <2>8. /\ pending' \in Seq(Files) /\ Len(pending') = Len(pending) + Cardinality(frames)
        /\ IsInjective(pending') /\ ToSet(pending') = ToSet(pending) \cup ToSet(l)
    <3>1. ToSet(pending) \cap ToSet(l) = {}
      BY <1>t, <2>5, <2>7 DEF Distinct
    <3>2. PICK s \in Seq(Files) : s = pending
      BY <1>t DEF TypeOK
    <3>3. /\ s \o l \in Seq(Files) /\ Len(s \o l) = Len(s) + Len(l)
          /\ IsInjective(s \o l) /\ ToSet(s \o l) = ToSet(s) \cup ToSet(l)
      BY <1>t, <2>7, <3>1, <3>2, JoinElements DEF Distinct
    <3>4. QED
      BY <2>5, <2>7, <3>2, <3>3
  <2>9. Len(pending') <= MaxCandidates
    BY <1>t, <2>5, <2>7, <2>8, SeqTypes DEF TypeOK
  <2>10. /\ disk' \in [Files -> {"absent", "partial", "complete", "removed"}]
         /\ \A f \in HotFrames : disk'[f] = "absent" => disk[f] = "absent" /\ f \notin frames
    BY <1>t, <1>f, <2>5 DEF TypeOK
  <2>11. Distinct'
    BY <1>t, <2>7, <2>8, <2>10 DEF Distinct
  <2>12. TypeOK'
    BY <1>13, <1>t, <2>1, <2>2, <2>3, <2>8, <2>9, <2>10 DEF Pop, TypeOK, Entry
  <2>13. QED
    BY <1>13, <1>t, <2>4, <2>11, <2>12 DEF Pop, TypeInv, Holding
<1>14. CASE NotDue
  BY <1>14, <1>t DEF NotDue, TypeInv, TypeOK, OneEntry, Holding, Distinct
<1>15. CASE Flush
  <2>0. /\ pc = "flush" /\ pending' = <<>> /\ trigger' = NoFile /\ pending # <<>>
        /\ UNCHANGED <<notices, untouched, due, mainRest, fate, rejected, given>>
    BY <1>15 DEF Flush
  <2>1. PICK ranked \in SUBSET {f \in ToSet(pending) : disk[f] = "complete"} :
           /\ disk' = Removed(ToSet(pending) \ ranked)
           /\ \/ ranked = {} /\ pc' = "scan" /\ UNCHANGED <<held, emitted>>
              \/ \E first \in First(ranked) :
                    /\ held' = [id |-> emitted + 1, first |-> first, paths |-> ranked,
                                trigger |-> trigger, full |-> Len(queue) = MaxPending]
                    /\ emitted' = emitted + 1 /\ pc' = "put"
    BY <1>15 DEF Flush
  <2>2. ranked \subseteq Files
    BY <1>t, <2>1, InToSet DEF TypeOK
  <2>3. disk' \in [Files -> {"absent", "partial", "complete", "removed"}]
    BY <1>t, <2>1, RemovedFacts
  <2>4. ToSet(<<>>) = {} /\ IsInjective(<<>>) /\ <<>> \in Seq(Files) /\ Len(<<>>) = 0
    BY DEF ToSet, IsInjective
  <2>5. Distinct'
    BY <2>0, <2>4 DEF Distinct
  <2>6. OneEntry'
    BY <1>t, <2>0 DEF OneEntry
  <2>7. CASE ranked = {} /\ pc' = "scan" /\ UNCHANGED <<held, emitted>>
    <3>1. TypeOK'
      BY <1>t, <2>0, <2>3, <2>4, <2>7 DEF TypeOK
    <3>2. QED
      BY <2>5, <2>6, <2>7, <3>1 DEF TypeInv, Holding
  <2>8. ASSUME NEW first \in First(ranked),
               held' = [id |-> emitted + 1, first |-> first, paths |-> ranked,
                        trigger |-> trigger, full |-> Len(queue) = MaxPending],
               emitted' = emitted + 1 /\ pc' = "put"
        PROVE  TypeInv'
    <3>1. first \in Files
      BY <2>2 DEF First
    <3>2. held' \in Burst /\ held'.full = (Len(queue) = MaxPending)
      BY <1>t, <2>2, <2>8, <3>1 DEF TypeOK, Burst
    <3>3. TypeOK'
      BY <1>t, <2>0, <2>3, <2>4, <2>8, <3>2 DEF TypeOK
    <3>4. ~held'.full => Len(queue) < MaxPending
      <4>1. Len(queue) \in Nat /\ Len(queue) <= MaxPending /\ MaxPending \in Nat
        BY <1>t, SeqTypes DEF TypeOK
      <4>2. ~held'.full => Len(queue) # MaxPending
        BY <3>2
      <4>3. QED
        BY <4>1, <4>2
    <3>5. QED
      BY <2>0, <2>5, <2>6, <2>8, <3>2, <3>3, <3>4 DEF TypeInv, Holding
  <2>9. QED
    BY <2>1, <2>7, <2>8
<1>16. CASE Put
  <2>0. /\ pc = "put" /\ held \in Burst /\ (~held.full => Len(queue) < MaxPending)
        /\ UNCHANGED <<disk, notices, observer, retry, processing, stop, due, collector, mainRest,
                       history>>
    BY <1>16, <1>t DEF Put, Holding
  <2>1. PICK b \in Burst : b = [held EXCEPT !.full = FALSE]
    BY <2>0 DEF Burst
  <2>2. CASE held.full /\ queue # <<>>
    <3>1. /\ queue' = Append(Tail(queue), b) /\ held' = Head(queue) /\ pc' = "report"
      BY <1>16, <2>1, <2>2 DEF Put
    <3>2. /\ Head(queue) \in Burst /\ Tail(queue) \in Seq(Burst) /\ Len(queue) \in Nat
          /\ Len(Tail(queue)) = Len(queue) - 1
      BY <1>t, <2>2, SeqTypes DEF TypeOK
    <3>3. Append(Tail(queue), b) \in Seq(Burst) /\ Len(Append(Tail(queue), b)) = Len(queue)
      <4>1. PICK t \in Seq(Burst) : t = Tail(queue)
        BY <3>2
      <4>2. Append(t, b) \in Seq(Burst) /\ Len(Append(t, b)) = Len(t) + 1
        BY SeqTypes
      <4>3. QED
        BY <3>2, <4>1, <4>2
    <3>4. TypeOK'
      BY <1>t, <2>0, <3>1, <3>2, <3>3 DEF TypeOK
    <3>5. QED
      BY <1>t, <2>0, <3>1, <3>2, <3>4 DEF TypeInv, OneEntry, Holding, Distinct
  <2>3. CASE ~(held.full /\ queue # <<>>)
    <3>1. /\ queue' = Append(queue, b) /\ held' = NoFile /\ pc' = "scan"
      BY <1>16, <2>1, <2>3 DEF Put
    <3>2. Append(queue, b) \in Seq(Burst) /\ Len(Append(queue, b)) = Len(queue) + 1
      BY <1>t, SeqTypes DEF TypeOK
    <3>3. Len(queue) < MaxPending
      <4>1. CASE queue = <<>>
        BY <4>1
      <4>2. CASE queue # <<>>
        BY <2>0, <2>3, <4>2
      <4>3. QED
        BY <4>1, <4>2
    <3>4. Len(queue') <= MaxPending
      BY <1>t, <3>1, <3>2, <3>3, SeqTypes DEF TypeOK
    <3>5. TypeOK'
      BY <1>t, <2>0, <3>1, <3>2, <3>4 DEF TypeOK
    <3>6. QED
      BY <1>t, <2>0, <3>1, <3>5 DEF TypeInv, OneEntry, Holding, Distinct
  <2>4. QED
    BY <2>2, <2>3
<1>17. CASE ReportCoalesced
  <2>1. held \in Burst /\ held.id \in Nat
    BY <1>17, <1>t DEF ReportCoalesced, Holding, Burst
  <2>2. fate' \in [Fates -> SUBSET Nat]
    BY <1>17, <1>t, <2>1 DEF ReportCoalesced, TypeOK, Fates
  <2>3. TypeOK'
    BY <1>17, <1>t, <2>2, RemovedFacts DEF ReportCoalesced, TypeOK
  <2>4. Distinct'
    BY <1>17, <1>t, <1>f, RemovedFacts DEF ReportCoalesced, Distinct
  <2>5. QED
    BY <1>17, <1>t, <2>3, <2>4 DEF ReportCoalesced, TypeInv, OneEntry, Holding
<1>18. CASE BeginStop
  BY <1>18, <1>t DEF BeginStop, TypeInv, TypeOK, OneEntry, Holding, Distinct
<1>19. CASE Drain
  <2>1. /\ queue' \in Seq(Burst) /\ Len(queue') <= MaxPending /\ dropped' \in Seq(Burst)
    <3>1. CASE queue # <<>> /\ queue' = Tail(queue) /\ dropped' = Append(dropped, Head(queue))
      <4>1. PICK b \in Burst : b = Head(queue)
        BY <1>t, <3>1, SeqTypes DEF TypeOK
      <4>2. Append(dropped, b) \in Seq(Burst)
        BY <1>t, SeqTypes DEF TypeOK
      <4>3. /\ Tail(queue) \in Seq(Burst) /\ Len(Tail(queue)) = Len(queue) - 1
            /\ Len(queue) \in Nat
        BY <1>t, <3>1, SeqTypes DEF TypeOK
      <4>4. QED
        BY <1>t, <3>1, <4>1, <4>2, <4>3 DEF TypeOK
    <3>2. CASE queue' = <<Sentinel>> /\ UNCHANGED dropped
      <4>1. Sentinel \in Burst
        BY DEF Sentinel, Burst
      <4>2. QED
        BY <1>t, <3>2, <4>1 DEF TypeOK
    <3>3. QED
      BY <1>19, <3>1, <3>2 DEF Drain
  <2>2. pc' \in {"drain", "report_stop"}
    BY <1>19 DEF Drain
  <2>3. TypeOK'
    BY <1>19, <1>t, <2>1, <2>2 DEF Drain, TypeOK
  <2>4. QED
    BY <1>19, <1>t, <2>2, <2>3 DEF Drain, TypeInv, OneEntry, Holding, Distinct
<1>20. CASE ReportStopped
  <2>1. CASE dropped = <<>> /\ pc' = "join" /\ UNCHANGED <<disk, fate, dropped>>
    BY <1>20, <1>t, <2>1 DEF ReportStopped, TypeInv, TypeOK, OneEntry, Holding, Distinct
  <2>2. CASE /\ dropped # <<>> /\ dropped' = Tail(dropped)
             /\ disk' = Removed(Head(dropped).paths)
             /\ \/ fate' = [fate EXCEPT !["stopped"] = @ \cup {Head(dropped).id}] /\ UNCHANGED pc
                \/ fate' = [fate EXCEPT !["unreported"] = @ \cup {Head(dropped).id}] /\ pc' = "left"
    <3>1. Head(dropped) \in Burst /\ Tail(dropped) \in Seq(Burst)
      BY <1>t, <2>2, SeqTypes DEF TypeOK
    <3>2. Head(dropped).id \in Nat
      BY <3>1 DEF Burst
    <3>3. fate' \in [Fates -> SUBSET Nat]
      BY <1>t, <2>2, <3>2 DEF TypeOK, Fates
    <3>4. pc' \in {"report_stop", "left"}
      BY <1>20, <2>2 DEF ReportStopped
    <3>5. TypeOK'
      BY <1>20, <1>t, <2>2, <3>1, <3>3, <3>4, RemovedFacts DEF ReportStopped, TypeOK
    <3>6. Distinct'
      BY <1>20, <1>t, <1>f, <2>2, RemovedFacts DEF ReportStopped, Distinct
    <3>7. QED
      BY <1>20, <1>t, <3>4, <3>5, <3>6 DEF ReportStopped, TypeInv, OneEntry, Holding
  <2>3. QED
    BY <1>20, <2>1, <2>2 DEF ReportStopped
<1>21. CASE Join
  BY <1>21, <1>t DEF Join, TypeInv, TypeOK, OneEntry, Holding, Distinct
<1>22. CASE Take
  <2>1. /\ Head(queue) \in Burst /\ Tail(queue) \in Seq(Burst) /\ Len(queue) \in Nat
        /\ Len(Tail(queue)) = Len(queue) - 1
    BY <1>22, <1>t, SeqTypes DEF Take, TypeOK
  <2>2. processing' \in [taken : Burst, ended : BOOLEAN]
    BY <1>22, <1>t, <2>1 DEF Take, TypeOK
  <2>3. Len(queue') <= MaxPending /\ Len(queue') <= Len(queue)
    BY <1>22, <1>t, <2>1 DEF Take, TypeOK
  <2>4. TypeOK'
    BY <1>22, <1>t, <2>1, <2>2, <2>3 DEF Take, TypeOK
  <2>5. Holding'
    BY <1>22, <1>t, <2>1 DEF Take, Holding
  <2>6. QED
    BY <1>22, <1>t, <2>4, <2>5 DEF Take, TypeInv, OneEntry, Distinct
<1>23. CASE Process
  <2>1. processing.taken.id \in Nat /\ NoBurst \in Burst
    BY <1>t DEF TypeOK, Burst, NoBurst, Sentinel
  <2>2. fate' \in [Fates -> SUBSET Nat]
    BY <1>23, <1>t, <2>1 DEF Process, TypeOK, Fates
  <2>3. processing' \in [taken : Burst, ended : BOOLEAN]
    BY <1>23, <1>t, <2>1 DEF Process, TypeOK
  <2>4. TypeOK'
    BY <1>23, <1>t, <2>2, <2>3, RemovedFacts DEF Process, TypeOK
  <2>5. Distinct'
    BY <1>23, <1>t, <1>f, RemovedFacts DEF Process, Distinct
  <2>6. QED
    BY <1>23, <1>q, <2>4, <2>5 DEF Process, TypeInv
<1>24. CASE RequestStop
  BY <1>24, <1>t DEF RequestStop, TypeInv, TypeOK, OneEntry, Holding, Distinct
<1>25. CASE UNCHANGED vars
  BY <1>25, <1>t DEF vars, TypeInv, TypeOK, OneEntry, Holding, Distinct
<1>26. QED
  BY <1>1, <1>2, <1>3, <1>4, <1>5, <1>6, <1>7, <1>8, <1>9, <1>10, <1>11, <1>12, <1>13, <1>14,
     <1>15, <1>16, <1>17, <1>18, <1>19, <1>20, <1>21, <1>22, <1>23, <1>24, <1>25
     DEF Next, MainStep, ObserverStep, ProcessorStep
-----------------------------------------------------------------------------
(* Bursts *)

\* What is behind the head of a queue is younger.
LEMMA IncreasingTail ==
    ASSUME NEW s \in Seq(Burst), s # <<>>, Increasing(s)
    PROVE  Increasing(Tail(s)) /\ \A b \in ToSet(Tail(s)) : Head(s).id < b.id
<1>1. PICK t \in Seq(Burst) : /\ t = Tail(s) /\ Len(t) = Len(s) - 1 /\ Len(s) \in Nat \ {0}
                              /\ \A i \in 1 .. Len(s) - 1 : t[i] = s[i + 1] /\ i + 1 \in 1 .. Len(s)
                              /\ Head(s) = s[1]
  <2>1. /\ Tail(s) \in Seq(Burst) /\ Len(Tail(s)) = Len(s) - 1 /\ Len(s) \in Nat \ {0}
        /\ \A i \in 1 .. Len(s) - 1 : Tail(s)[i] = s[i + 1] /\ i + 1 \in 1 .. Len(s)
        /\ Head(s) = s[1]
    BY TailElements
  <2>2. QED
    BY <2>1
<1>2. Increasing(t)
  <2>1. ASSUME NEW i \in 1 .. Len(t), NEW j \in 1 .. Len(t), i < j PROVE t[i].id < t[j].id
    <3>1. i \in 1 .. Len(s) - 1 /\ j \in 1 .. Len(s) - 1 /\ i + 1 < j + 1
      BY <1>1, <2>1
    <3>2. QED
      BY <1>1, <3>1 DEF Increasing
  <2>2. QED
    BY <2>1 DEF Increasing
<1>3. ASSUME NEW b \in ToSet(t) PROVE Head(s).id < b.id
  <2>1. PICK i \in 1 .. Len(t) : t[i] = b
    BY InToSet
  <2>2. i \in 1 .. Len(s) - 1 /\ 1 < i + 1 /\ 1 \in 1 .. Len(s)
    BY <1>1
  <2>3. QED
    BY <1>1, <2>1, <2>2 DEF Increasing
<1>4. QED
  BY <1>1, <1>2, <1>3

\* A younger burst at the end keeps the order.
LEMMA IncreasingAppend ==
    ASSUME NEW s \in Seq(Burst), Increasing(s), NEW e \in Burst, \A b \in ToSet(s) : b.id < e.id
    PROVE  Increasing(Append(s, e))
<1>1. PICK t \in Seq(Burst) : /\ t = Append(s, e) /\ Len(t) = Len(s) + 1 /\ Len(s) \in Nat
                              /\ \A i \in 1 .. Len(s) : t[i] = s[i]
                              /\ t[Len(s) + 1] = e
  <2>1. /\ Append(s, e) \in Seq(Burst) /\ Len(Append(s, e)) = Len(s) + 1 /\ Len(s) \in Nat
        /\ \A i \in 1 .. Len(s) : Append(s, e)[i] = s[i]
        /\ Append(s, e)[Len(s) + 1] = e
    BY AppendElements
  <2>2. QED
    BY <2>1
<1>2. \A i \in 1 .. Len(s) : s[i].id < e.id
  BY InToSet
<1>3. ASSUME NEW i \in 1 .. Len(t), NEW j \in 1 .. Len(t), i < j PROVE t[i].id < t[j].id
  <2>1. i \in 1 .. Len(s) /\ (j \in 1 .. Len(s) \/ j = Len(s) + 1)
    BY <1>1, <1>3
  <2>2. QED
    BY <1>1, <1>2, <1>3, <2>1 DEF Increasing
<1>4. QED
  BY <1>1, <1>3 DEF Increasing

\* No bursts.
LEMMA NoBursts ==
    /\ ToSet(<<>>) = {} /\ Increasing(<<>>)
    /\ ToSet(<<Sentinel>>) = {Sentinel} /\ Increasing(<<Sentinel>>)
<1>1. ToSet(<<>>) = {} /\ Increasing(<<>>)
  BY DEF ToSet, Increasing
<1>2. ToSet(<<Sentinel>>) = {Sentinel}
  BY DEF ToSet
<1>3. \A i \in 1 .. Len(<<Sentinel>>), j \in 1 .. Len(<<Sentinel>>) : ~(i < j)
  OBVIOUS
<1>4. QED
  BY <1>1, <1>2, <1>3 DEF Increasing

\* The first burst of the queue or of the dropped ones.
LEMMA HeadGoes ==
    ASSUME NEW s \in Seq(Burst), s # <<>>, Increasing(s)
    PROVE  /\ Head(s) \in Burst /\ Head(s) \in ToSet(s) /\ Tail(s) \in Seq(Burst)
           /\ ToSet(s) = {Head(s)} \cup ToSet(Tail(s))
           /\ Increasing(Tail(s)) /\ \A b \in ToSet(Tail(s)) : Head(s).id < b.id
  BY TailElements, IncreasingTail

\* What a burst and the state are made of.
LEMMA BurstTypes ==
    ASSUME TypeInv
    PROVE  /\ queue \in Seq(Burst) /\ dropped \in Seq(Burst)
           /\ ToSet(queue) \subseteq Burst /\ ToSet(dropped) \subseteq Burst
           /\ \A b \in Burst : b.id \in Nat /\ b.paths \subseteq Files
           /\ Sentinel.id = 0 /\ Sentinel.paths = {} /\ Sentinel \in Burst /\ NoBurst = Sentinel
           /\ pc \in {"put", "report"} => held \in Burst
           /\ processing.taken \in Burst /\ emitted \in Nat
           /\ \A x \in Fates : fate[x] \subseteq Nat
           /\ Live \subseteq Burst
<1>1. /\ queue \in Seq(Burst) /\ dropped \in Seq(Burst) /\ emitted \in Nat
      /\ (pc \in {"put", "report"} => held \in Burst) /\ \A x \in Fates : fate[x] \subseteq Nat
  BY DEF TypeInv, TypeOK, Holding
<1>2. ToSet(queue) \subseteq Burst /\ ToSet(dropped) \subseteq Burst
  BY <1>1, InToSet
<1>3. /\ \A b \in Burst : b.id \in Nat /\ b.paths \subseteq Files
      /\ Sentinel.id = 0 /\ Sentinel.paths = {} /\ Sentinel \in Burst /\ NoBurst = Sentinel
  BY DEF Burst, Sentinel, NoBurst
<1>4. processing.taken \in Burst
  BY DEF TypeInv, TypeOK
<1>5. Live \subseteq Burst
  BY <1>1, <1>2, <1>4 DEF Live, InHand, Queued, Taken
<1>6. QED
  BY <1>1, <1>2, <1>3, <1>4, <1>5

\* The account at the start.
LEMMA AccountInit == Init => Account
<1> SUFFICES ASSUME Init PROVE Account
  OBVIOUS
<1>1. /\ pc = "scan" /\ queue = <<>> /\ dropped = <<>> /\ emitted = 0 /\ ~shut
      /\ processing.taken = NoBurst /\ ~processing.ended /\ \A x \in Fates : fate[x] = {}
  BY DEF Init, Idle
<1>2. InHand = {} /\ Queued = {} /\ Taken = {} /\ Live = {}
  BY <1>1, NoBursts DEF InHand, Queued, Taken, Live
<1>3. "coalesced" \in Fates /\ "processed" \in Fates
  BY DEF Fates
<1>4. QED
  BY <1>1, <1>2, <1>3, NoBursts
     DEF Account, Stopping, Ordered, Apart, Numbered, FreshestKept, Ended

Early == {"scan", "reject_scan", "retry", "due", "reject_due", "pop", "pop_first", "flush", "stop"}

\* Steps that touch no burst.
LEMMA Quiet ==
    ASSUME TypeInv, Account, UNCHANGED <<queue, processing, dropped, shut, emitted, fate>>,
           \/ UNCHANGED <<pc, held>>
           \/ pc \in Early /\ pc' \in Early \cup {"drain"}
    PROVE  Account'
<1>1. InHand' = InHand
  BY DEF InHand, Early
<1>2. Queued' = Queued /\ Taken' = Taken /\ Live' = Live
  BY <1>1 DEF Queued, Taken, Live
<1>3. Stopping'
  BY DEF Account, Stopping, Early, Ended
<1>4. Ordered'
  <2>1. FreshestKept'
    BY <1>2 DEF Account, Ordered, FreshestKept
  <2>2. QED
    BY <2>1 DEF Account, Ordered, Early, Increasing
<1>5. Apart'
  BY <1>1, <1>2 DEF Account, Apart
<1>6. Numbered'
  BY <1>2 DEF Account, Numbered, Early
<1>7. QED
  BY <1>3, <1>4, <1>5, <1>6 DEF Account

\* A burst that meets its fate and is gone.
LEMMA MeetsFate ==
    ASSUME Account, NEW h \in Live, NEW x \in Fates,
           \A y \in Fates : fate'[y] = IF y = x THEN fate[y] \cup {h.id} ELSE fate[y],
           Live' \subseteq Live, Live \subseteq Live' \cup {h}, \A c \in Live' : c.id # h.id,
           UNCHANGED emitted, pc' = "put" => UNCHANGED <<pc, held>>
    PROVE  /\ \A y, z \in Fates : \A id \in fate'[y] : id \in fate'[z] => y = z
           /\ \A y \in Fates : \A c \in Live' : c.id \notin fate'[y]
           /\ Numbered'
<1>1. /\ \A y \in Fates : \A c \in Live : c.id \notin fate[y]
      /\ \A y, z \in Fates : \A id \in fate[y] : id \in fate[z] => y = z
  BY DEF Account, Apart
<1>2. ASSUME NEW y \in Fates, NEW z \in Fates, NEW id \in fate'[y], id \in fate'[z] PROVE y = z
  <2>1. CASE id = h.id
    BY <1>1, <1>2, <2>1
  <2>2. CASE id # h.id
    <3>1. id \in fate[y] /\ id \in fate[z]
      BY <1>2, <2>2
    <3>2. QED
      BY <1>1, <3>1
  <2>3. QED
    BY <2>1, <2>2
<1>3. ASSUME NEW y \in Fates, NEW c \in Live' PROVE c.id \notin fate'[y]
  BY <1>1
<1>4. Numbered'
  <2>1. /\ \A b \in Live : b.id \in 1 .. emitted
        /\ \A y \in Fates : fate[y] \subseteq 1 .. emitted
        /\ (pc = "put" => held.id = emitted)
        /\ \A id \in 1 .. emitted :
              (\E y \in Fates : id \in fate[y]) \/ (\E b \in Live : b.id = id)
    BY DEF Account, Numbered
  <2>2. ASSUME NEW y \in Fates PROVE fate[y] \subseteq fate'[y] /\ fate'[y] \subseteq 1 .. emitted
    <3>1. fate[y] \subseteq 1 .. emitted /\ h.id \in 1 .. emitted
      BY <2>1
    <3>2. fate'[y] = fate[y] \/ fate'[y] = fate[y] \cup {h.id}
      OBVIOUS
    <3>3. QED
      BY <3>1, <3>2
  <2>3. h.id \in fate'[x]
    OBVIOUS
  <2>4. ASSUME NEW id \in 1 .. emitted
        PROVE  (\E y \in Fates : id \in fate'[y]) \/ (\E b \in Live' : b.id = id)
    <3>1. CASE \E y \in Fates : id \in fate[y]
      BY <2>2, <3>1
    <3>2. ASSUME NEW b \in Live, b.id = id
          PROVE  (\E y \in Fates : id \in fate'[y]) \/ (\E c \in Live' : c.id = id)
      <4>1. CASE b = h
        BY <2>3, <3>2, <4>1
      <4>2. CASE b # h
        BY <3>2, <4>2
      <4>3. QED
        BY <4>1, <4>2
    <3>3. QED
      BY <2>1, <3>1, <3>2
  <2>5. QED
    BY <2>1, <2>2, <2>4 DEF Numbered
<1>5. QED
  BY <1>2, <1>3, <1>4

\* Every step keeps the account.
LEMMA AccountStep == TypeInv /\ Account /\ [Next]_vars => Account'
<1> SUFFICES ASSUME TypeInv, Account, [Next]_vars PROVE Account'
  OBVIOUS
<1> USE DEF untouched, worker, history, collector, mainRest
<1>t. TypeInv'
  BY TypeStep
<1>b. /\ queue \in Seq(Burst) /\ dropped \in Seq(Burst)
      /\ ToSet(queue) \subseteq Burst /\ ToSet(dropped) \subseteq Burst
      /\ \A b \in Burst : b.id \in Nat
      /\ Sentinel.id = 0 /\ Sentinel \in Burst /\ NoBurst = Sentinel
      /\ pc \in {"put", "report"} => held \in Burst
      /\ processing.taken \in Burst /\ emitted \in Nat
      /\ \A x \in Fates : fate[x] \subseteq Nat
      /\ Live \subseteq Burst
  BY BurstTypes
<1>a. Stopping /\ Ordered /\ Apart /\ Numbered /\ FreshestKept
  BY DEF Account, Ordered
<1>f. /\ "processed" \in Fates /\ "coalesced" \in Fates /\ "stopped" \in Fates /\ "unreported" \in Fates
      /\ fate \in [Fates -> SUBSET Nat]
  BY DEF Fates, TypeInv, TypeOK
<1>1. ASSUME NEW f \in Uploads, BeginUpload(f) \/ FinishUpload(f) PROVE Account'
  BY <1>1, Quiet DEF BeginUpload, FinishUpload
<1>2. CASE Observe \/ ObserverRejects \/ RequestStop \/ UNCHANGED vars
  BY <1>2, Quiet DEF Observe, ObserverRejects, RequestStop, vars
<1>3. CASE LeaveLoop \/ Scan \/ MainRejects
  BY <1>3, Quiet DEF LeaveLoop, Scan, MainRejects, Early
<1>4. CASE TakeSnapshot \/ SkipDue \/ Expire
  BY <1>4, Quiet DEF TakeSnapshot, SkipDue, Expire, Early
<1>5. CASE BackOff \/ NotDue \/ BeginStop
  BY <1>5, Quiet DEF BackOff, NotDue, BeginStop, Early
<1>6. CASE Collect \/ Pop
  <2>1. UNCHANGED <<queue, processing, dropped, shut, emitted, fate>>
    BY <1>6 DEF Collect, Pop
  <2>2. pc \in Early /\ pc' \in Early
    BY <1>6 DEF Collect, Pop, Early
  <2>3. QED
    BY <2>1, <2>2, Quiet
<1>7. CASE Flush
  <2>0. /\ pc = "flush" /\ UNCHANGED <<queue, processing, dropped, shut, fate>>
    BY <1>7 DEF Flush
  <2>1. CASE pc' = "scan" /\ UNCHANGED emitted
    BY <2>0, <2>1, Quiet DEF Early
  <2>2. CASE /\ emitted' = emitted + 1 /\ pc' = "put" /\ held'.id = emitted + 1
    <3>1. /\ InHand = {} /\ InHand' = {held'} /\ Queued' = Queued /\ Taken' = Taken
          /\ Live' = Live \cup {held'}
      BY <2>0, <2>2 DEF InHand, Queued, Taken, Live
    <3>2. ToSet(queue) \subseteq Queued /\ dropped = <<>>
      BY <2>0, <1>a DEF Queued, Stopping, Ended
    <3>3. \A b \in Live : b.id \in 1 .. emitted /\ b.id < emitted + 1
      BY <1>a, <1>b DEF Numbered
    <3>4. Stopping'
      BY <1>a, <2>0, <2>2 DEF Stopping, Ended
    <3>5. Ordered'
      <4>1. FreshestKept'
        BY <1>a, <2>0, <3>1 DEF FreshestKept
      <4>2. QED
        BY <1>a, <2>0, <2>2, <3>2, <3>3, <4>1 DEF Ordered, Increasing, Live
    <3>6. Apart'
      <4>1. \A x \in Fates : emitted + 1 \notin fate[x]
        BY <1>a, <1>b DEF Numbered
      <4>2. QED
        BY <1>a, <2>0, <2>2, <3>1, <3>3, <4>1 DEF Apart, Live
    <3>7. Numbered'
      <4>1. \A b \in Live' : b.id \in 1 .. emitted'
        BY <1>b, <2>2, <3>1, <3>3
      <4>2. \A x \in Fates : fate'[x] \subseteq 1 .. emitted'
        BY <1>a, <1>b, <2>0, <2>2 DEF Numbered
      <4>3. \A id \in 1 .. emitted' : id \in 1 .. emitted \/ id = held'.id
        BY <1>b, <2>2
      <4>4. QED
        BY <1>a, <2>0, <2>2, <3>1, <4>1, <4>2, <4>3 DEF Numbered
    <3>8. QED
      BY <3>4, <3>5, <3>6, <3>7 DEF Account
  <2>3. QED
    BY <1>7, <2>1, <2>2 DEF Flush
<1>8. CASE Put
  <2>0. /\ pc = "put" /\ held \in Burst /\ Sentinel \notin ToSet(queue) /\ dropped = <<>>
        /\ InHand = {held} /\ Queued = ToSet(queue) /\ ~processing.ended
        /\ UNCHANGED <<processing, dropped, shut, emitted, fate>>
    BY <1>8, <1>a, <1>b, NoBursts DEF Put, Stopping, Ended, InHand, Queued
  <2>1. PICK b \in Burst : b = [held EXCEPT !.full = FALSE] /\ b.id = held.id
    <3>1. [held EXCEPT !.full = FALSE] \in Burst /\ [held EXCEPT !.full = FALSE].id = held.id
      BY <2>0 DEF Burst
    <3>2. QED
      BY <3>1
  <2>2. /\ held.id = emitted /\ held.id \in 1 .. emitted /\ b # Sentinel
        /\ \A x \in Fates : b.id \notin fate[x]
        /\ \A c \in ToSet(queue) : c.id < b.id
        /\ \A c \in Taken : c.id < b.id
    <3>1. held \in Live /\ Taken \subseteq Live
      BY <2>0 DEF Live
    <3>2. /\ held.id = emitted /\ held.id \in 1 .. emitted /\ (\A c \in Taken : c.id \in 1 .. emitted)
          /\ (\A x \in Fates : b.id \notin fate[x]) /\ (\A c \in ToSet(queue) : c.id < b.id)
      BY <1>a, <2>0, <2>1, <3>1 DEF Numbered, Apart, Ordered
    <3>3. \A c \in Taken : c.id # b.id
      BY <1>a, <2>0, <2>1 DEF Apart
    <3>4. b # Sentinel
      <4>1. b.id # 0
        BY <2>1, <3>2
      <4>2. QED
        BY <1>b, <4>1
    <3>5. \A c \in Taken : c.id < b.id
      BY <1>b, <2>1, <3>2, <3>3
    <3>6. QED
      BY <3>2, <3>4, <3>5
  <2>3. \A x \in Fates : \A id \in fate[x] : id < b.id
    BY <1>a, <1>b, <2>1, <2>2 DEF Numbered
  <2>4. CASE held.full /\ queue # <<>>
    <3>1. queue' = Append(Tail(queue), b) /\ held' = Head(queue) /\ pc' = "report"
      BY <1>8, <2>1, <2>4 DEF Put
    <3>2. PICK t \in Seq(Burst) :
             /\ t = Tail(queue) /\ Increasing(t) /\ ToSet(queue) = {Head(queue)} \cup ToSet(t)
             /\ \A c \in ToSet(t) : Head(queue).id < c.id
      <4>1. /\ Tail(queue) \in Seq(Burst) /\ Increasing(Tail(queue))
            /\ ToSet(queue) = {Head(queue)} \cup ToSet(Tail(queue))
            /\ \A c \in ToSet(Tail(queue)) : Head(queue).id < c.id
        BY <1>a, <1>b, <2>4, HeadGoes DEF Ordered
      <4>2. QED
        BY <4>1
    <3>3. PICK h \in Burst : h = Head(queue) /\ h \in ToSet(queue) /\ h.id < b.id
      BY <1>b, <2>2, <3>2
    <3>4. queue' = Append(t, b) /\ ToSet(queue') = ToSet(t) \cup {b} /\ Increasing(queue')
      <4>1. queue' = Append(t, b)
        BY <3>1, <3>2
      <4>2. ToSet(Append(t, b)) = ToSet(t) \cup {b}
        BY AppendElements
      <4>3. Increasing(Append(t, b))
        BY <2>2, <3>2, IncreasingAppend
      <4>4. QED
        BY <4>1, <4>2, <4>3
    <3>5. /\ InHand' = {h} /\ Queued' = ToSet(t) \cup {b} /\ Taken' = Taken
          /\ Queued = {h} \cup ToSet(t) /\ h \notin ToSet(t)
      <4>1. h \notin ToSet(t)
        BY <1>b, <3>2, <3>3
      <4>2. InHand' = {h} /\ Taken' = Taken
        BY <2>0, <3>1, <3>3 DEF InHand, Taken
      <4>3. Queued' = ToSet(t) \cup {b}
        BY <2>0, <2>2, <3>2, <3>4, NoBursts DEF Queued
      <4>4. QED
        BY <2>0, <3>2, <3>3, <4>1, <4>2, <4>3
    <3>6. Stopping'
      BY <1>a, <2>0, <2>2, <3>1, <3>2, <3>4 DEF Stopping, Ended
    <3>7. Ordered'
      <4>1. FreshestKept'
        BY <1>a, <1>f, <2>0, <2>2, <2>3, <3>2, <3>4, <3>5 DEF FreshestKept
      <4>2. \A c \in ToSet(queue') : held'.id < c.id
        BY <3>1, <3>2, <3>3, <3>4
      <4>3. QED
        BY <1>a, <2>0, <3>1, <3>4, <4>1, <4>2, NoBursts DEF Ordered
    <3>8. Apart'
      <4>1. \A c \in Live' : c = b \/ c \in Queued \cup Taken
        BY <3>5 DEF Live
      <4>2. \A x \in Fates : \A c \in Live' : c.id \notin fate[x]
        BY <1>a, <2>2, <4>1 DEF Apart, Live
      <4>3. \A c \in Queued' \cup Taken' : h.id # c.id
        BY <1>a, <1>b, <2>0, <3>2, <3>3, <3>5 DEF Apart
      <4>4. \A c \in Taken, d \in Queued' : c.id # d.id
        BY <1>a, <1>b, <2>2, <3>5 DEF Apart
      <4>5. QED
        BY <1>a, <2>0, <3>5, <4>2, <4>3, <4>4 DEF Apart
    <3>9. Numbered'
      <4>1. \A c \in Live' : c.id \in 1 .. emitted
        BY <1>a, <2>1, <2>2, <3>5 DEF Numbered, Live
      <4>2. \A c \in Live : \E d \in Live' : d.id = c.id
        BY <2>0, <2>1, <3>5 DEF Live
      <4>3. QED
        BY <1>a, <2>0, <3>1, <4>1, <4>2 DEF Numbered
    <3>10. QED
      BY <3>6, <3>7, <3>8, <3>9 DEF Account
  <2>5. CASE ~(held.full /\ queue # <<>>)
    <3>1. queue' = Append(queue, b) /\ pc' = "scan"
      BY <1>8, <2>1, <2>5 DEF Put
    <3>2. ToSet(queue') = ToSet(queue) \cup {b} /\ Increasing(queue')
      <4>1. ToSet(Append(queue, b)) = ToSet(queue) \cup {b}
        BY <1>b, AppendElements
      <4>2. Increasing(Append(queue, b))
        BY <1>a, <1>b, <2>2, IncreasingAppend DEF Ordered
      <4>3. QED
        BY <3>1, <4>1, <4>2
    <3>3. InHand' = {} /\ Queued' = Queued \cup {b} /\ Taken' = Taken
      <4>1. Queued' = Queued \cup {b}
        BY <2>0, <2>2, <3>2, NoBursts DEF Queued
      <4>2. QED
        BY <2>0, <3>1, <4>1 DEF InHand, Taken
    <3>4. Stopping'
      BY <1>a, <2>0, <2>2, <3>1, <3>2 DEF Stopping, Ended
    <3>5. Ordered'
      <4>1. FreshestKept'
        BY <1>a, <1>f, <2>0, <2>2, <2>3, <3>2, <3>3 DEF FreshestKept
      <4>2. QED
        BY <1>a, <2>0, <3>1, <3>2, <4>1, NoBursts DEF Ordered
    <3>6. Apart'
      <4>1. \A x \in Fates : \A c \in Live' : c.id \notin fate[x]
        BY <1>a, <2>2, <3>3 DEF Apart, Live
      <4>2. \A c \in Taken, d \in Queued' : c.id # d.id
        BY <1>a, <1>b, <2>2, <3>3 DEF Apart
      <4>3. QED
        BY <1>a, <2>0, <3>3, <4>1, <4>2 DEF Apart
    <3>7. Numbered'
      <4>1. \A c \in Live' : c.id \in 1 .. emitted
        BY <1>a, <2>1, <2>2, <3>3 DEF Numbered, Live
      <4>2. \A c \in Live : \E d \in Live' : d.id = c.id
        BY <2>0, <2>1, <3>3 DEF Live
      <4>3. QED
        BY <1>a, <2>0, <3>1, <4>1, <4>2 DEF Numbered
    <3>8. QED
      BY <3>4, <3>5, <3>6, <3>7 DEF Account
  <2>6. QED
    BY <2>4, <2>5
<1>9. CASE ReportCoalesced
  <2>0. /\ pc = "report" /\ held \in Burst /\ InHand = {held} /\ pc' \in {"scan", "stop"}
        /\ dropped = <<>> /\ UNCHANGED <<queue, processing, dropped, shut, emitted>>
    BY <1>9, <1>a, <1>b DEF ReportCoalesced, InHand, Stopping
  <2>1. PICK x \in {"coalesced", "unreported"} : fate' = [fate EXCEPT ![x] = @ \cup {held.id}]
    BY <1>9 DEF ReportCoalesced
  <2>2. x \in Fates /\ \A y \in Fates : fate'[y] = IF y = x THEN fate[y] \cup {held.id} ELSE fate[y]
    BY <1>f, <2>1
  <2>3. InHand' = {} /\ Queued' = Queued /\ Taken' = Taken /\ Live' = Queued \cup Taken
    BY <2>0 DEF InHand, Queued, Taken, Live
  <2>4. Stopping'
    BY <1>a, <2>0, <2>2 DEF Stopping, Ended
  <2>5. Ordered'
    <3>1. \A id \in fate'["coalesced"] \cup fate'["processed"] :
             id = held.id \/ id \in fate["coalesced"] \cup fate["processed"]
      BY <1>f, <2>2
    <3>2. \A b \in ToSet(queue) : held.id < b.id /\ held.id \in Nat /\ b.id \in Nat
      BY <1>a, <1>b, <2>0 DEF Ordered
    <3>3. FreshestKept'
      BY <1>a, <2>0, <2>3, <3>1, <3>2 DEF FreshestKept
    <3>4. QED
      BY <1>a, <2>0, <3>3 DEF Ordered, Increasing
  <2>6. /\ Numbered'
        /\ \A y, z \in Fates : \A id \in fate'[y] : id \in fate'[z] => y = z
        /\ \A y \in Fates : \A b \in Live' : b.id \notin fate'[y]
    <3>1. held \in Live /\ \A c \in Live' : c.id # held.id
      BY <1>a, <2>0, <2>3 DEF Apart, Live
    <3>2. Live' \subseteq Live /\ Live \subseteq Live' \cup {held} /\ pc' # "put"
      BY <2>0, <2>3 DEF Live
    <3>3. QED
      BY <2>0, <2>2, <3>1, <3>2, MeetsFate
  <2>7. Apart'
    BY <1>a, <2>3, <2>6 DEF Apart
  <2>8. QED
    BY <2>4, <2>5, <2>6, <2>7 DEF Account
<1>10. CASE Drain
  <2>0. /\ pc = "drain" /\ InHand = {} /\ Sentinel \notin ToSet(queue) /\ ~processing.ended /\ ~shut
        /\ UNCHANGED <<processing, shut, emitted, fate, held>>
    BY <1>10, <1>a DEF Drain, InHand, Stopping, Ended
  <2>1. CASE queue # <<>> /\ queue' = Tail(queue) /\ dropped' = Append(dropped, Head(queue))
             /\ UNCHANGED pc
    <3>1. PICK h \in Burst :
             /\ h = Head(queue) /\ ToSet(queue) = {h} \cup ToSet(queue') /\ Increasing(queue')
             /\ \A c \in ToSet(queue') : h.id < c.id
      <4>1. /\ Head(queue) \in Burst /\ Increasing(Tail(queue))
            /\ ToSet(queue) = {Head(queue)} \cup ToSet(Tail(queue))
            /\ \A c \in ToSet(Tail(queue)) : Head(queue).id < c.id
        BY <1>a, <1>b, <2>1, HeadGoes DEF Ordered
      <4>2. QED
        BY <2>1, <4>1
    <3>2. ToSet(dropped') = ToSet(dropped) \cup {h} /\ Increasing(dropped')
      <4>1. ToSet(Append(dropped, h)) = ToSet(dropped) \cup {h}
        BY <1>b, AppendElements
      <4>2. \A c \in ToSet(dropped) : c.id < h.id
        BY <1>a, <2>0, <3>1 DEF Ordered
      <4>3. Increasing(Append(dropped, h))
        BY <1>a, <1>b, <4>2, IncreasingAppend DEF Ordered
      <4>4. QED
        BY <2>1, <3>1, <4>1, <4>3
    <3>3. InHand' = {} /\ Queued' = Queued /\ Taken' = Taken /\ Live' = Live
      <4>1. Queued' = Queued
        BY <3>1, <3>2 DEF Queued
      <4>2. QED
        BY <2>0, <2>1, <4>1 DEF InHand, Taken, Live
    <3>4. Stopping'
      BY <1>a, <2>0, <2>1, <3>1, <3>2 DEF Stopping, Ended
    <3>5. Ordered'
      <4>1. FreshestKept'
        BY <1>a, <2>0, <3>1, <3>3 DEF FreshestKept
      <4>2. \A c \in ToSet(dropped'), d \in ToSet(queue') : d # Sentinel => c.id < d.id
        BY <1>a, <3>1, <3>2 DEF Ordered
      <4>3. QED
        BY <2>0, <2>1, <3>1, <3>2, <4>1, <4>2 DEF Ordered
    <3>6. Apart'
      BY <1>a, <2>0, <3>3 DEF Apart
    <3>7. Numbered'
      BY <1>a, <2>0, <2>1, <3>3 DEF Numbered
    <3>8. QED
      BY <3>4, <3>5, <3>6, <3>7 DEF Account
  <2>2. CASE queue = <<>> /\ queue' = <<Sentinel>> /\ pc' = "report_stop" /\ UNCHANGED dropped
    <3>1. InHand' = {} /\ Queued' = Queued /\ Taken' = Taken /\ Live' = Live
      <4>1. ToSet(queue) = {} /\ ToSet(queue') = {Sentinel}
        BY <2>2, NoBursts
      <4>2. Queued' = Queued
        BY <2>2, <4>1 DEF Queued
      <4>3. QED
        BY <2>0, <2>2, <4>2 DEF InHand, Taken, Live
    <3>2. Stopping'
      BY <1>a, <2>0, <2>2 DEF Stopping, Ended
    <3>3. Ordered'
      BY <1>a, <2>2, NoBursts DEF Ordered, FreshestKept, Increasing
    <3>4. Apart'
      BY <1>a, <2>0, <3>1 DEF Apart
    <3>5. Numbered'
      BY <1>a, <2>0, <2>2, <3>1 DEF Numbered
    <3>6. QED
      BY <3>2, <3>3, <3>4, <3>5 DEF Account
  <2>3. QED
    BY <1>10, <2>1, <2>2 DEF Drain
<1>11. CASE ReportStopped
  <2>0. /\ pc = "report_stop" /\ InHand = {} /\ queue \in {<<Sentinel>>, <<>>} /\ ~shut
        /\ UNCHANGED <<queue, processing, shut, emitted, held>>
    BY <1>11, <1>a DEF ReportStopped, InHand, Stopping, Ended
  <2>1. CASE dropped = <<>> /\ pc' = "join" /\ UNCHANGED <<disk, fate, dropped>>
    <3>1. InHand' = {} /\ Queued' = Queued /\ Taken' = Taken /\ Live' = Live
      BY <2>0, <2>1 DEF InHand, Queued, Taken, Live
    <3>2. Stopping'
      BY <1>a, <2>0, <2>1 DEF Stopping, Ended
    <3>3. Ordered'
      <4>1. FreshestKept'
        BY <1>a, <2>0, <2>1, <3>1 DEF FreshestKept
      <4>2. QED
        BY <1>a, <2>0, <2>1, <4>1 DEF Ordered, Increasing
    <3>4. Apart'
      BY <1>a, <2>0, <2>1, <3>1 DEF Apart
    <3>5. Numbered'
      BY <1>a, <2>0, <2>1, <3>1 DEF Numbered
    <3>6. QED
      BY <3>2, <3>3, <3>4, <3>5 DEF Account
  <2>2. CASE /\ dropped # <<>> /\ dropped' = Tail(dropped)
             /\ \/ fate' = [fate EXCEPT !["stopped"] = @ \cup {Head(dropped).id}] /\ UNCHANGED pc
                \/ fate' = [fate EXCEPT !["unreported"] = @ \cup {Head(dropped).id}] /\ pc' = "left"
    <3>1. PICK h \in Burst :
             /\ h = Head(dropped) /\ ToSet(dropped) = {h} \cup ToSet(dropped')
             /\ Increasing(dropped') /\ \A c \in ToSet(dropped') : h.id < c.id
      <4>1. /\ Head(dropped) \in Burst /\ Increasing(Tail(dropped))
            /\ ToSet(dropped) = {Head(dropped)} \cup ToSet(Tail(dropped))
            /\ \A c \in ToSet(Tail(dropped)) : Head(dropped).id < c.id
        BY <1>a, <1>b, <2>2, HeadGoes DEF Ordered
      <4>2. QED
        BY <2>2, <4>1
    <3>2. PICK x \in {"stopped", "unreported"} :
             /\ fate' = [fate EXCEPT ![x] = @ \cup {h.id}]
             /\ pc' = IF x = "stopped" THEN "report_stop" ELSE "left"
      BY <2>0, <2>2, <3>1
    <3>3. x \in Fates /\ \A y \in Fates : fate'[y] = IF y = x THEN fate[y] \cup {h.id} ELSE fate[y]
      BY <1>f, <3>2
    <3>4. /\ Queued = ToSet(dropped) /\ Queued' = ToSet(dropped') /\ Taken' = Taken /\ InHand' = {}
          /\ h \in Queued /\ Live = Queued \cup Taken /\ Live' = Queued' \cup Taken
      <4>1. ToSet(queue) \subseteq {Sentinel} /\ Sentinel \notin ToSet(dropped)
        BY <1>a, <2>0, NoBursts DEF Stopping
      <4>2. Queued = ToSet(dropped)
        BY <4>1 DEF Queued
      <4>3. Queued' = ToSet(dropped')
        BY <2>0, <3>1, <4>1 DEF Queued
      <4>4. InHand' = {} /\ Taken' = Taken
        BY <2>0, <3>2 DEF InHand, Taken
      <4>5. QED
        BY <2>0, <3>1, <4>2, <4>3, <4>4 DEF Live
    <3>5. Stopping'
      <4>1. pc' = "left" => fate'["unreported"] # {}
        BY <1>f, <3>2, <3>3
      <4>2. QED
        BY <1>a, <2>0, <3>1, <3>2, <4>1 DEF Stopping, Ended
    <3>6. Ordered'
      <4>1. ToSet(queue') \subseteq {Sentinel}
        BY <2>0, NoBursts
      <4>2. FreshestKept'
        BY <4>1 DEF FreshestKept
      <4>3. QED
        BY <1>a, <2>0, <3>1, <3>2, <4>1, <4>2 DEF Ordered, Increasing
    <3>7. /\ Numbered'
          /\ \A y, z \in Fates : \A id \in fate'[y] : id \in fate'[z] => y = z
          /\ \A y \in Fates : \A c \in Live' : c.id \notin fate'[y]
      <4>1. h \in Live /\ \A c \in Live' : c.id # h.id
        BY <1>a, <1>b, <3>1, <3>4 DEF Apart
      <4>2. Live' \subseteq Live /\ Live \subseteq Live' \cup {h} /\ pc' # "put"
        BY <3>1, <3>2, <3>4
      <4>3. QED
        BY <2>0, <3>3, <4>1, <4>2, MeetsFate
    <3>8. Apart'
      BY <1>a, <3>1, <3>4, <3>7 DEF Apart
    <3>9. QED
      BY <3>5, <3>6, <3>7, <3>8 DEF Account
  <2>3. QED
    BY <1>11, <2>1, <2>2 DEF ReportStopped
<1>12. CASE Join
  <2>0. /\ pc = "join" /\ pc' = "left" /\ shut' = TRUE /\ processing.ended /\ dropped = <<>>
        /\ UNCHANGED <<queue, processing, dropped, emitted, fate>>
    BY <1>12, <1>a DEF Join, Stopping
  <2>1. InHand' = {} /\ InHand = {} /\ Queued' = Queued /\ Taken' = Taken /\ Live' = Live
    BY <2>0 DEF InHand, Queued, Taken, Live
  <2>2. Stopping'
    BY <1>a, <2>0 DEF Stopping, Ended
  <2>3. Ordered'
    <3>1. FreshestKept'
      BY <1>a, <2>0, <2>1 DEF FreshestKept
    <3>2. QED
      BY <1>a, <2>0, <3>1 DEF Ordered, Increasing
  <2>4. Apart'
    BY <1>a, <2>0, <2>1 DEF Apart
  <2>5. Numbered'
    BY <1>a, <2>0, <2>1 DEF Numbered
  <2>6. QED
    BY <2>2, <2>3, <2>4, <2>5 DEF Account
<1>13. CASE Take
  <2>0. /\ ~processing.ended /\ processing.taken = NoBurst /\ queue # <<>> /\ queue' = Tail(queue)
        /\ UNCHANGED <<pc, held, dropped, shut, emitted, fate>> /\ ~shut /\ Taken = {}
        /\ processing \in [taken : Burst, ended : BOOLEAN]
    BY <1>13, <1>a DEF Take, Stopping, Taken, TypeInv, TypeOK
  <2>1. PICK h \in Burst :
           /\ h = Head(queue) /\ ToSet(queue) = {h} \cup ToSet(queue') /\ Increasing(queue')
           /\ \A c \in ToSet(queue') : h.id < c.id
    <3>1. /\ Head(queue) \in Burst /\ Increasing(Tail(queue))
          /\ ToSet(queue) = {Head(queue)} \cup ToSet(Tail(queue))
          /\ \A c \in ToSet(Tail(queue)) : Head(queue).id < c.id
      BY <1>a, <1>b, <2>0, HeadGoes DEF Ordered
    <3>2. QED
      BY <2>0, <3>1
  <2>2. InHand' = InHand
    BY <2>0 DEF InHand
  <2>3. CASE h = Sentinel
    <3>1. pc \in Ended /\ queue = <<Sentinel>>
      BY <1>a, <2>0, <2>1, <2>3 DEF Stopping
    <3>2. queue' = <<>> /\ ToSet(queue) = {Sentinel} /\ ToSet(queue') = {}
      BY <2>0, <3>1, NoBursts
    <3>3. processing'.ended /\ processing'.taken = NoBurst
      BY <1>13, <2>0, <2>1, <2>3 DEF Take
    <3>4. Queued' = Queued /\ Taken' = Taken /\ Live' = Live
      <4>1. Queued' = Queued
        BY <2>0, <3>2 DEF Queued
      <4>2. QED
        BY <2>0, <2>2, <3>3, <4>1 DEF Taken, Live
    <3>5. Stopping'
      BY <1>a, <2>0, <3>1, <3>2, <3>3 DEF Stopping
    <3>6. Ordered'
      BY <1>a, <2>0, <2>1, <3>1, <3>2 DEF Ordered, FreshestKept, Ended
    <3>7. Apart'
      BY <1>a, <2>0, <2>2, <3>4 DEF Apart
    <3>8. Numbered'
      BY <1>a, <2>0, <3>4 DEF Numbered
    <3>9. QED
      BY <3>5, <3>6, <3>7, <3>8 DEF Account
  <2>4. CASE h # Sentinel
    <3>1. pc \notin Ended /\ Sentinel \notin ToSet(queue)
      <4>1. queue # <<Sentinel>>
        BY <2>1, <2>4
      <4>2. QED
        BY <1>a, <2>0, <4>1 DEF Stopping
    <3>2. processing'.ended = processing.ended /\ processing'.taken = h
      BY <1>13, <2>0, <2>1, <2>4 DEF Take
    <3>3. /\ Queued = ToSet(queue) \cup ToSet(dropped) /\ Queued' = ToSet(queue') \cup ToSet(dropped)
          /\ Taken' = {h} /\ Live' = Live
      <4>1. Sentinel \notin ToSet(dropped)
        BY <1>a DEF Stopping
      <4>2. Queued = ToSet(queue) \cup ToSet(dropped)
        BY <3>1, <4>1 DEF Queued
      <4>3. Queued' = ToSet(queue') \cup ToSet(dropped)
        BY <2>0, <2>1, <3>1, <4>1 DEF Queued
      <4>4. Taken' = {h}
        BY <1>b, <2>4, <3>2 DEF Taken
      <4>5. QED
        BY <2>0, <2>1, <2>2, <4>2, <4>3, <4>4 DEF Live
    <3>4. Stopping'
      BY <1>a, <2>0, <2>1, <3>1, <3>2 DEF Stopping
    <3>5. Ordered'
      <4>1. FreshestKept'
        <5>1. \A c \in ToSet(queue') : c.id > h.id
          BY <1>b, <2>1
        <5>2. QED
          BY <1>a, <2>0, <2>1, <3>3, <5>1 DEF FreshestKept
      <4>2. QED
        BY <1>a, <2>0, <2>1, <4>1 DEF Ordered, Increasing
    <3>6. Apart'
      <4>1. \A c \in Queued' : h.id # c.id
        <5>1. \A c \in ToSet(queue') : h.id # c.id
          BY <1>b, <2>1
        <5>2. \A c \in ToSet(dropped) : h.id # c.id
          BY <1>a, <1>b, <2>1, <2>4 DEF Ordered
        <5>3. QED
          BY <3>3, <5>1, <5>2
      <4>2. Queued' \cup Taken' \subseteq Queued
        BY <2>1, <3>3
      <4>3. QED
        BY <1>a, <2>0, <2>2, <3>3, <4>1, <4>2 DEF Apart
    <3>7. Numbered'
      BY <1>a, <2>0, <3>3 DEF Numbered
    <3>8. QED
      BY <3>4, <3>5, <3>6, <3>7 DEF Account
  <2>5. QED
    BY <2>3, <2>4
<1>14. CASE Process
  <2>0. /\ processing.taken # NoBurst /\ processing'.taken = NoBurst
        /\ processing'.ended = processing.ended
        /\ fate' = [fate EXCEPT !["processed"] = @ \cup {processing.taken.id}]
        /\ UNCHANGED <<pc, held, queue, dropped, shut, emitted>>
    BY <1>14 DEF Process, TypeInv, TypeOK
  <2>1. PICK h \in Burst : h = processing.taken /\ Taken = {h}
    BY <1>b, <2>0 DEF Taken
  <2>2. \A y \in Fates : fate'[y] = IF y = "processed" THEN fate[y] \cup {h.id} ELSE fate[y]
    BY <1>f, <2>0, <2>1
  <2>3. /\ InHand' = InHand /\ Queued' = Queued /\ Taken' = {}
        /\ Live' = InHand \cup Queued /\ Live = Live' \cup {h}
    BY <2>0, <2>1 DEF InHand, Queued, Taken, Live
  <2>4. Stopping'
    <3>1. fate'["unreported"] = fate["unreported"]
      BY <1>f, <2>2
    <3>2. QED
      BY <1>a, <2>0, <3>1 DEF Stopping
  <2>5. Ordered'
    <3>1. \A id \in fate'["coalesced"] \cup fate'["processed"] :
             id \in fate["coalesced"] \cup fate["processed"] \cup {c.id : c \in Taken}
      BY <1>f, <2>1, <2>2
    <3>2. FreshestKept'
      BY <1>a, <2>0, <2>3, <3>1 DEF FreshestKept
    <3>3. QED
      BY <1>a, <2>0, <3>2 DEF Ordered, Increasing
  <2>6. /\ Numbered'
        /\ \A y, z \in Fates : \A id \in fate'[y] : id \in fate'[z] => y = z
        /\ \A y \in Fates : \A c \in Live' : c.id \notin fate'[y]
    <3>1. h \in Live /\ \A c \in Live' : c.id # h.id
      BY <1>a, <2>1, <2>3 DEF Apart
    <3>2. Live' \subseteq Live /\ Live \subseteq Live' \cup {h}
      BY <2>3
    <3>3. QED
      BY <1>f, <2>0, <2>2, <3>1, <3>2, MeetsFate
  <2>7. Apart'
    BY <1>a, <2>3, <2>6 DEF Apart
  <2>8. QED
    BY <2>4, <2>5, <2>6, <2>7 DEF Account
<1>15. QED
  BY <1>1, <1>2, <1>3, <1>4, <1>5, <1>6, <1>7, <1>8, <1>9, <1>10, <1>11, <1>12, <1>13, <1>14
     DEF Next, MainStep, ObserverStep, ProcessorStep

\* The types and the account hold in every state.
LEMMA AccountHolds == Spec => [](TypeInv /\ Account)
<1>1. TypeInv /\ Account /\ [Next]_vars => (TypeInv /\ Account)'
  BY TypeStep, AccountStep
<1>2. QED
  BY <1>1, TypeInit, AccountInit, PTL DEF Spec

\* Two bursts of a queue with one number are one burst.
LEMMA SameBurst ==
    ASSUME NEW s \in Seq(Burst), Increasing(s), NEW b \in ToSet(s), NEW c \in ToSet(s), b.id = c.id
    PROVE  b = c
<1>1. PICK i \in 1 .. Len(s) : s[i] = b
  BY InToSet
<1>2. PICK j \in 1 .. Len(s) : s[j] = c
  BY InToSet
<1>3. b.id \in Nat /\ c.id \in Nat
  <2>1. b \in Burst /\ c \in Burst
    BY InToSet
  <2>2. QED
    BY <2>1 DEF Burst
<1>4. ~(i < j) /\ ~(j < i)
  BY <1>1, <1>2, <1>3 DEF Increasing
<1>5. QED
  BY <1>1, <1>2, <1>4

\* Every burst that was emitted is in exactly one place.
LEMMA OnePlace ==
    ASSUME TypeInv, Account
    PROVE  FateOnce
<1>a. Stopping /\ Ordered /\ Apart /\ Numbered
  BY DEF Account
<1>b. \A b, c \in Queued : b.id = c.id => b = c
  <2>1. ASSUME NEW b \in Queued, NEW c \in Queued, b.id = c.id PROVE b = c
    <3>1. CASE b \in ToSet(queue) /\ c \in ToSet(queue)
      BY <1>a, <2>1, <3>1, BurstTypes, SameBurst DEF Ordered
    <3>2. CASE b \in ToSet(dropped) /\ c \in ToSet(dropped)
      BY <1>a, <2>1, <3>2, BurstTypes, SameBurst DEF Ordered
    <3>3. CASE b \in ToSet(dropped) /\ c \in ToSet(queue)
      <4>1. b.id < c.id /\ b.id \in Nat /\ c.id \in Nat
        BY <1>a, <2>1, <3>3, BurstTypes DEF Ordered, Queued
      <4>2. QED
        BY <2>1, <4>1
    <3>4. CASE c \in ToSet(dropped) /\ b \in ToSet(queue)
      <4>1. c.id < b.id /\ b.id \in Nat /\ c.id \in Nat
        BY <1>a, <2>1, <3>4, BurstTypes DEF Ordered, Queued
      <4>2. QED
        BY <2>1, <4>1
    <3>5. QED
      BY <3>1, <3>2, <3>3, <3>4 DEF Queued
  <2>2. QED
    BY <2>1
<1>1. ASSUME NEW id \in 1 .. emitted
      PROVE  Cardinality({x \in Fates : id \in fate[x]}
                         \cup {<<"held", b>> : b \in {c \in InHand : c.id = id}}
                         \cup {<<"queued", b>> : b \in {c \in Queued : c.id = id}}
                         \cup {<<"taken", b>> : b \in {c \in Taken : c.id = id}}) = 1
  <2> DEFINE P == {x \in Fates : id \in fate[x]}
                  \cup {<<"held", b>> : b \in {c \in InHand : c.id = id}}
                  \cup {<<"queued", b>> : b \in {c \in Queued : c.id = id}}
                  \cup {<<"taken", b>> : b \in {c \in Taken : c.id = id}}
  <2>1. \E z : P = {z}
    <3>1. ASSUME NEW x \in Fates, id \in fate[x] PROVE P = {x}
      <4>1. \A c \in Live : c.id # id
        BY <1>a, <3>1 DEF Apart
      <4>2. \A y \in Fates : id \in fate[y] <=> y = x
        BY <1>a, <3>1 DEF Apart
      <4>3. QED
        BY <4>1, <4>2 DEF Live
    <3>2. ASSUME NEW b \in InHand, b.id = id PROVE P = {<<"held", b>>}
      <4>1. /\ \A c \in Queued \cup Taken : c.id # id
            /\ \A y \in Fates : id \notin fate[y]
            /\ \A c \in InHand : c.id = id <=> c = b
        BY <1>a, <3>2 DEF Apart, Live, InHand
      <4>2. QED
        BY <4>1
    <3>3. ASSUME NEW b \in Queued, b.id = id PROVE P = {<<"queued", b>>}
      <4>1. /\ \A c \in InHand \cup Taken : c.id # id
            /\ \A y \in Fates : id \notin fate[y]
            /\ \A c \in Queued : c.id = id <=> c = b
        BY <1>a, <1>b, <3>3 DEF Apart, Live
      <4>2. QED
        BY <4>1
    <3>4. ASSUME NEW b \in Taken, b.id = id PROVE P = {<<"taken", b>>}
      <4>1. /\ \A c \in InHand \cup Queued : c.id # id
            /\ \A y \in Fates : id \notin fate[y]
            /\ \A c \in Taken : c.id = id <=> c = b
        BY <1>a, <3>4 DEF Apart, Live, Taken
      <4>2. QED
        BY <4>1
    <3>5. (\E x \in Fates : id \in fate[x]) \/ \E b \in InHand \cup Queued \cup Taken : b.id = id
      BY <1>a DEF Numbered, Live
    <3> HIDE DEF P
    <3>6. QED
      BY <3>1, <3>2, <3>3, <3>4, <3>5
  <2> HIDE DEF P
  <2>2. Cardinality(P) = 1
    BY <2>1, FS_Singleton
  <2>3. QED
    BY <2>2 DEF P
<1>2. QED
  BY <1>1 DEF FateOnce

\* At shutdown nothing is left to account for.
LEMMA StoppedInOrder ==
    ASSUME TypeInv, Account
    PROVE  OrderlyStop
<1>a. Stopping /\ Numbered
  BY DEF Account
<1>1. ASSUME shut PROVE /\ processing.ended /\ queue = <<>> /\ dropped = <<>>
                        /\ UNION {fate[x] : x \in Fates} = 1 .. emitted
  <2>1. /\ pc = "left" /\ processing.ended /\ queue = <<>> /\ dropped = <<>>
        /\ processing.taken = NoBurst
    BY <1>1, <1>a DEF Stopping
  <2>2. Live = {}
    BY <2>1, NoBursts DEF Live, InHand, Queued, Taken
  <2>3. QED
    BY <1>a, <2>1, <2>2 DEF Numbered
<1>2. pc = "left" /\ ~shut => fate["unreported"] # {}
  BY <1>a DEF Stopping
<1>3. QED
  BY <1>1, <1>2 DEF OrderlyStop

\* BoundedBurstQueue and run_worker lose no burst and handle none twice between put, get
\* and stop; the queue holds younger bursts than those coalesced or processed; and
\* shutdown() finds the processing thread gone and nothing pending.
THEOREM BurstsKept == Spec => []BurstsAccounted
<1>1. TypeInv /\ Account => BurstsAccounted
  BY OnePlace, StoppedInOrder DEF BurstsAccounted, TypeInv, Account, Ordered
<1>2. QED
  BY <1>1, AccountHolds, PTL
-----------------------------------------------------------------------------
(* Files *)

\* Only flush_due makes a burst: the others were there before.
LEMMA Ancestors ==
    ASSUME TypeInv, Account, Next, ~Flush
    PROVE  /\ \A c \in Live' : \E b \in Live : Same(b, c)
           /\ \A c \in Waits' : \E b \in Waits : Same(b, c)
<1> USE DEF untouched, worker, history, collector, mainRest
<1>b. /\ queue \in Seq(Burst) /\ dropped \in Seq(Burst)
      /\ Sentinel \in Burst /\ NoBurst = Sentinel /\ (pc \in {"put", "report"} => held \in Burst)
  BY BurstTypes
<1>a. Stopping
  BY DEF Account
<1>k. ASSUME InHand' = InHand, Queued' \subseteq Queued, Taken' \subseteq Taken \cup Queued,
             pc' = "put" => pc = "put"
      PROVE  /\ \A c \in Live' : \E b \in Live : Same(b, c)
             /\ \A c \in Waits' : \E b \in Waits : Same(b, c)
  BY <1>k DEF Live, Waits, Same
<1>1. CASE \/ UNCHANGED <<queue, processing, dropped, pc, held>>
           \/ UNCHANGED <<queue, processing, dropped>> /\ pc \in Early /\ pc' \in Early \cup {"drain"}
  <2>1. InHand' = InHand /\ Queued' = Queued /\ Taken' = Taken /\ (pc' = "put" => pc = "put")
    BY <1>1 DEF InHand, Queued, Taken, Early
  <2>2. QED
    BY <1>k, <2>1
<1>2. ASSUME NEW f \in Uploads, BeginUpload(f) \/ FinishUpload(f)
      PROVE  UNCHANGED <<queue, processing, dropped, pc, held>>
  BY <1>2 DEF BeginUpload, FinishUpload
<1>3. CASE Observe \/ ObserverRejects \/ RequestStop
  BY <1>1, <1>3 DEF Observe, ObserverRejects, RequestStop
<1>4. CASE LeaveLoop \/ Scan \/ MainRejects \/ TakeSnapshot \/ SkipDue \/ Expire
  BY <1>1, <1>4 DEF LeaveLoop, Scan, MainRejects, TakeSnapshot, SkipDue, Expire, Early
<1>5. CASE BackOff \/ NotDue \/ BeginStop
  BY <1>1, <1>5 DEF BackOff, NotDue, BeginStop, Early
<1>6. CASE Collect \/ Pop
  <2>1. UNCHANGED <<queue, processing, dropped>>
    BY <1>6 DEF Collect, Pop
  <2>2. pc \in Early /\ pc' \in Early
    BY <1>6 DEF Collect, Pop, Early
  <2>3. QED
    BY <1>1, <2>1, <2>2
<1>7. CASE Put
  <2>0. /\ pc = "put" /\ InHand = {held} /\ held \in Burst /\ UNCHANGED <<processing, dropped>>
    BY <1>7, <1>b DEF Put, InHand
  <2>1. PICK b \in Burst : b = [held EXCEPT !.full = FALSE] /\ Same(held, b)
    <3>1. [held EXCEPT !.full = FALSE] \in Burst /\ Same(held, [held EXCEPT !.full = FALSE])
      BY <2>0 DEF Burst, Same
    <3>2. QED
      BY <3>1
  <2>2. /\ ToSet(queue') \subseteq ToSet(queue) \cup {b} /\ InHand' \subseteq ToSet(queue)
        /\ pc' # "put"
    <3>1. CASE held.full /\ queue # <<>>
      <4>1. queue' = Append(Tail(queue), b) /\ held' = Head(queue) /\ pc' = "report"
        BY <1>7, <2>1, <3>1 DEF Put
      <4>2. PICK t \in Seq(Burst) : t = Tail(queue) /\ ToSet(queue) = {Head(queue)} \cup ToSet(t)
        <5>1. Tail(queue) \in Seq(Burst) /\ ToSet(queue) = {Head(queue)} \cup ToSet(Tail(queue))
          BY <1>b, <3>1, TailElements
        <5>2. QED
          BY <5>1
      <4>3. ToSet(Append(t, b)) = ToSet(t) \cup {b}
        BY AppendElements
      <4>4. QED
        BY <4>1, <4>2, <4>3 DEF InHand
    <3>2. CASE ~(held.full /\ queue # <<>>)
      <4>1. queue' = Append(queue, b) /\ pc' = "scan"
        BY <1>7, <2>1, <3>2 DEF Put
      <4>2. ToSet(Append(queue, b)) = ToSet(queue) \cup {b}
        BY <1>b, AppendElements
      <4>3. QED
        BY <4>1, <4>2 DEF InHand
    <3>3. QED
      BY <3>1, <3>2
  <2>3. Queued' \subseteq Queued \cup {b} /\ Taken' = Taken /\ InHand' \subseteq Queued
    <3>1. Sentinel \notin ToSet(queue)
      BY <1>a, <2>0 DEF Stopping, Ended
    <3>2. Queued' \subseteq Queued \cup {b}
      BY <2>0, <2>2 DEF Queued
    <3>3. InHand' \subseteq Queued
      BY <2>2, <3>1 DEF Queued
    <3>4. QED
      BY <2>0, <3>2, <3>3 DEF Taken
  <2>4. \A c : Same(c, c)
    BY DEF Same
  <2>5. \A c \in Live' : c = b \/ c \in Queued \cup Taken
    BY <2>3 DEF Live
  <2>6. \A c \in Waits' : c = b \/ c \in Queued \cup Taken
    BY <2>2, <2>3 DEF Waits
  <2>7. held \in Live /\ held \in Waits /\ Queued \cup Taken \subseteq Live \cap Waits
    BY <2>0 DEF Live, Waits
  <2>8. QED
    BY <2>1, <2>4, <2>5, <2>6, <2>7
<1>8. CASE ReportCoalesced
  <2>1. InHand' = {} /\ Queued' = Queued /\ Taken' = Taken
    BY <1>8 DEF ReportCoalesced, InHand, Queued, Taken
  <2>2. QED
    BY <2>1 DEF Live, Waits, Same
<1>9. CASE Drain
  <2>1. InHand' = InHand /\ Taken' = Taken /\ pc' # "put"
    BY <1>9 DEF Drain, InHand, Taken
  <2>2. Queued' \subseteq Queued
    <3>1. CASE queue # <<>> /\ queue' = Tail(queue) /\ dropped' = Append(dropped, Head(queue))
      <4>1. PICK h \in Burst : h = Head(queue) /\ ToSet(queue) = {h} \cup ToSet(Tail(queue))
        BY <1>b, <3>1, TailElements
      <4>2. ToSet(Append(dropped, h)) = ToSet(dropped) \cup {h}
        BY <1>b, AppendElements
      <4>3. QED
        BY <3>1, <4>1, <4>2 DEF Queued
    <3>2. CASE queue' = <<Sentinel>> /\ UNCHANGED dropped
      <4>1. ToSet(queue') = {Sentinel}
        BY <3>2, NoBursts
      <4>2. QED
        BY <3>2, <4>1 DEF Queued
    <3>3. QED
      BY <1>9, <3>1, <3>2 DEF Drain
  <2>3. QED
    BY <1>k, <2>1, <2>2
<1>10. CASE ReportStopped
  <2>1. InHand' = InHand /\ Taken' = Taken /\ pc' # "put"
    BY <1>10 DEF ReportStopped, InHand, Taken
  <2>2. ToSet(dropped') \subseteq ToSet(dropped) /\ UNCHANGED queue
    <3>1. dropped # <<>> => ToSet(Tail(dropped)) \subseteq ToSet(dropped)
      BY <1>b, TailElements
    <3>2. QED
      BY <1>10, <3>1 DEF ReportStopped
  <2>3. Queued' \subseteq Queued
    BY <2>2 DEF Queued
  <2>4. QED
    BY <1>k, <2>1, <2>3
<1>11. CASE Join
  <2>1. InHand' = InHand /\ Taken' = Taken /\ Queued' = Queued /\ pc' # "put"
    BY <1>11 DEF Join, InHand, Taken, Queued
  <2>2. QED
    BY <1>k, <2>1
<1>12. CASE Take
  <2>1. InHand' = InHand /\ UNCHANGED <<pc, dropped>> /\ queue' = Tail(queue) /\ queue # <<>>
    BY <1>12 DEF Take, InHand
  <2>2. ToSet(queue) = {Head(queue)} \cup ToSet(queue')
    BY <1>b, <2>1, TailElements
  <2>3. Queued' \subseteq Queued
    BY <2>1, <2>2 DEF Queued
  <2>4. processing'.taken = processing.taken \/ (processing'.taken = Head(queue) /\ Head(queue) # Sentinel)
    BY <1>12 DEF Take, TypeInv, TypeOK
  <2>5. Taken' \subseteq Taken \cup Queued
    BY <2>2, <2>4 DEF Taken, Queued
  <2>6. QED
    BY <1>k, <2>1, <2>3, <2>5
<1>13. CASE Process
  <2>1. InHand' = InHand /\ UNCHANGED <<pc, queue, dropped>> /\ processing'.taken = NoBurst
    BY <1>13 DEF Process, InHand, TypeInv, TypeOK
  <2>2. Queued' = Queued /\ Taken' = {}
    BY <2>1 DEF Queued, Taken
  <2>3. QED
    BY <1>k, <2>1, <2>2
<1>14. QED
  BY <1>1, <1>2, <1>3, <1>4, <1>5, <1>6, <1>7, <1>8, <1>9, <1>10, <1>11, <1>12, <1>13
     DEF Next, MainStep, ObserverStep, ProcessorStep

\* Steps that leave the collector alone.
LEMMA Passing ==
    ASSUME FileInv, UNCHANGED <<pending, trigger, given>>,
           \A f \in HotFrames : disk'[f] = "absent" => disk[f] = "absent",
           \A c \in Live' : \E b \in Live : Same(b, c),
           pc' \in {"pop", "pop_first"} => pc \in {"pop", "pop_first"}
    PROVE  Placed' /\ Opened'
<1>0. Placed /\ Opened
  BY DEF FileInv
<1>1. \A f \in Uploads : f \in ToSet(pending') => given'[f] >= 1
  BY <1>0 DEF Placed
<1>2. ASSUME NEW c \in Live', NEW f \in c.paths
      PROVE  (f \in Uploads => given'[f] >= 1) /\ (f \in ToSet(pending') => Again(f)')
  <2>1. PICK b \in Live : Same(b, c)
    OBVIOUS
  <2>2. f \in b.paths
    BY <2>1 DEF Same
  <2>3. QED
    BY <1>0, <2>2 DEF Placed, Again
<1>3. ASSUME NEW c \in Live', NEW d \in Live', c.id # d.id, NEW f \in c.paths, f \in d.paths
      PROVE  Again(f)'
  <2>1. PICK a \in Live : Same(a, c)
    OBVIOUS
  <2>2. PICK b \in Live : Same(b, d)
    OBVIOUS
  <2>3. a.id # b.id /\ f \in a.paths /\ f \in b.paths
    BY <1>3, <2>1, <2>2 DEF Same
  <2>4. Again(f)
    BY <1>0, <2>3 DEF Placed
  <2>5. QED
    BY <2>4 DEF Again
<1>4. ASSUME NEW f \in HotFrames, disk'[f] = "absent", NEW c \in Live' PROVE f \notin c.paths
  <2>1. PICK b \in Live : Same(b, c)
    OBVIOUS
  <2>2. f \notin b.paths
    BY <1>0, <1>4 DEF Placed
  <2>3. QED
    BY <2>1, <2>2 DEF Same
<1>5. ASSUME NEW c \in Live', c.trigger \in c.paths
      PROVE  c.first = c.trigger \/ Again(c.trigger)'
  <2>1. PICK b \in Live : Same(b, c)
    OBVIOUS
  <2>2. b.first = b.trigger \/ Again(b.trigger)
    BY <1>0, <1>5, <2>1 DEF Opened, Same
  <2>3. QED
    BY <2>1, <2>2 DEF Again, Same
<1>6. Placed'
  BY <1>1, <1>2, <1>3, <1>4 DEF Placed
<1>7. Opened'
  BY <1>0, <1>5 DEF Opened, Again
<1>8. QED
  BY <1>6, <1>7

\* Files of waiting bursts last, but for those that were rejected or collected again.
LEMMA Lasting ==
    ASSUME UploadHeld, NEW S, \A c \in Waits' : \E b \in Waits : Same(b, c),
           \A c \in Waits' : \A f \in c.paths : f \in Files,
           \A f \in Files : f \notin S /\ OnDisk(f) => OnDisk(f)',
           rejected \subseteq rejected', \A f \in Uploads : given[f] > 1 => given'[f] > 1,
           \A c \in Waits' : \A f \in c.paths :
              f \in S => f \in Uploads /\ (f \in rejected' \/ given'[f] > 1)
    PROVE  UploadHeld'
<1>1. ASSUME NEW c \in Waits', NEW f \in c.paths
      PROVE  OnDisk(f)' \/ (f \in Uploads /\ (f \in rejected' \/ given'[f] > 1))
  <2>1. PICK b \in Waits : Same(b, c)
    OBVIOUS
  <2>2. f \in b.paths
    BY <2>1 DEF Same
  <2>3. OnDisk(f) \/ (f \in Uploads /\ (f \in rejected \/ given[f] > 1))
    BY <2>2 DEF UploadHeld, Waits
  <2>4. CASE f \in S
    BY <2>4
  <2>5. CASE f \notin S
    BY <2>3, <2>5
  <2>6. QED
    BY <2>4, <2>5
<1>2. QED
  BY <1>1 DEF UploadHeld, Waits

\* Removing uploads takes no other file.
LEMMA RemovedLasts ==
    ASSUME TypeOK, NEW S, disk' = Removed(S)
    PROVE  /\ \A f \in Files : f \notin S /\ OnDisk(f) => OnDisk(f)'
           /\ \A f \in Files : disk'[f] = "absent" => disk[f] = "absent"
  BY RemovedFacts DEF OnDisk

\* The third layer holds when run_worker starts: no file is in any place yet.
LEMMA FileInit == Init => FileInv
<1> SUFFICES ASSUME Init PROVE FileInv
  OBVIOUS
<1>1. /\ pc = "scan" /\ queue = <<>> /\ dropped = <<>> /\ pending = <<>>
      /\ processing.taken = NoBurst
  BY DEF Init, Idle
<1>2. InHand = {} /\ Queued = {} /\ Taken = {} /\ Live = {} /\ ToSet(pending) = {}
  BY <1>1, NoBursts DEF InHand, Queued, Taken, Live
<1>3. QED
  BY <1>1, <1>2 DEF FileInv, Placed, Opened, UploadHeld

\* Every step keeps the places of the files.
LEMMA FileStep == TypeInv /\ Account /\ FileInv /\ [Next]_vars => FileInv'
<1> SUFFICES ASSUME TypeInv, Account, FileInv, [Next]_vars PROVE FileInv'
  OBVIOUS
<1> USE DEF untouched, worker, history, collector, mainRest
<1>i. /\ TypeInv' /\ Account' /\ TypeOK /\ Holding /\ Distinct /\ Stopping /\ Apart /\ Ordered
      /\ Numbered /\ Placed /\ Opened /\ UploadHeld
  BY TypeStep, AccountStep DEF TypeInv, Account, FileInv
<1>f. /\ Uploads \subseteq Files /\ HotFrames \subseteq Files /\ NoFile \notin Files
      /\ Uploads \cap HotFrames = {}
  BY DEF Files
<1>p. /\ \A c \in Live : c.paths \subseteq Files
      /\ \A c \in Live' : c.paths \subseteq Files /\ c.id \in Nat
  <2>1. Live \subseteq Burst /\ \A b \in Burst : b.id \in Nat /\ b.paths \subseteq Files
    BY BurstTypes
  <2>2. Live' \subseteq Burst
    <3>1. /\ queue' \in Seq(Burst) /\ dropped' \in Seq(Burst) /\ processing'.taken \in Burst
          /\ (pc' \in {"put", "report"} => held' \in Burst)
      BY <1>i DEF TypeInv, TypeOK, Holding
    <3>2. ToSet(queue') \subseteq Burst /\ ToSet(dropped') \subseteq Burst
      BY <3>1, InToSet
    <3>3. QED
      BY <3>1, <3>2 DEF Live, InHand, Queued, Taken
  <2>3. QED
    BY <2>1, <2>2
<1>w. Waits \subseteq Live /\ Waits' \subseteq Live'
  BY DEF Waits, Live
<1>g. \A f \in Uploads : given[f] \in 0 .. 2
  BY <1>i DEF TypeOK
<1>u. UNCHANGED vars => FileInv'
  BY <1>i DEF vars, FileInv, Placed, Opened, UploadHeld, Live, InHand, Queued, Taken, Again, OnDisk
<1>1. ASSUME NEW S, disk' = Removed(S), UNCHANGED <<pending, trigger, given>>,
             rejected \subseteq rejected', Next, ~Flush,
             pc' \in {"pop", "pop_first"} => pc \in {"pop", "pop_first"},
             \A c \in Waits' : \A f \in c.paths :
                f \in S => f \in Uploads /\ (f \in rejected' \/ given'[f] > 1)
      PROVE  FileInv'
  <2>1. /\ \A c \in Live' : \E b \in Live : Same(b, c)
        /\ \A c \in Waits' : \E b \in Waits : Same(b, c)
    BY <1>1, Ancestors
  <2>2. /\ \A f \in Files : f \notin S /\ OnDisk(f) => OnDisk(f)'
        /\ \A f \in Files : disk'[f] = "absent" => disk[f] = "absent"
    BY <1>1, <1>i, RemovedLasts
  <2>3. Placed' /\ Opened'
    BY <1>1, <1>f, <2>1, <2>2, Passing
  <2>4. UploadHeld'
    <3>1. \A c \in Waits' : \A f \in c.paths : f \in Files
      BY <1>p, <1>w
    <3>2. QED
      BY <1>1, <1>i, <2>1, <2>2, <3>1, Lasting
  <2>5. QED
    BY <2>3, <2>4 DEF FileInv
<1>2. ASSUME UNCHANGED <<disk, pending, trigger, given, rejected>>, Next, ~Flush,
             pc' \in {"pop", "pop_first"} => pc \in {"pop", "pop_first"}
      PROVE  FileInv'
  <2>1. disk = Removed({})
    BY <1>i DEF Removed, TypeOK
  <2>2. QED
    BY <1>1, <1>2, <2>1
<1>3. ASSUME NEW f \in Uploads, BeginUpload(f) \/ FinishUpload(f), Next PROVE FileInv'
  <2>0. /\ UNCHANGED <<queue, processing, dropped, pc, held, pending, trigger, given, rejected>>
        /\ disk' = [disk EXCEPT ![f] = disk'[f]] /\ disk'[f] \in {"partial", "complete"}
    BY <1>3, <1>i, <1>f DEF BeginUpload, FinishUpload, TypeOK
  <2>1. Live' = Live /\ Waits' = Waits
    BY <2>0 DEF Live, Waits, InHand, Queued, Taken
  <2>2. \A g \in Files : g # f => disk'[g] = disk[g]
    BY <1>i, <2>0 DEF TypeOK
  <2>3. \A c : Same(c, c)
    BY DEF Same
  <2>4. Placed' /\ Opened'
    BY <1>f, <2>0, <2>1, <2>2, <2>3, Passing
  <2>5. UploadHeld'
    <3>1. \A g \in Files : g \notin {} /\ OnDisk(g) => OnDisk(g)'
      BY <2>0, <2>2 DEF OnDisk
    <3>2. QED
      BY <1>i, <1>p, <1>w, <2>0, <2>1, <2>3, <3>1, Lasting
  <2>6. QED
    BY <2>4, <2>5 DEF FileInv
<1>4. ASSUME ObserverRejects, Next PROVE FileInv'
  <2>1. /\ UNCHANGED <<pc, pending, trigger, given>> /\ disk' = Removed({observer.file})
        /\ rejected' = rejected \cup {observer.file} /\ observer.file \in Uploads
    BY <1>4, <1>i DEF ObserverRejects, TypeOK
  <2>2. ~Flush
    BY <1>4, <1>i, <2>1 DEF ObserverRejects, Flush
  <2>3. QED
    BY <1>1, <1>4, <2>1, <2>2
<1>5. ASSUME MainRejects, Next PROVE FileInv'
  <2>1. /\ UNCHANGED <<pending, trigger, given>> /\ disk' = Removed({held}) /\ ~Flush
        /\ rejected' = rejected \cup {held} /\ held \in Uploads
        /\ pc' \notin {"pop", "pop_first"}
    BY <1>5, <1>i DEF MainRejects, Holding, Flush
  <2>2. QED
    BY <1>1, <1>5, <2>1
<1>6. ASSUME Observe \/ RequestStop \/ Take, Next PROVE FileInv'
  <2>1. UNCHANGED <<disk, pending, trigger, given, rejected, pc>>
    BY <1>6 DEF Observe, RequestStop, Take
  <2>2. ~Flush
    BY <1>i, <2>1 DEF Flush
  <2>3. QED
    BY <1>2, <1>6, <2>1, <2>2
<1>7. ASSUME LeaveLoop \/ Scan \/ TakeSnapshot \/ SkipDue \/ Expire \/ BackOff, Next PROVE FileInv'
  BY <1>2, <1>7 DEF LeaveLoop, Scan, TakeSnapshot, SkipDue, Expire, BackOff, Flush
<1>8. ASSUME NotDue \/ Put \/ BeginStop \/ Drain \/ Join, Next PROVE FileInv'
  <2>1. UNCHANGED <<disk, pending, trigger, given, rejected>> /\ pc' \notin {"pop", "pop_first"}
    BY <1>8 DEF NotDue, Put, BeginStop, Drain, Join
  <2>2. CASE NotDue
    <3>1. pending' = pending /\ pc' = "scan" /\ disk' = disk
      BY <2>1, <2>2 DEF NotDue
    <3>2. ~Flush
      BY <2>2, <3>1 DEF Flush, NotDue
    <3>3. QED
      BY <1>2, <1>8, <2>1, <3>2
  <2>3. CASE ~NotDue
    <3>1. ~Flush
      BY <1>8, <2>3 DEF Flush, Put, BeginStop, Drain, Join
    <3>2. QED
      BY <1>2, <1>8, <2>1, <3>1
  <2>4. QED
    BY <2>2, <2>3
<1>9. ASSUME ReportCoalesced, Next PROVE FileInv'
  <2>1. /\ UNCHANGED <<pending, trigger, given, rejected>> /\ disk' = Removed(held.paths) /\ ~Flush
        /\ pc = "report" /\ InHand = {held} /\ pc' \notin {"pop", "pop_first", "put"}
    BY <1>9 DEF ReportCoalesced, Flush, InHand
  <2>2. Waits' = Queued \cup Taken
    BY <1>9, <2>1 DEF ReportCoalesced, Waits, Queued, Taken, InHand
  <2>3. \A c \in Waits' : c \in Live /\ c.id # held.id /\ held \in Live
    BY <1>i, <2>1, <2>2 DEF Apart, Live
  <2>4. \A c \in Waits' : \A f \in c.paths : f \in held.paths => Again(f)
    BY <1>i, <2>3 DEF Placed
  <2>5. QED
    BY <1>1, <1>9, <2>1, <2>4 DEF Again
<1>10. ASSUME ReportStopped, Next PROVE FileInv'
  <2>0. /\ UNCHANGED <<pending, trigger, given, rejected, queue, processing>> /\ ~Flush
        /\ pc = "report_stop" /\ pc' \in {"join", "left", "report_stop"}
    BY <1>10 DEF ReportStopped, Flush
  <2>1. CASE UNCHANGED disk
    BY <1>2, <1>10, <2>0, <2>1
  <2>2. CASE /\ dropped # <<>> /\ dropped' = Tail(dropped)
             /\ disk' = Removed(Head(dropped).paths)
    <3>1. PICK h \in Burst :
             /\ h = Head(dropped) /\ ToSet(dropped) = {h} \cup ToSet(dropped')
             /\ \A c \in ToSet(dropped') : h.id < c.id
      <4>1. /\ Head(dropped) \in Burst /\ ToSet(dropped) = {Head(dropped)} \cup ToSet(Tail(dropped))
            /\ \A c \in ToSet(Tail(dropped)) : Head(dropped).id < c.id
        BY <1>i, <2>2, BurstTypes, HeadGoes DEF Ordered
      <4>2. QED
        BY <2>2, <4>1
    <3>2. ToSet(queue) \subseteq {Sentinel} /\ Sentinel \notin ToSet(dropped)
      <4>1. queue \in {<<Sentinel>>, <<>>}
        BY <1>i, <2>0 DEF Stopping, Ended
      <4>2. QED
        BY <1>i, <4>1, NoBursts DEF Stopping
    <3>3. Queued = ToSet(dropped) /\ Queued' = ToSet(dropped')
      <4>1. Queued = ToSet(dropped)
        BY <3>2 DEF Queued
      <4>2. Queued' = ToSet(dropped')
        BY <2>0, <3>1, <3>2 DEF Queued
      <4>3. QED
        BY <4>1, <4>2
    <3>4. Waits' = ToSet(dropped') \cup Taken /\ h \in Live /\ Waits' \subseteq Live
      <4>1. Taken' = Taken /\ InHand' = {}
        BY <2>0 DEF Taken, InHand
      <4>2. Waits' = ToSet(dropped') \cup Taken
        BY <3>3, <4>1 DEF Waits
      <4>3. QED
        BY <3>1, <3>3, <4>2 DEF Live
    <3>5. \A c \in Waits' : c.id # h.id
      <4>1. \A c \in ToSet(dropped') : c.id # h.id
        BY <1>p, <3>1, <3>3, BurstTypes DEF Live
      <4>2. \A c \in Taken : c.id # h.id
        BY <1>i, <3>1, <3>3 DEF Apart
      <4>3. QED
        BY <3>4, <4>1, <4>2
    <3>6. \A c \in Waits' : \A f \in c.paths : f \in h.paths => Again(f)
      BY <1>i, <3>4, <3>5 DEF Placed
    <3>7. QED
      BY <1>1, <1>10, <2>0, <2>2, <3>1, <3>6 DEF Again
  <2>3. QED
    BY <1>10, <2>1, <2>2 DEF ReportStopped
<1>11. ASSUME Process, Next PROVE FileInv'
  <2>0. /\ UNCHANGED <<pending, trigger, given, rejected, queue, dropped, pc, held>>
        /\ disk' = Removed(processing.taken.paths)
        /\ processing.taken # NoBurst /\ processing'.taken = NoBurst
        /\ fate' = [fate EXCEPT !["processed"] = @ \cup {processing.taken.id}]
    BY <1>11, <1>i DEF Process, TypeOK
  <2>1. ~Flush
    BY <2>0 DEF Flush
  <2>2. PICK h \in Burst : h = processing.taken /\ Taken = {h}
    BY <2>0, BurstTypes DEF Taken
  <2>3. Waits' = Queued \cup {c \in InHand : pc = "put"} /\ h \in Live /\ Waits' \subseteq Live
    BY <2>0, <2>2 DEF Waits, Queued, Taken, InHand, Live
  <2>4. \A c \in Waits' : c.id # h.id
    BY <1>i, <2>2, <2>3 DEF Apart
  <2>5. \A c \in Waits' : \A f \in c.paths : f \in h.paths => Again(f)
    BY <1>i, <2>3, <2>4 DEF Placed
  <2>6. QED
    BY <1>1, <1>11, <2>0, <2>1, <2>2, <2>5 DEF Again
<1>12. ASSUME Collect, Next PROVE FileInv'
  <2>0. /\ pc \in Early /\ pc' \in {"pop", "pop_first"}
        /\ UNCHANGED <<queue, processing, dropped, rejected>>
    BY <1>12 DEF Collect, Early
  <2>1. PICK f \in Uploads : f = Head(due)
    BY <1>12, <1>i, SeqTypes DEF Collect, TypeOK
  <2>2. /\ pending' = Added(f) /\ trigger' = (IF pending = <<>> THEN f ELSE trigger)
        /\ disk' = Removed((ToSet(pending) \cup {f}) \ ToSet(pending'))
        /\ given' = [given EXCEPT ![f] = IF @ < 2 THEN @ + 1 ELSE @]
    BY <1>12, <2>1 DEF Collect
  <2>3. Live' = Live /\ Waits' = Waits
    BY <2>0 DEF Live, Waits, InHand, Queued, Taken, Early
  <2>4. /\ pending' # <<>> /\ ToSet(pending') \subseteq ToSet(pending) \cup {f}
        /\ pending = <<>> => Head(pending') = f
        /\ pending # <<>> /\ f # Head(pending) =>
              Head(pending') = Head(pending) \/ Head(pending) \notin ToSet(pending')
    <3>1. f \in Files /\ pending \in Seq(Files) /\ IsInjective(pending) /\ Len(pending) <= MaxCandidates
      BY <1>i, <1>f DEF TypeOK, Distinct
    <3>2. /\ Added(f) # <<>> /\ ToSet(Added(f)) \subseteq ToSet(pending) \cup {f}
          /\ pending = <<>> => Head(Added(f)) = f
          /\ pending # <<>> /\ f # Head(pending) =>
                Head(Added(f)) = Head(pending) \/ Head(pending) \notin ToSet(Added(f))
      BY <3>1, AddedFacts
    <3>3. QED
      BY <2>2, <3>2
  <2>5. /\ \A g \in Uploads : given'[g] >= given[g] /\ given'[g] \in 0 .. 2
        /\ given'[f] >= 1 /\ (given[f] >= 1 => given'[f] > 1)
    BY <1>i, <2>2, <1>g DEF TypeOK
  <2>6. \A g : Again(g) => Again(g)'
    BY <1>g, <2>5 DEF Again
  <2>7. /\ \A g \in Files : g \notin (ToSet(pending) \cup {f}) \ ToSet(pending') /\ OnDisk(g) => OnDisk(g)'
        /\ \A g \in Files : disk'[g] = "absent" => disk[g] = "absent"
    BY <1>i, <2>2, RemovedLasts
  <2>8. \A b \in Live : f \in b.paths => Again(f)'
    BY <1>i, <2>5 DEF Placed, Again
  <2>9. \A b \in Live : \A g \in b.paths : g \in ToSet(pending) \cup {f} => Again(g)'
    BY <1>i, <2>6, <2>8 DEF Placed
  <2>10. Placed'
    <3>1. \A g \in Uploads : g \in ToSet(pending') => given'[g] >= 1
      BY <1>i, <1>g, <2>4, <2>5 DEF Placed
    <3>2. \A b \in Live : \A g \in b.paths : /\ g \in Uploads => given'[g] >= 1
                                             /\ g \in ToSet(pending') => Again(g)'
      BY <1>i, <1>g, <2>4, <2>5, <2>9 DEF Placed
    <3>3. \A b, c \in Live : b.id # c.id => \A g \in b.paths : g \in c.paths => Again(g)'
      BY <1>i, <2>6 DEF Placed
    <3>4. \A g \in HotFrames : disk'[g] = "absent" => \A b \in Live : g \notin b.paths
      BY <1>i, <1>f, <2>7 DEF Placed
    <3>5. QED
      BY <2>3, <3>1, <3>2, <3>3, <3>4 DEF Placed
  <2>11. Opened'
    <3>1. \A b \in Live : b.trigger \in b.paths => b.first = b.trigger \/ Again(b.trigger)'
      BY <1>i, <2>6 DEF Opened
    <3>2. /\ trigger' \in Uploads /\ given'[trigger'] >= 1
          /\ trigger' = Head(pending') \/ Again(trigger)' \/ trigger' \notin ToSet(pending')
      <4>1. CASE pending = <<>>
        BY <2>2, <2>4, <2>5, <4>1
      <4>2. CASE pending # <<>>
        <5>1. /\ trigger' = trigger /\ trigger \in Uploads /\ given[trigger] >= 1
              /\ trigger = Head(pending) \/ Again(trigger) \/ trigger \notin ToSet(pending)
          BY <1>i, <2>2, <4>2 DEF Opened
        <5>2. given'[trigger] >= 1
          BY <1>g, <2>5, <5>1
        <5>3. CASE f = trigger
          <6>1. given'[trigger] > 1
            BY <2>5, <5>1, <5>3
          <6>2. QED
            BY <5>1, <5>2, <6>1 DEF Again
        <5>4. CASE f # trigger /\ Again(trigger)
          <6>1. given'[trigger] > 1
            BY <1>g, <2>5, <5>1, <5>4 DEF Again
          <6>2. QED
            BY <5>1, <5>2, <6>1 DEF Again
        <5>5. CASE f # trigger /\ trigger = Head(pending)
          BY <2>4, <4>2, <5>1, <5>2, <5>5
        <5>6. CASE f # trigger /\ trigger \notin ToSet(pending)
          BY <2>4, <5>1, <5>2, <5>6
        <5>7. QED
          BY <5>1, <5>3, <5>4, <5>5, <5>6
      <4>3. QED
        BY <4>1, <4>2
    <3>3. QED
      BY <2>3, <2>4, <3>1, <3>2 DEF Opened
  <2>12. UploadHeld'
    <3>1. \A c : Same(c, c)
      BY DEF Same
    <3>2. \A g \in Uploads : given[g] > 1 => given'[g] > 1
      BY <1>g, <2>5
    <3>3. \A c \in Waits' : \A g \in c.paths :
             g \in (ToSet(pending) \cup {f}) \ ToSet(pending') =>
                g \in Uploads /\ (g \in rejected' \/ given'[g] > 1)
      BY <1>w, <2>3, <2>9 DEF Again
    <3>4. PICK S : S = (ToSet(pending) \cup {f}) \ ToSet(pending')
      OBVIOUS
    <3>5. /\ \A g \in Files : g \notin S /\ OnDisk(g) => OnDisk(g)'
          /\ \A c \in Waits' : \A g \in c.paths : g \in Files
          /\ \A c \in Waits' : \A g \in c.paths :
                g \in S => g \in Uploads /\ (g \in rejected' \/ given'[g] > 1)
          /\ \A c \in Waits' : \E b \in Waits : Same(b, c)
      BY <1>p, <1>w, <2>3, <2>7, <3>1, <3>3, <3>4
    <3>6. QED
      BY <1>i, <2>0, <3>2, <3>5, Lasting
  <2>13. QED
    BY <2>10, <2>11, <2>12 DEF FileInv
<1>13. ASSUME Pop, Next PROVE FileInv'
  <2>0. /\ pc \in {"pop", "pop_first"} /\ pc' = "due" /\ pending # <<>>
        /\ UNCHANGED <<queue, processing, dropped, rejected, given, trigger>>
    BY <1>13, <1>i DEF Pop, Opened
  <2>1. PICK frames \in SUBSET {h \in HotFrames : disk[h] = "absent"} :
           /\ pending' = pending \o SetToSeq(frames)
           /\ disk' = [f \in Files |-> IF f \in frames THEN "complete" ELSE disk[f]]
    BY <1>13 DEF Pop
  <2>2. Live' = Live /\ Waits' = Waits
    BY <2>0 DEF Live, Waits, InHand, Queued, Taken
  <2>3. ToSet(pending') \subseteq ToSet(pending) \cup frames /\ Head(pending') = Head(pending)
    <3>1. IsFiniteSet(frames) /\ frames \subseteq Files
      BY <1>f, FS_Subset DEF Files
    <3>2. PICK l \in Seq(Files) :
             l = SetToSeq(frames) /\ IsInjective(l) /\ ToSet(l) \subseteq frames
      <4>1. /\ SetToSeq(frames) \in Seq(frames) /\ IsInjective(SetToSeq(frames))
            /\ ToSet(SetToSeq(frames)) \subseteq frames
        BY <3>1, SetToSeqFacts
      <4>2. SetToSeq(frames) \in Seq(Files)
        BY <3>1, <4>1
      <4>3. QED
        BY <4>1, <4>2
    <3>3. PICK s \in Seq(Files) : s = pending /\ s # <<>>
      BY <1>i, <2>0 DEF TypeOK
    <3>4. ToSet(s) \cap ToSet(l) = {} /\ IsInjective(s)
      BY <1>i, <3>2, <3>3 DEF Distinct
    <3>5. ToSet(s \o l) = ToSet(s) \cup ToSet(l) /\ Head(s \o l) = Head(s)
      BY <3>2, <3>3, <3>4, JoinElements
    <3>6. QED
      BY <2>1, <3>2, <3>3, <3>5
  <2>4. \A g \in Files : /\ OnDisk(g) => OnDisk(g)'
                         /\ disk'[g] = "absent" => disk[g] = "absent"
    BY <2>1 DEF OnDisk
  <2>5. \A g \in frames : g \notin Uploads /\ \A b \in Live : g \notin b.paths
    BY <1>i, <1>f, <2>1 DEF Placed
  <2>6. Placed'
    <3>1. \A g \in Uploads : g \in ToSet(pending') => given[g] >= 1
      BY <1>i, <2>3, <2>5 DEF Placed
    <3>2. \A b \in Live : \A g \in b.paths : /\ g \in Uploads => given[g] >= 1
                                             /\ g \in ToSet(pending') => Again(g)
      BY <1>i, <2>3, <2>5 DEF Placed
    <3>3. \A g \in HotFrames : disk'[g] = "absent" => \A b \in Live : g \notin b.paths
      BY <1>i, <1>f, <2>4 DEF Placed
    <3>4. QED
      BY <1>i, <2>0, <2>2, <3>1, <3>2, <3>3 DEF Placed, Again
  <2>7. Opened'
    <3>1. /\ trigger \in Uploads /\ given[trigger] >= 1
          /\ trigger = Head(pending) \/ Again(trigger) \/ trigger \notin ToSet(pending)
      BY <1>i, <2>0 DEF Opened
    <3>2. trigger = Head(pending') \/ Again(trigger) \/ trigger \notin ToSet(pending')
      BY <2>3, <2>5, <3>1
    <3>3. QED
      BY <1>i, <2>0, <2>2, <3>1, <3>2 DEF Opened, Again
  <2>8. UploadHeld'
    <3>1. \A c : Same(c, c)
      BY DEF Same
    <3>2. \A g \in Files : g \notin {} /\ OnDisk(g) => OnDisk(g)'
      BY <2>4
    <3>3. QED
      BY <1>i, <1>p, <1>w, <2>0, <2>2, <3>1, <3>2, Lasting
  <2>9. QED
    BY <2>6, <2>7, <2>8 DEF FileInv
<1>14. ASSUME Flush, Next PROVE FileInv'
  <2>0. /\ pc = "flush" /\ pending' = <<>> /\ pending # <<>> /\ ToSet(pending') = {} /\ InHand = {}
        /\ UNCHANGED <<queue, processing, dropped, rejected, given>>
    BY <1>14, NoBursts DEF Flush, InHand
  <2>1. PICK ranked \in SUBSET {f \in ToSet(pending) : disk[f] = "complete"} :
           /\ disk' = Removed(ToSet(pending) \ ranked)
           /\ \/ ranked = {} /\ pc' = "scan" /\ UNCHANGED <<held, emitted>>
              \/ \E first \in First(ranked) :
                    /\ held' = [id |-> emitted + 1, first |-> first, paths |-> ranked,
                                trigger |-> trigger, full |-> Len(queue) = MaxPending]
                    /\ emitted' = emitted + 1 /\ pc' = "put"
    BY <1>14 DEF Flush
  <2>2. Queued' = Queued /\ Taken' = Taken /\ Live = Queued \cup Taken /\ Waits = Live
    BY <2>0 DEF Queued, Taken, Live, Waits
  <2>3. /\ \A g \in Files : g \notin ToSet(pending) \ ranked /\ OnDisk(g) => OnDisk(g)'
        /\ \A g \in Files : disk'[g] = "absent" => disk[g] = "absent"
    BY <1>i, <2>1, RemovedLasts
  <2>4. \A b \in Live : \A g \in b.paths : g \in ToSet(pending) => Again(g)
    BY <1>i DEF Placed
  <2>5. \A b \in Live : \A g \in b.paths :
           OnDisk(g)' \/ (g \in Uploads /\ (g \in rejected \/ given[g] > 1))
    <3>1. ASSUME NEW b \in Live, NEW g \in b.paths
          PROVE  OnDisk(g)' \/ (g \in Uploads /\ (g \in rejected \/ given[g] > 1))
      <4>1. g \in Files
        BY <1>p
      <4>2. OnDisk(g) \/ (g \in Uploads /\ (g \in rejected \/ given[g] > 1))
        BY <1>i, <2>2 DEF UploadHeld, Waits
      <4>3. QED
        BY <2>3, <2>4, <4>1, <4>2 DEF Again
    <3>2. QED
      BY <3>1
  <2>6. \A g \in HotFrames : disk'[g] = "absent" => \A b \in Live : g \notin b.paths
    BY <1>i, <1>f, <2>3 DEF Placed
  <2>7. CASE pc' = "scan"
    <3>1. Live' = Live /\ Waits' = Live
      BY <2>2, <2>7 DEF Live, Waits, InHand
    <3>2. Placed'
      BY <1>i, <2>0, <2>6, <3>1 DEF Placed, Again
    <3>3. Opened'
      BY <1>i, <2>0, <2>7, <3>1 DEF Opened, Again
    <3>4. UploadHeld'
      BY <2>0, <2>5, <3>1 DEF UploadHeld, Waits
    <3>5. QED
      BY <3>2, <3>3, <3>4 DEF FileInv
  <2>8. ASSUME NEW first \in First(ranked),
               held' = [id |-> emitted + 1, first |-> first, paths |-> ranked,
                        trigger |-> trigger, full |-> Len(queue) = MaxPending],
               pc' = "put"
        PROVE  FileInv'
    <3>1. PICK h : /\ h = held' /\ h.id = emitted + 1 /\ h.paths = ranked
                   /\ h.first = first /\ h.trigger = trigger
      BY <2>8
    <3>2. Live' = Live \cup {h} /\ Waits' = Live \cup {h}
      BY <2>2, <2>8, <3>1 DEF Live, Waits, InHand
    <3>3. ranked \subseteq ToSet(pending) /\ ranked \subseteq Files
          /\ \A g \in ranked : disk[g] = "complete"
      <4>1. ToSet(pending) \subseteq Files
        BY <1>i, InToSet DEF TypeOK
      <4>2. QED
        BY <2>1, <4>1
    <3>4. Placed'
      <4>1. \A b \in Live : \A g \in b.paths : g \in Uploads => given[g] >= 1
        BY <1>i DEF Placed
      <4>2. \A g \in ranked : g \in Uploads => given[g] >= 1
        BY <1>i, <3>3 DEF Placed
      <4>3. \A b \in Live : \A g \in b.paths : g \in ranked => Again(g)
        BY <2>4, <3>3
      <4>4. ASSUME NEW b \in Live', NEW c \in Live', b.id # c.id, NEW g \in b.paths, g \in c.paths
            PROVE  Again(g)
        <5>1. CASE b \in Live /\ c \in Live
          BY <1>i, <4>4, <5>1 DEF Placed
        <5>2. CASE b \in Live /\ c = h
          BY <3>1, <4>3, <4>4, <5>2
        <5>3. CASE c \in Live /\ b = h
          BY <3>1, <4>3, <4>4, <5>3
        <5>4. QED
          BY <3>2, <4>4, <5>1, <5>2, <5>3
      <4>5. \A g \in HotFrames : disk'[g] = "absent" => g \notin ranked
        BY <1>f, <2>3, <3>3
      <4>6. QED
        BY <2>0, <2>6, <3>1, <3>2, <4>1, <4>2, <4>4, <4>5 DEF Placed, Again
    <3>5. Opened'
      <4>1. trigger \in ranked => first = trigger \/ Again(trigger)
        <5>1. trigger = Head(pending) \/ Again(trigger) \/ trigger \notin ToSet(pending)
          BY <1>i, <2>0 DEF Opened
        <5>2. trigger = Head(pending) /\ trigger \in ranked => first = trigger
          BY <2>8 DEF First
        <5>3. QED
          BY <3>3, <5>1, <5>2
      <4>2. \A b \in Live : b.trigger \in b.paths => b.first = b.trigger \/ Again(b.trigger)
        BY <1>i DEF Opened
      <4>3. QED
        BY <2>0, <2>8, <3>1, <3>2, <4>1, <4>2 DEF Opened, Again
    <3>6. UploadHeld'
      <4>1. \A g \in ranked : OnDisk(g)'
        BY <2>3, <3>3 DEF OnDisk
      <4>2. QED
        BY <2>0, <2>5, <3>1, <3>2, <4>1 DEF UploadHeld, Waits
    <3>7. QED
      BY <3>4, <3>5, <3>6 DEF FileInv
  <2>9. QED
    BY <2>1, <2>7, <2>8
<1>15. QED
  BY <1>u, <1>3, <1>4, <1>5, <1>6, <1>7, <1>8, <1>9, <1>10, <1>11, <1>12, <1>13, <1>14
     DEF Next, MainStep, ObserverStep, ProcessorStep

\* All three invariants hold in every state.
LEMMA FilesHold == Spec => [](TypeInv /\ Account /\ FileInv)
<1>1. TypeInv /\ Account /\ FileInv /\ [Next]_vars => (TypeInv /\ Account /\ FileInv)'
  BY TypeStep, AccountStep, FileStep
<1>2. QED
  BY <1>1, TypeInit, AccountInit, FileInit, PTL DEF Spec

\* The processor finds the files of its burst: whoever removes a file that a waiting burst
\* lists has rejected that very upload, or had it collected a second time.
THEOREM FilesAwaitTheirTurn == Spec => []UploadHeld
<1>1. FileInv => UploadHeld
  BY DEF FileInv
<1>2. QED
  BY <1>1, FilesHold, PTL

\* BurstCollector hands the upload that opened a burst to the processor first, whatever
\* overflowed and whichever hot frames joined, unless it was collected a second time.
THEOREM OpeningUploadFirst == Spec => []FtpFirstUnlessAgain
<1>1. FileInv => FtpFirstUnlessAgain
  BY DEF FileInv, Opened, FtpFirstUnlessAgain, Live, Again
<1>2. QED
  BY <1>1, FilesHold, PTL
=============================================================================
