------------------------ MODULE ComposerQueue_proofs ------------------------
(***************************************************************************)
(* What holds of ComposerQueue for every number of sessions, prompts and   *)
(* tries.                                                                  *)
(***************************************************************************)
EXTENDS ComposerQueue, SequenceTheorems, TLAPS

(***************************************************************************)
(* The operations of a queue                                               *)
(***************************************************************************)
Injective(q) == \A i, k \in DOMAIN q : q[i] = q[k] => i = k

LEMMA ElementsLemma ==
  ASSUME NEW S, NEW q \in Seq(S)
  PROVE  /\ Elements(q) \subseteq S
         /\ \A x : x \in Elements(q) <=> \E i \in 1..Len(q) : q[i] = x
         /\ Injective(q) <=> \A i, k \in 1..Len(q) : q[i] = q[k] => i = k
<1>1. DOMAIN q = 1..Len(q) /\ \A i \in 1..Len(q) : q[i] \in S
  OBVIOUS
<1> QED
  BY <1>1 DEF Elements, Injective

(* What removeQueuedPrompt leaves.                                         *)
LEMMA WithoutLemma ==
  ASSUME NEW S, NEW q \in Seq(S), NEW p
  PROVE  /\ Without(q, p) \in Seq(S)
         /\ Elements(Without(q, p)) \subseteq Elements(q)
         /\ Elements(q) \ Elements(Without(q, p)) \subseteq {p}
         /\ Injective(q) => /\ Injective(Without(q, p))
                            /\ p \notin Elements(Without(q, p))
<1>1. CASE p \notin Elements(q)
  BY <1>1 DEF Without
<1>2. CASE p \in Elements(q)
  <2> DEFINE w == Without(q, p)
  <2>1. PICK i \in 1..Len(q) :
          q[i] = p /\ w = SubSeq(q, 1, i - 1) \o SubSeq(q, i + 1, Len(q))
    <3>1. \E i \in DOMAIN q : q[i] = p
      BY <1>2, ElementsLemma
    <3>2. PICK i \in DOMAIN q : q[i] = p /\ w = RemoveAt(q, i)
      BY <1>2, <3>1 DEF Without
    <3>3. i \in 1..Len(q)
      BY <3>2
    <3>4. w = SubSeq(q, 1, i - 1) \o SubSeq(q, i + 1, Len(q))
      BY <3>2, Zenon DEF RemoveAt
    <3> QED
      BY <3>2, <3>3, <3>4, Zenon
  <2> HIDE DEF w
  <2>2. /\ SubSeq(q, 1, i - 1) \in Seq(S) /\ Len(SubSeq(q, 1, i - 1)) = i - 1
        /\ \A k \in 1..(i - 1) : SubSeq(q, 1, i - 1)[k] = q[k]
    <3>1. \A k \in 1..(i - 1) : q[k] \in S
      BY <2>1
    <3> QED
      BY <3>1, SubSeqProperties, Z3
  <2>3. /\ SubSeq(q, i + 1, Len(q)) \in Seq(S)
        /\ Len(SubSeq(q, i + 1, Len(q))) = Len(q) - i
        /\ \A k \in 1..(Len(q) - i) : SubSeq(q, i + 1, Len(q))[k] = q[i + k]
    <3>1. \A k \in (i + 1)..Len(q) : q[k] \in S
      BY <2>1
    <3> QED
      BY <3>1, SubSeqProperties, Z3
  <2>4. /\ w \in Seq(S) /\ Len(w) = Len(q) - 1
        /\ \A k \in 1..Len(w) : w[k] = IF k < i THEN q[k] ELSE q[k + 1]
    <3> DEFINE a == SubSeq(q, 1, i - 1)
               b == SubSeq(q, i + 1, Len(q))
    <3>1. a \in Seq(S) /\ b \in Seq(S) /\ Len(a) = i - 1 /\ Len(b) = Len(q) - i
      BY <2>2, <2>3
    <3>2. /\ \A k \in 1..(i - 1) : a[k] = q[k]
          /\ \A k \in 1..(Len(q) - i) : b[k] = q[i + k]
      BY <2>2, <2>3
    <3>3. w = a \o b
      BY <2>1
    <3> HIDE DEF a, b
    <3>4. /\ w \in Seq(S) /\ Len(w) = Len(a) + Len(b)
          /\ \A k \in 1..(Len(a) + Len(b)) :
               w[k] = IF k <= Len(a) THEN a[k] ELSE b[k - Len(a)]
      BY <3>1, <3>3, ConcatProperties
    <3>5. Len(w) = Len(q) - 1
      BY <3>1, <3>4
    <3>6. ASSUME NEW k \in 1..Len(w)
          PROVE  w[k] = IF k < i THEN q[k] ELSE q[k + 1]
      <4>1. CASE k < i
        BY <4>1, <3>1, <3>2, <3>4, <3>5
      <4>2. CASE k >= i
        <5>1. k - Len(a) \in 1..(Len(q) - i) /\ i + (k - Len(a)) = k + 1
          BY <4>2, <3>1, <3>5
        <5> QED
          BY <4>2, <5>1, <3>1, <3>2, <3>4, <3>5
      <4> QED
        BY <4>1, <4>2, <3>1
    <3> QED
      BY <3>4, <3>5, <3>6
  <2>5. Elements(w) \subseteq Elements(q)
    <3>1. \A k \in 1..Len(w) : \E l \in 1..Len(q) : q[l] = w[k]
      BY <2>4
    <3> QED
      BY <3>1, <2>4, ElementsLemma
  <2>6. Elements(q) \ Elements(w) \subseteq {p}
    <3>1. \A k \in 1..Len(q) : k = i \/ \E l \in 1..Len(w) : w[l] = q[k]
      <4>1. ASSUME NEW k \in 1..Len(q), k < i
            PROVE  k \in 1..Len(w) /\ w[k] = q[k]
        BY <2>4, <4>1
      <4>2. ASSUME NEW k \in 1..Len(q), k > i
            PROVE  k - 1 \in 1..Len(w) /\ w[k - 1] = q[k]
        BY <2>4, <4>2
      <4> QED
        BY <4>1, <4>2
    <3>2. ASSUME NEW x \in Elements(q), x \notin Elements(w) PROVE x = p
      <4>1. PICK k \in 1..Len(q) : q[k] = x
        BY ElementsLemma
      <4>2. ~\E l \in 1..Len(w) : w[l] = x
        BY <3>2, <2>4, ElementsLemma
      <4> QED
        BY <3>1, <4>1, <4>2, <2>1
    <3> QED
      BY <3>2
  <2>7. ASSUME Injective(q) PROVE Injective(w) /\ p \notin Elements(w)
    <3>1. \A k, l \in 1..Len(q) : q[k] = q[l] => k = l
      BY <2>7, ElementsLemma
    <3>2. ASSUME NEW k \in 1..Len(w) PROVE w[k] # p
      <4>1. k \in 1..Len(q) /\ k + 1 \in 1..Len(q)
        BY <2>4
      <4>2. k < i => q[k] # p
        BY <2>1, <3>1, <4>1
      <4>3. k >= i => q[k + 1] # p
        BY <2>1, <3>1, <4>1
      <4> QED
        BY <2>4, <4>2, <4>3
    <3>3. \A k, l \in 1..Len(w) : w[k] = w[l] => k = l
      BY <2>4, <3>1
    <3> QED
      BY <3>2, <3>3, <2>4, ElementsLemma
  <2> QED
    BY <2>4, <2>5, <2>6, <2>7 DEF w
<1> QED
  BY <1>1, <1>2

(* What promoteQueuedPrompt leaves: the same prompts.                      *)
LEMMA PromotedLemma ==
  ASSUME NEW S, NEW q \in Seq(S), NEW p \in S
  PROVE  /\ Promoted(q, p) \in Seq(S)
         /\ Elements(Promoted(q, p)) = Elements(q)
         /\ Injective(q) => Injective(Promoted(q, p))
<1>1. CASE p \notin Elements(q)
  BY <1>1 DEF Promoted
<1>2. CASE p \in Elements(q)
  <2> DEFINE w == Without(q, p)
             r == <<p>> \o w
  <2>1. /\ w \in Seq(S)
        /\ Elements(w) \subseteq Elements(q)
        /\ Elements(q) \ Elements(w) \subseteq {p}
        /\ Injective(q) => Injective(w) /\ p \notin Elements(w)
    BY WithoutLemma
  <2>2. r = Promoted(q, p)
    BY <1>2 DEF Promoted
  <2> HIDE DEF w
  <2>3. /\ r \in Seq(S) /\ Len(r) = Len(w) + 1
        /\ r[1] = p /\ \A k \in 1..Len(w) : r[k + 1] = w[k]
    <3>1. <<p>> \in Seq(S) /\ Len(<<p>>) = 1 /\ <<p>>[1] = p
      OBVIOUS
    <3> QED
      BY <2>1, <3>1, ConcatProperties, Z3
  <2> HIDE DEF r
  <2>4. \A k \in 1..Len(r) : k = 1 \/ (k - 1 \in 1..Len(w) /\ r[k] = w[k - 1])
    BY <2>1, <2>3
  <2>5. Elements(r) = Elements(w) \cup {p}
    <3>1. \A k \in 1..Len(w) : k + 1 \in 1..Len(r)
      BY <2>1, <2>3
    <3>2. 1 \in 1..Len(r)
      BY <2>1, <2>3
    <3>3. ASSUME NEW x \in Elements(r) PROVE x \in Elements(w) \cup {p}
      <4>1. PICK k \in 1..Len(r) : r[k] = x
        BY <2>3, ElementsLemma
      <4>2. k = 1 \/ \E j \in 1..Len(w) : w[j] = x
        BY <4>1, <2>4
      <4> QED
        BY <4>1, <4>2, <2>1, <2>3, ElementsLemma
    <3>4. ASSUME NEW x \in Elements(w) PROVE x \in Elements(r)
      <4>1. PICK k \in 1..Len(w) : w[k] = x
        BY <2>1, ElementsLemma
      <4>2. \E j \in 1..Len(r) : r[j] = x
        BY <4>1, <2>3, <3>1
      <4> QED
        BY <4>2, <2>3, ElementsLemma
    <3>5. p \in Elements(r)
      BY <2>3, <3>2, ElementsLemma
    <3> QED
      BY <3>3, <3>4, <3>5
  <2>6. Injective(q) => Injective(r)
    <3>1. ASSUME Injective(q), NEW k \in 1..Len(r), NEW l \in 1..Len(r), r[k] = r[l]
          PROVE  k = l
      <4>1. \A j \in 1..Len(w) : w[j] # p
        BY <2>1, <3>1, ElementsLemma
      <4>2. \A j, m \in 1..Len(w) : w[j] = w[m] => j = m
        BY <2>1, <3>1, ElementsLemma
      <4>3. CASE k = 1 /\ l # 1
        BY <4>3, <4>1, <3>1, <2>3, <2>4
      <4>4. CASE k # 1 /\ l = 1
        BY <4>4, <4>1, <3>1, <2>3, <2>4
      <4>5. CASE k # 1 /\ l # 1
        <5>1. k - 1 = l - 1
          BY <4>5, <4>2, <3>1, <2>4
        <5> QED
          BY <5>1
      <4> QED
        BY <4>3, <4>4, <4>5
    <3> QED
      BY <3>1, <2>3, ElementsLemma
  <2> QED
    BY <1>2, <2>1, <2>2, <2>3, <2>5, <2>6
<1> QED
  BY <1>1, <1>2

LEMMA AppendLemma ==
  ASSUME NEW S, NEW q \in Seq(S), NEW p \in S
  PROVE  /\ Append(q, p) \in Seq(S)
         /\ Elements(Append(q, p)) = Elements(q) \cup {p}
         /\ Injective(q) /\ p \notin Elements(q) => Injective(Append(q, p))
<1> DEFINE r == Append(q, p)
<1>1. /\ r \in Seq(S) /\ Len(r) = Len(q) + 1
      /\ r[Len(q) + 1] = p /\ \A k \in 1..Len(q) : r[k] = q[k]
  BY AppendProperties
<1> HIDE DEF r
<1>2. \A k \in 1..Len(r) : k = Len(q) + 1 \/ k \in 1..Len(q)
  BY <1>1
<1>3. \A k \in 1..Len(q) : k \in 1..Len(r)
  BY <1>1
<1>4. Len(q) + 1 \in 1..Len(r)
  BY <1>1
<1>5. Elements(r) = Elements(q) \cup {p}
  BY <1>1, <1>2, <1>3, <1>4, ElementsLemma
<1>6. Injective(q) /\ p \notin Elements(q) => Injective(r)
  <2>1. ASSUME Injective(q), p \notin Elements(q),
               NEW k \in 1..Len(r), NEW l \in 1..Len(r), r[k] = r[l]
        PROVE  k = l
    BY <1>1, <1>2, <2>1, ElementsLemma
  <2> QED
    BY <2>1, <1>1, ElementsLemma
<1> QED
  BY <1>1, <1>5, <1>6 DEF r

(* The head of a queue is one of its prompts.                              *)
LEMMA HeadLemma ==
  ASSUME NEW S, NEW q \in Seq(S), q # <<>>
  PROVE  Head(q) \in Elements(q) /\ Head(q) \in S
<1>1. 1 \in 1..Len(q) /\ Head(q) = q[1]
  OBVIOUS
<1> QED
  BY <1>1, ElementsLemma

(***************************************************************************)
(* Types, and what a drainer at work looks like: it has a prompt and a     *)
(* session, the background drainer its own, and from the resume on the     *)
(* runtime is that of the session.                                         *)
(***************************************************************************)
Active(d) == job[d].step \notin {"idle", "done"}

ActiveInv == \A d \in Drainers :
  /\ Active(d) => /\ job[d].prompt \in Prompts /\ job[d].to \in Sessions
                  /\ d # Composer => job[d].to = d /\ job[d].auto
  /\ job[d].step = "resume" => job[d].rt = None
  /\ job[d].step \in {"attach", "again", "sent", "last"} => job[d].rt = job[d].to

(* The types of what the drainers and the queue are made of ...            *)
CoreOK == /\ queue \in [Sessions -> Seq(Prompts)]
          /\ parked \in [Sessions -> BOOLEAN]
          /\ route \in Sessions /\ view \in Sessions
          /\ busy \in [Sessions -> BOOLEAN]
          /\ lock \subseteq Sessions
          /\ job \in [Drainers -> Jobs]
          /\ fails \in [Drainers -> [Prompts -> 0..MaxTries]]
          /\ due \in BOOLEAN
          /\ retry \in BOOLEAN
          /\ pending \in [Sessions -> Nat]
          /\ served \in [Sessions -> Seq(Prompts)]
          /\ last \in 0..MaxPrompts

(* ... and of the marks that are put on sessions and prompts.              *)
MarksOK == /\ interrupted \subseteq Sessions /\ awaiting \subseteq Sessions
           /\ active \subseteq Sessions
           /\ held \in [Sessions -> SUBSET Prompts]

TInv == CoreOK /\ ActiveInv

(* The prompt has been given to the server, once or again.                 *)
Sent(d) == job[d].step \in {"sent", "last"}

LEMMA EndedLemma ==
  ASSUME NEW d \in Drainers
  PROVE  /\ Idle \in Jobs
         /\ job[d] \in Jobs => Ended(d) \in Jobs
         /\ Ended(d).step = IF d = Composer THEN "idle" ELSE "done"
         /\ d # Composer => Ended(d).prompt = job[d].prompt
         /\ Idle.step = "idle" /\ Idle.auto = FALSE /\ Idle.to = None
         /\ Ended(d).auto = FALSE /\ Ended(d).to = None
<1>1. 0 \in 0..MaxPrompts
  BY QueueAssumption
<1>2. Idle \in Jobs
  BY <1>1 DEF Idle, Jobs, Steps
<1>3. job[d] \in Jobs =>
        [Idle EXCEPT !.step = "done", !.prompt = job[d].prompt] \in Jobs
  BY <1>1 DEF Idle, Jobs, Steps
<1> QED
  BY <1>2, <1>3 DEF Ended, Idle

LEMMA EndedSteps ==
  \A d \in Drainers : Ended(d).step \in {"idle", "done"}
BY EndedLemma

LEMMA WriteLemma ==
  ASSUME CoreOK, NEW s \in Sessions, NEW q \in Seq(Prompts), NEW b \in BOOLEAN,
         Write(s, q, b)
  PROVE  /\ queue' \in [Sessions -> Seq(Prompts)]
         /\ parked' \in [Sessions -> BOOLEAN]
         /\ queue'[s] = q /\ parked'[s] = (b /\ q # <<>>)
         /\ \A t \in Sessions \ {s} : queue'[t] = queue[t] /\ parked'[t] = parked[t]
BY DEF CoreOK, Write

LEMMA BusyLemma ==
  ASSUME CoreOK, NEW j, Seed(j) \/ Unseed(j) \/ UNCHANGED turnVars
  PROVE  busy' \in [Sessions -> BOOLEAN]
BY DEF CoreOK, Seed, Unseed, SetBusy, turnVars

LEMMA CountedLemma ==
  ASSUME CoreOK, NEW d \in Drainers, NEW j \in Jobs, j.prompt \in Prompts,
         Counted(d, j)
  PROVE  /\ fails' \in [Drainers -> [Prompts -> 0..MaxTries]]
         /\ retry' \in BOOLEAN
         /\ retry => retry'
         /\ \A e \in Drainers \ {d} : fails'[e] = fails[e]
         /\ j.auto /\ d # Composer =>
              retry' \/ \E p \in Prompts : fails'[d][p] = MaxTries
         /\ \A p \in Prompts : fails[d][p] = MaxTries => fails'[d][p] = MaxTries
<1>1. MaxTries \in Nat \ {0}
  BY QueueAssumption
<1>2. CASE ~j.auto
  BY <1>2 DEF CoreOK, Counted, Jobs
<1>3. CASE j.auto
  <2> DEFINE n == IF fails[d][j.prompt] < MaxTries THEN fails[d][j.prompt] + 1
                                                  ELSE fails[d][j.prompt]
  <2>1. fails[d] \in [Prompts -> 0..MaxTries] /\ fails[d][j.prompt] \in 0..MaxTries
    BY DEF CoreOK
  <2>2. n \in 0..MaxTries
    BY <1>1, <2>1
  <2>3. fails' = [fails EXCEPT ![d] = [fails[d] EXCEPT ![j.prompt] = n]]
    BY <1>3 DEF Counted
  <2>4. retry' = (retry \/ (d # Composer /\ fails'[d][j.prompt] < MaxTries))
    BY <1>3 DEF Counted
  <2>5. fails[d][j.prompt] = MaxTries => n = MaxTries
    BY <2>1, <1>1
  <2> HIDE DEF n
  <2>6. fails' \in [Drainers -> [Prompts -> 0..MaxTries]] /\ fails'[d][j.prompt] = n
    BY <2>1, <2>2, <2>3 DEF CoreOK
  <2>7. ~(n < MaxTries) => n = MaxTries
    BY <2>2, <1>1
  <2>8. /\ \A e \in Drainers \ {d} : fails'[e] = fails[e]
        /\ \A p \in Prompts : fails[d][p] = MaxTries => fails'[d][p] = MaxTries
    BY <2>1, <2>3, <2>5, <2>6 DEF CoreOK
  <2> QED
    BY <2>4, <2>6, <2>7, <2>8 DEF CoreOK
<1> QED
  BY <1>2, <1>3

(* A drainer moves on to another record, the others stay as they are.      *)
LEMMA MoveLemma ==
  ASSUME TInv, NEW d \in Drainers, NEW k \in Jobs, job' = [job EXCEPT ![d] = k],
         k.step \notin {"idle", "done"} =>
           /\ k.prompt \in Prompts /\ k.to \in Sessions
           /\ d # Composer => k.to = d /\ k.auto,
         k.step = "resume" => k.rt = None,
         k.step \in {"attach", "again", "sent", "last"} => k.rt = k.to
  PROVE  /\ job' \in [Drainers -> Jobs] /\ ActiveInv'
         /\ job'[d] = k /\ \A e \in Drainers \ {d} : job'[e] = job[e]
<1>1. job' \in [Drainers -> Jobs] /\ job'[d] = k
  BY DEF TInv, CoreOK
<1>2. \A e \in Drainers \ {d} : job'[e] = job[e]
  BY DEF TInv, CoreOK
<1> QED
  BY <1>1, <1>2 DEF TInv, ActiveInv, Active

LEMMA TInvInit == Init => TInv
<1> SUFFICES ASSUME Init PROVE TInv
  OBVIOUS
<1>1. MaxTries \in Nat \ {0} /\ MaxPrompts \in Nat
  BY QueueAssumption
<1>2. queue \in [Sessions -> Seq(Prompts)] /\ served \in [Sessions -> Seq(Prompts)]
  BY DEF Init
<1>3. job \in [Drainers -> Jobs] /\ \A d \in Drainers : job[d] = Idle
  BY EndedLemma DEF Init
<1>4. fails \in [Drainers -> [Prompts -> 0..MaxTries]]
  BY <1>1 DEF Init
<1>5. CoreOK
  <2>1. pending \in [Sessions -> Nat] /\ busy \in [Sessions -> BOOLEAN]
    BY DEF Init
  <2>2. last \in 0..MaxPrompts /\ route \in Sessions /\ view \in Sessions
    BY <1>1 DEF Init
  <2>3. parked \in [Sessions -> BOOLEAN] /\ lock \subseteq Sessions
    BY DEF Init
  <2> QED
    BY <1>2, <1>3, <1>4, <2>1, <2>2, <2>3 DEF Init, CoreOK
<1>6. ActiveInv
  BY <1>3 DEF ActiveInv, Active, Idle
<1> QED
  BY <1>5, <1>6 DEF TInv

(***************************************************************************)
(* The actions of the drainers, by what the invariants need to know of     *)
(* them.                                                                   *)
(***************************************************************************)
Others(d) == /\ \A e \in Drainers \ {d} : job'[e] = job[e] /\ fails'[e] = fails[e]
             /\ UNCHANGED <<route, view, last>>

SameJob(d) == /\ job'[d].prompt = job[d].prompt /\ job'[d].to = job[d].to
              /\ job'[d].auto = job[d].auto

(* Retries of the background drainer of s go on, or are used up.           *)
Retries(s) == retry \/ \E p \in Prompts : fails[s][p] = MaxTries

(* A submit starts, or is turned away.                                     *)
SubmitStarts(d) ==
  /\ job[d].to \notin lock
  /\ d = Composer \/ job[d].prompt \in Elements(queue[d])
  /\ lock' = lock \cup {job[d].to}
  /\ SameJob(d)
  /\ job'[d].step \in {"resume", "attach"}
  /\ fails'[d] = fails[d]

SubmitRefused(d) ==
  /\ job'[d] = Ended(d)
  /\ lock' = lock
  /\ d # Composer /\ job[d].prompt \in Elements(queue[d]) => Retries(d)'
  /\ \A p \in Prompts : fails[d][p] = MaxTries => fails'[d][p] = MaxTries

LEMMA SubmitsLemma ==
  ASSUME TInv, NEW d \in Drainers, Submits(d)
  PROVE  /\ TInv' /\ Others(d) /\ job[d].step = "asked"
         /\ UNCHANGED <<queue, parked, served, pending>>
         /\ retry => retry'
         /\ SubmitStarts(d) \/ SubmitRefused(d)
<1> DEFINE j == job[d]
<1>1. /\ j \in Jobs /\ j.step = "asked" /\ j.prompt \in Prompts /\ j.to \in Sessions
      /\ d # Composer => j.to = d /\ j.auto
  BY DEF Submits, TInv, CoreOK, ActiveInv, Active
<1>2. UNCHANGED <<route, view, queue, parked, last, pending, served>>
  BY DEF Submits, uiVars, queueVars, serverVars
<1>3. due' \in BOOLEAN
  BY DEF Submits, Noted, Changed, TInv, CoreOK
<1>4. CASE /\ ~(d = Composer \/ j.prompt \in Elements(queue[d]))
           /\ job' = [job EXCEPT ![d] = Ended(d)]
           /\ UNCHANGED <<turnVars, lock, fails, retry>>
  <2>1. job' \in [Drainers -> Jobs] /\ ActiveInv' /\ job'[d] = Ended(d)
        /\ \A e \in Drainers \ {d} : job'[e] = job[e]
    BY <1>1, <1>4, EndedLemma, MoveLemma
  <2>2. busy' = busy /\ UNCHANGED <<lock, fails, retry>>
    BY <1>4 DEF turnVars
  <2> QED
    BY <1>1, <1>2, <1>3, <1>4, <2>1, <2>2 DEF TInv, CoreOK, Others, SubmitRefused
<1>5. CASE Submit(d) /\ (d = Composer \/ j.prompt \in Elements(queue[d]))
  <2>1. CASE j.to \in lock
    <3>1. /\ job' = [job EXCEPT ![d] = Ended(d)] /\ Counted(d, j)
          /\ busy' = busy /\ lock' = lock
      BY <1>5, <2>1 DEF Submit, turnVars
    <3>2. job' \in [Drainers -> Jobs] /\ ActiveInv' /\ job'[d] = Ended(d)
          /\ \A e \in Drainers \ {d} : job'[e] = job[e]
      BY <1>1, <3>1, EndedLemma, MoveLemma
    <3>3. /\ fails' \in [Drainers -> [Prompts -> 0..MaxTries]]
          /\ retry' \in BOOLEAN
          /\ retry => retry'
          /\ \A e \in Drainers \ {d} : fails'[e] = fails[e]
          /\ j.auto /\ d # Composer =>
               retry' \/ \E p \in Prompts : fails'[d][p] = MaxTries
          /\ \A p \in Prompts : fails[d][p] = MaxTries => fails'[d][p] = MaxTries
      BY <1>1, <3>1, CountedLemma DEF TInv
    <3>4. CoreOK'
      BY <1>2, <1>3, <3>1, <3>2, <3>3 DEF TInv, CoreOK
    <3> QED
      BY <1>1, <1>2, <3>1, <3>2, <3>3, <3>4 DEF TInv, Others, SubmitRefused, Retries
  <2>2. CASE j.to \notin lock
    <3>1. PICK rt \in Runtimes(j) :
            LET k == [j EXCEPT !.rt = rt, !.here = (view = j.to),
                               !.step = IF rt = None THEN "resume" ELSE "attach"]
            IN  /\ lock' = lock \cup {j.to}
                /\ job' = [job EXCEPT ![d] = k]
                /\ Seed(k)
                /\ UNCHANGED <<fails, retry>>
      BY <1>5, <2>2 DEF Submit
    <3> DEFINE k == [j EXCEPT !.rt = rt, !.here = (view = j.to),
                              !.step = IF rt = None THEN "resume" ELSE "attach"]
    <3>2. /\ k \in Jobs /\ k.prompt = j.prompt /\ k.to = j.to /\ k.auto = j.auto
          /\ k.rt = rt /\ k.step \in {"resume", "attach"}
          /\ k.step = "resume" => k.rt = None
          /\ k.step = "attach" => k.rt = k.to
      BY <1>1, <3>1 DEF Jobs, Steps, Runtimes
    <3>3. /\ lock' = lock \cup {j.to} /\ job' = [job EXCEPT ![d] = k]
          /\ Seed(k) /\ UNCHANGED <<fails, retry>>
      BY <3>1
    <3> HIDE DEF k
    <3>4. job' \in [Drainers -> Jobs] /\ ActiveInv' /\ job'[d] = k
          /\ \A e \in Drainers \ {d} : job'[e] = job[e]
      BY <1>1, <3>2, <3>3, MoveLemma
    <3>5. busy' \in [Sessions -> BOOLEAN]
      BY <3>3, BusyLemma DEF TInv
    <3>6. CoreOK'
      BY <1>1, <1>2, <1>3, <3>3, <3>4, <3>5 DEF TInv, CoreOK
    <3> QED
      BY <1>1, <1>2, <1>5, <2>2, <3>2, <3>3, <3>4, <3>5, <3>6
      DEF TInv, Others, SubmitStarts, SameJob
  <2> QED
    BY <2>1, <2>2
<1> QED
  BY <1>4, <1>5 DEF Submits

LEMMA ResumedLemma ==
  ASSUME TInv, NEW d \in Drainers, Resumed(d)
  PROVE  /\ TInv' /\ Others(d) /\ Quiet /\ job[d].step = "resume"
         /\ UNCHANGED <<queue, parked, served, pending, lock, fails, retry>>
         /\ SameJob(d) /\ job'[d].step = "attach"
<1> DEFINE j == job[d]
           k == [j EXCEPT !.rt = j.to, !.step = "attach"]
<1>1. /\ j \in Jobs /\ j.step = "resume" /\ j.prompt \in Prompts /\ j.to \in Sessions
      /\ d # Composer => j.to = d /\ j.auto
  BY DEF Resumed, TInv, CoreOK, ActiveInv, Active
<1>2. /\ Quiet /\ job' = [job EXCEPT ![d] = k] /\ Seed(k)
      /\ UNCHANGED <<route, view, queue, parked, last, lock, fails, retry, pending, served>>
  BY DEF Resumed, uiVars, queueVars, serverVars
<1>3. due' \in BOOLEAN
  BY DEF Resumed, Noted, Changed, TInv, CoreOK
<1>4. /\ k \in Jobs /\ k.prompt = j.prompt /\ k.to = j.to /\ k.auto = j.auto
      /\ k.rt = k.to /\ k.step = "attach"
  BY <1>1 DEF Jobs, Steps
<1> HIDE DEF k
<1>5. job' \in [Drainers -> Jobs] /\ ActiveInv' /\ job'[d] = k
      /\ \A e \in Drainers \ {d} : job'[e] = job[e]
  BY <1>1, <1>2, <1>4, MoveLemma
<1>6. busy' \in [Sessions -> BOOLEAN]
  BY <1>2, BusyLemma DEF TInv
<1>7. CoreOK'
  BY <1>2, <1>3, <1>5, <1>6 DEF TInv, CoreOK
<1> QED
  BY <1>1, <1>2, <1>4, <1>5, <1>6, <1>7 DEF TInv, Others, SameJob

LEMMA DeliveredLemma ==
  ASSUME TInv, NEW d \in Drainers, Delivered(d)
  PROVE  /\ TInv' /\ Others(d) /\ Quiet /\ job[d].step \in {"attach", "again"}
         /\ UNCHANGED <<queue, parked, lock, fails, retry>>
         /\ served'[job[d].to] = Append(served[job[d].to], job[d].prompt)
         /\ \A s \in Sessions \ {job[d].to} : served'[s] = served[s]
         /\ SameJob(d) /\ job'[d].step \in {"sent", "last"}
<1> DEFINE j == job[d]
           k == [j EXCEPT !.step = IF AcksLost /\ @ = "again" THEN "last" ELSE "sent"]
<1>1. /\ j \in Jobs /\ j.step \in {"attach", "again"} /\ j.prompt \in Prompts
      /\ j.to \in Sessions /\ j.rt = j.to
      /\ d # Composer => j.to = d /\ j.auto
  BY DEF Delivered, TInv, CoreOK, ActiveInv, Active
<1>2. /\ Quiet /\ job' = [job EXCEPT ![d] = k] /\ (Seed(j) \/ UNCHANGED turnVars)
      /\ served' = [served EXCEPT ![j.to] = Append(served[j.to], j.prompt)]
      /\ pending' = [pending EXCEPT ![j.to] = pending[j.to] + 1]
      /\ UNCHANGED <<route, view, queue, parked, last, lock, fails, retry>>
  BY <1>1 DEF Delivered, uiVars, queueVars
<1>3. due' \in BOOLEAN
  BY DEF Delivered, Noted, Changed, TInv, CoreOK
<1>4. /\ k \in Jobs /\ k.prompt = j.prompt /\ k.to = j.to /\ k.auto = j.auto
      /\ k.rt = k.to /\ k.step \in {"sent", "last"}
  BY <1>1 DEF Jobs, Steps
<1> HIDE DEF k
<1>5. job' \in [Drainers -> Jobs] /\ ActiveInv' /\ job'[d] = k
      /\ \A e \in Drainers \ {d} : job'[e] = job[e]
  BY <1>1, <1>2, <1>4, MoveLemma
<1>6. busy' \in [Sessions -> BOOLEAN]
  BY <1>2, BusyLemma DEF TInv
<1>7. /\ served' \in [Sessions -> Seq(Prompts)]
      /\ served'[j.to] = Append(served[j.to], j.prompt)
      /\ \A s \in Sessions \ {j.to} : served'[s] = served[s]
  <2>1. Append(served[j.to], j.prompt) \in Seq(Prompts)
    BY <1>1, AppendLemma DEF TInv, CoreOK
  <2> QED
    BY <1>1, <1>2, <2>1 DEF TInv, CoreOK
<1>8. pending' \in [Sessions -> Nat]
  BY <1>1, <1>2 DEF TInv, CoreOK
<1>9. CoreOK'
  BY <1>2, <1>3, <1>5, <1>6, <1>7, <1>8 DEF TInv, CoreOK
<1> QED
  BY <1>1, <1>2, <1>4, <1>5, <1>7, <1>9 DEF TInv, Others, SameJob

LEMMA RecoversLemma ==
  ASSUME TInv, NEW d \in Drainers, Recovers(d)
  PROVE  /\ TInv' /\ Others(d) /\ Quiet
         /\ job[d].step = "attach" \/ (AcksLost /\ job[d].step = "sent")
         /\ UNCHANGED <<queue, parked, served, pending, lock, fails, retry>>
         /\ SameJob(d) /\ job'[d].step = "again"
<1> DEFINE j == job[d]
           k == [j EXCEPT !.step = "again"]
<1>1. /\ j \in Jobs /\ j.prompt \in Prompts /\ j.to \in Sessions /\ j.rt = j.to
      /\ d # Composer => j.to = d /\ j.auto
  BY DEF Recovers, TInv, CoreOK, ActiveInv, Active
<1>2. /\ Quiet /\ job' = [job EXCEPT ![d] = k]
      /\ j.step = "attach" \/ (AcksLost /\ j.step = "sent")
      /\ UNCHANGED <<route, view, queue, parked, last, busy, lock, fails, retry, pending,
                     served>>
  BY DEF Recovers, uiVars, queueVars, turnVars, serverVars
<1>3. due' \in BOOLEAN
  BY DEF Recovers, Noted, Changed, TInv, CoreOK
<1>4. /\ k \in Jobs /\ k.prompt = j.prompt /\ k.to = j.to /\ k.auto = j.auto
      /\ k.rt = k.to /\ k.step = "again"
  BY <1>1 DEF Jobs, Steps
<1> HIDE DEF k
<1>5. job' \in [Drainers -> Jobs] /\ ActiveInv' /\ job'[d] = k
      /\ \A e \in Drainers \ {d} : job'[e] = job[e]
  BY <1>1, <1>2, <1>4, MoveLemma
<1>6. CoreOK'
  BY <1>2, <1>3, <1>5 DEF TInv, CoreOK
<1> QED
  BY <1>2, <1>4, <1>5, <1>6 DEF TInv, Others, SameJob

LEMMA AcceptedLemma ==
  ASSUME TInv, NEW d \in Drainers, Accepted(d)
  PROVE  /\ TInv' /\ Others(d) /\ Quiet /\ Sent(d)
         /\ UNCHANGED <<served, pending, busy, retry>>
         /\ lock' = lock \ {job[d].to}
         /\ queue'[job[d].to] = Without(queue[job[d].to], job[d].prompt)
         /\ parked'[job[d].to] => parked[job[d].to]
         /\ parked[job[d].to] /\ queue'[job[d].to] # <<>> /\ d # Composer
              => parked'[job[d].to]
         /\ \A s \in Sessions \ {job[d].to} : queue'[s] = queue[s] /\ parked'[s] = parked[s]
         /\ job'[d] = Ended(d)
<1> DEFINE j == job[d]
           rest == Without(queue[j.to], j.prompt)
<1>1. /\ j \in Jobs /\ Sent(d) /\ j.prompt \in Prompts /\ j.to \in Sessions
  BY DEF Accepted, Sent, TInv, CoreOK, ActiveInv, Active
<1>2. /\ Quiet /\ job' = [job EXCEPT ![d] = Ended(d)] /\ lock' = lock \ {j.to}
      /\ Write(j.to, rest, parked[j.to] /\ d # Composer)
      /\ fails' = [fails EXCEPT ![d] = [fails[d] EXCEPT ![j.prompt] = 0]]
      /\ UNCHANGED <<route, view, last, busy, retry, pending, served>>
  BY DEF Accepted, uiVars, turnVars, serverVars
<1>3. due' \in BOOLEAN
  BY DEF Accepted, Noted, Changed, TInv, CoreOK
<1>4. job' \in [Drainers -> Jobs] /\ ActiveInv' /\ job'[d] = Ended(d)
      /\ \A e \in Drainers \ {d} : job'[e] = job[e]
  BY <1>1, <1>2, EndedLemma, MoveLemma
<1>5. rest \in Seq(Prompts)
  BY <1>1, WithoutLemma DEF TInv, CoreOK
<1>6. parked[j.to] \in BOOLEAN
  BY <1>1 DEF TInv, CoreOK
<1> HIDE DEF rest
<1>7. /\ queue' \in [Sessions -> Seq(Prompts)] /\ parked' \in [Sessions -> BOOLEAN]
      /\ queue'[j.to] = rest
      /\ parked'[j.to] = ((parked[j.to] /\ d # Composer) /\ rest # <<>>)
      /\ \A s \in Sessions \ {j.to} : queue'[s] = queue[s] /\ parked'[s] = parked[s]
  BY <1>1, <1>2, <1>5, <1>6, WriteLemma DEF TInv
<1>8. /\ fails' \in [Drainers -> [Prompts -> 0..MaxTries]]
      /\ \A e \in Drainers \ {d} : fails'[e] = fails[e]
  <2>1. 0 \in 0..MaxTries
    BY QueueAssumption
  <2>2. [fails[d] EXCEPT ![j.prompt] = 0] \in [Prompts -> 0..MaxTries]
    BY <2>1 DEF TInv, CoreOK
  <2> QED
    BY <1>2, <2>2 DEF TInv, CoreOK
<1>9. CoreOK'
  BY <1>2, <1>3, <1>4, <1>7, <1>8 DEF TInv, CoreOK
<1> QED
  BY <1>1, <1>2, <1>4, <1>7, <1>8, <1>9 DEF TInv, Others, rest

LEMMA FailsLemma ==
  ASSUME TInv, NEW d \in Drainers, Fails(d)
  PROVE  /\ TInv' /\ Others(d) /\ Quiet
         /\ job[d].step \in {"resume", "attach", "again"} \/ (AcksLost /\ Sent(d))
         /\ UNCHANGED <<queue, parked, served, pending>>
         /\ lock' = lock \ {job[d].to}
         /\ job'[d] = Ended(d)
         /\ retry => retry'
         /\ d # Composer => Retries(d)'
<1> DEFINE j == job[d]
<1>1. /\ j \in Jobs /\ j.prompt \in Prompts /\ j.to \in Sessions
      /\ d # Composer => j.to = d /\ j.auto
  BY DEF Fails, TInv, CoreOK, ActiveInv, Active
<1>2. /\ Quiet
      /\ j.step \in {"resume", "attach", "again"} \/ (AcksLost /\ Sent(d))
      /\ job' = [job EXCEPT ![d] = Ended(d)] /\ lock' = lock \ {j.to}
      /\ Unseed(j) /\ Counted(d, j)
      /\ UNCHANGED <<route, view, queue, parked, last, pending, served>>
  BY DEF Fails, Sent, uiVars, queueVars, serverVars
<1>3. due' \in BOOLEAN
  BY DEF Fails, Noted, Changed, TInv, CoreOK
<1>4. job' \in [Drainers -> Jobs] /\ ActiveInv' /\ job'[d] = Ended(d)
      /\ \A e \in Drainers \ {d} : job'[e] = job[e]
  BY <1>1, <1>2, EndedLemma, MoveLemma
<1>5. /\ fails' \in [Drainers -> [Prompts -> 0..MaxTries]] /\ retry' \in BOOLEAN
      /\ retry => retry'
      /\ \A e \in Drainers \ {d} : fails'[e] = fails[e]
      /\ j.auto /\ d # Composer =>
           retry' \/ \E p \in Prompts : fails'[d][p] = MaxTries
  BY <1>1, <1>2, CountedLemma DEF TInv
<1>6. busy' \in [Sessions -> BOOLEAN]
  BY <1>2, BusyLemma DEF TInv
<1>8. CoreOK'
  BY <1>2, <1>3, <1>4, <1>5, <1>6 DEF TInv, CoreOK
<1>9. d # Composer => Retries(d)'
  BY <1>1, <1>5 DEF Retries
<1>10. TInv' /\ Others(d)
  BY <1>2, <1>4, <1>5, <1>8 DEF TInv, Others
<1> QED
  BY <1>2, <1>4, <1>5, <1>9, <1>10

LEMMA FinishesLemma ==
  ASSUME TInv, NEW d \in Drainers, Finishes(d)
  PROVE  /\ TInv' /\ Others(d) /\ job[d].step = "done" /\ job'[d] = Idle
         /\ UNCHANGED <<queue, parked, served, pending, busy, lock, fails, retry>>
<1>1. /\ job' = [job EXCEPT ![d] = Idle] /\ job[d].step = "done"
      /\ UNCHANGED <<route, view, queue, parked, last, busy, lock, fails, retry,
                     pending, served>>
  BY DEF Finishes, uiVars, queueVars, turnVars, serverVars
<1>2. due' \in BOOLEAN
  BY DEF Finishes, Noted, Changed, TInv, CoreOK
<1>3. job' \in [Drainers -> Jobs] /\ ActiveInv' /\ job'[d] = Idle
      /\ \A e \in Drainers \ {d} : job'[e] = job[e]
  BY <1>1, EndedLemma, MoveLemma
<1> QED
  BY <1>1, <1>2, <1>3 DEF TInv, CoreOK, Others

LEMMA DrainLemma ==
  ASSUME TInv, NEW p \in Prompts, NEW a \in BOOLEAN, Drain(p, a)
  PROVE  /\ job' \in [Drainers -> Jobs] /\ ActiveInv'
         /\ \A e \in Drainers \ {Composer} : job'[e] = job[e]
         /\ job[Composer].step = "idle" /\ job'[Composer].step = "asked"
         /\ job'[Composer].prompt = p /\ job'[Composer].to = route
         /\ job'[Composer].auto = a
<1> DEFINE k == [Idle EXCEPT !.step = "asked", !.prompt = p, !.to = route,
                             !.rt = view, !.auto = a]
<1>1. Composer \in Drainers /\ route \in Sessions /\ view \in Sessions
  BY DEF Drainers, TInv, CoreOK
<1>2. p \in 0..MaxPrompts
  BY QueueAssumption DEF Prompts
<1>3. /\ k \in Jobs /\ k.step = "asked" /\ k.prompt = p /\ k.to = route
      /\ k.auto = a
  BY <1>1, <1>2 DEF Idle, Jobs, Steps
<1>4. job[Composer].step = "idle" /\ job' = [job EXCEPT ![Composer] = k]
  BY DEF Drain
<1> HIDE DEF k
<1>5. job' \in [Drainers -> Jobs] /\ ActiveInv' /\ job'[Composer] = k
      /\ \A e \in Drainers \ {Composer} : job'[e] = job[e]
  BY <1>1, <1>3, <1>4, MoveLemma
<1> QED
  BY <1>3, <1>4, <1>5

(* The composer starts on a prompt, by its effect or for the user.         *)
ComposerSends ==
  ComposerEffect \/ SendNext \/ Resume \/ \E p \in Prompts : SendNow(p)

ComposerAsks ==
  /\ job[Composer].step = "idle" /\ job'[Composer].step = "asked"
  /\ job'[Composer].to = route
  /\ job'[Composer].prompt \in Elements(queue[route])
  /\ job'[Composer].auto => ~parked[route]

LEMMA ComposerSendsLemma ==
  ASSUME TInv, ComposerSends
  PROVE  /\ TInv' /\ Others(Composer)
         /\ UNCHANGED <<queue, served, pending, busy, lock, retry>>
         /\ \A s \in Sessions : parked'[s] => parked[s]
         /\ ~Resume => UNCHANGED parked
         /\ job' = job \/ ComposerAsks
<1>1. /\ Composer \in Drainers /\ route \in Sessions
      /\ queue[route] \in Seq(Prompts) /\ queue \in [Sessions -> Seq(Prompts)]
      /\ parked \in [Sessions -> BOOLEAN] /\ job \in [Drainers -> Jobs]
      /\ fails \in [Drainers -> [Prompts -> 0..MaxTries]]
  BY DEF TInv, CoreOK, Drainers
<1>2. queue[route] # <<>> =>
        Head(queue[route]) \in Elements(queue[route]) /\ Head(queue[route]) \in Prompts
  BY <1>1, HeadLemma
<1>3. /\ due' \in BOOLEAN
      /\ UNCHANGED <<route, view, last, served, pending, busy, lock, retry>>
  BY DEF ComposerSends, ComposerEffect, SendNext, Resume, SendNow, Noted, Changed, uiVars,
         queueVars, turnVars, serverVars, TInv, CoreOK
<1>4. CASE ComposerEffect
  <2>1. /\ Drain(Head(queue[route]), TRUE) /\ queue[route] # <<>> /\ ~parked[route]
        /\ UNCHANGED <<queue, parked, fails>>
    BY <1>4 DEF ComposerEffect, Gate, queueVars
  <2>2. /\ job' \in [Drainers -> Jobs] /\ ActiveInv' /\ ComposerAsks
        /\ \A e \in Drainers \ {Composer} : job'[e] = job[e]
    BY <1>2, <2>1, DrainLemma DEF ComposerAsks
  <2> QED
    BY <1>3, <2>1, <2>2 DEF TInv, CoreOK, Others
<1>5. CASE SendNext
  <2>1. /\ Drain(Head(queue[route]), FALSE) /\ queue[route] # <<>>
        /\ UNCHANGED <<queue, parked, fails>>
    BY <1>5 DEF SendNext, queueVars
  <2>2. /\ job' \in [Drainers -> Jobs] /\ ActiveInv' /\ ComposerAsks
        /\ \A e \in Drainers \ {Composer} : job'[e] = job[e]
    BY <1>2, <2>1, DrainLemma DEF ComposerAsks
  <2> QED
    BY <1>3, <2>1, <2>2 DEF TInv, CoreOK, Others
<1>6. CASE Resume
  <2>1. /\ queue[route] # <<>> /\ Write(route, queue[route], FALSE) /\ UNCHANGED fails
        /\ Drain(Head(queue[route]), FALSE) \/ UNCHANGED job
    BY <1>6 DEF Resume
  <2>2. /\ job' \in [Drainers -> Jobs] /\ ActiveInv' /\ (job' = job \/ ComposerAsks)
        /\ \A e \in Drainers \ {Composer} : job'[e] = job[e]
    <3>1. CASE Drain(Head(queue[route]), FALSE)
      BY <1>2, <2>1, <3>1, DrainLemma DEF ComposerAsks
    <3>2. CASE UNCHANGED job
      BY <1>1, <3>2 DEF TInv, ActiveInv, Active
    <3> QED
      BY <2>1, <3>1, <3>2
  <2>3. /\ queue' = queue /\ parked' \in [Sessions -> BOOLEAN]
        /\ \A s \in Sessions : parked'[s] => parked[s]
    BY <1>1, <2>1 DEF Write
  <2> QED
    BY <1>1, <1>3, <1>6, <2>1, <2>2, <2>3 DEF TInv, CoreOK, Others
<1>7. CASE \E p \in Prompts : SendNow(p)
  <2>1. PICK p \in Prompts : SendNow(p)
    BY <1>7
  <2>2. /\ p \in Elements(queue[route]) /\ UNCHANGED <<queue, parked>>
        /\ Drain(p, FALSE) \/ UNCHANGED job
        /\ fails' = [fails EXCEPT ![Composer] = [fails[Composer] EXCEPT ![p] = 0]]
    BY <2>1 DEF SendNow
  <2>3. /\ job' \in [Drainers -> Jobs] /\ ActiveInv' /\ (job' = job \/ ComposerAsks)
        /\ \A e \in Drainers \ {Composer} : job'[e] = job[e]
    <3>1. CASE Drain(p, FALSE)
      BY <2>2, <3>1, DrainLemma DEF ComposerAsks
    <3>2. CASE UNCHANGED job
      BY <1>1, <3>2 DEF TInv, ActiveInv, Active
    <3> QED
      BY <2>2, <3>1, <3>2
  <2>4. /\ fails' \in [Drainers -> [Prompts -> 0..MaxTries]]
        /\ \A e \in Drainers \ {Composer} : fails'[e] = fails[e]
    <3>1. 0 \in 0..MaxTries
      BY QueueAssumption
    <3>2. [fails[Composer] EXCEPT ![p] = 0] \in [Prompts -> 0..MaxTries]
      BY <1>1, <3>1
    <3> QED
      BY <1>1, <2>2, <3>2
  <2> QED
    BY <1>1, <1>3, <2>2, <2>3, <2>4 DEF TInv, CoreOK, Others
<1> QED
  BY <1>4, <1>5, <1>6, <1>7 DEF ComposerSends

(* The effect of the background drainer.                                   *)
Wanted(s) == s # view /\ Gate(s, s, busy[s])

LEMMA BackgroundLemma ==
  ASSUME TInv, BackgroundEffect
  PROVE  /\ TInv' /\ due' = FALSE
         /\ UNCHANGED <<route, view, queue, parked, last, busy, lock, fails, retry,
                        pending, served>>
         /\ job'[Composer] = job[Composer]
         /\ \A s \in Sessions : ~Wanted(s) => job'[s] = job[s]
         /\ \A s \in Sessions : Wanted(s) =>
              /\ job[s].step = "idle" /\ job'[s].step = "asked"
              /\ job'[s].to = s /\ job'[s].prompt \in Elements(queue[s])
<1> DEFINE idle == {s \in Sessions \ {view} : Gate(s, s, busy[s])}
           k(d) == [Idle EXCEPT !.step = "asked", !.to = d,
                                !.prompt = Head(queue[d]), !.auto = TRUE]
<1>1. /\ job' = [d \in Drainers |-> IF d \in idle THEN k(d) ELSE job[d]]
      /\ due' = FALSE
      /\ UNCHANGED <<route, view, queue, parked, last, busy, lock, fails, retry,
                     pending, served>>
  BY DEF BackgroundEffect, uiVars, queueVars, turnVars, serverVars
<1>2. Composer \in Drainers /\ Sessions \subseteq Drainers /\ Composer \notin Sessions
  BY QueueAssumption DEF Drainers
<1>3. ASSUME NEW s \in idle
      PROVE  /\ k(s) \in Jobs /\ k(s).step = "asked" /\ k(s).to = s /\ k(s).auto
             /\ k(s).prompt \in Elements(queue[s]) /\ k(s).prompt \in Prompts
             /\ job[s].step = "idle"
  <2>1. queue[s] \in Seq(Prompts) /\ queue[s] # <<>> /\ job[s].step = "idle"
    BY <1>3 DEF Gate, TInv, CoreOK
  <2>2. Head(queue[s]) \in Elements(queue[s]) /\ Head(queue[s]) \in Prompts
    BY <2>1, HeadLemma
  <2>3. Head(queue[s]) \in 0..MaxPrompts
    BY <2>2, QueueAssumption DEF Prompts
  <2> QED
    BY <2>1, <2>2, <2>3 DEF Idle, Jobs, Steps
<1>4. \A s \in Sessions : Wanted(s) <=> s \in idle
  BY DEF Wanted
<1> HIDE DEF k, idle
<1>5. \A d \in Drainers : job'[d] = IF d \in idle THEN k(d) ELSE job[d]
  BY <1>1
<1>6. idle \subseteq Sessions
  BY DEF idle
<1>7. job' \in [Drainers -> Jobs]
  BY <1>1, <1>3 DEF TInv, CoreOK
<1>8. ActiveInv'
  BY <1>2, <1>3, <1>5, <1>6 DEF TInv, ActiveInv, Active
<1>9. CoreOK'
  BY <1>1, <1>7 DEF TInv, CoreOK
<1> QED
  BY <1>1, <1>2, <1>3, <1>4, <1>5, <1>6, <1>8, <1>9 DEF TInv

(* What the user does to the queue of the route.                           *)
QueueActs == Enqueue \/ Halt \/ \E p \in Prompts : Delete(p) \/ PromoteNow(p)

LEMMA QueueActsLemma ==
  ASSUME TInv, QueueActs
  PROVE  /\ TInv' /\ Quiet
         /\ UNCHANGED <<route, view, lock, job, fails, retry, pending, served>>
         /\ \A s \in Sessions \ {route} : queue'[s] = queue[s] /\ parked'[s] = parked[s]
         /\ \/ /\ queue'[route] = Append(queue[route], last')
               /\ last' = last + 1 /\ last' \in Prompts /\ Home[last'] = route
               /\ Enqueue /\ ~parked'[route]
            \/ /\ last' = last
               /\ \/ /\ \E p \in Prompts : /\ Delete(p)
                                           /\ queue'[route] = Without(queue[route], p)
                     /\ parked'[route] = (parked[route] /\ queue'[route] # <<>>)
                  \/ /\ \E p \in Prompts : /\ PromoteNow(p)
                                           /\ queue'[route] = Promoted(queue[route], p)
                     /\ ~parked'[route]
                  \/ /\ Halt /\ queue'[route] = queue[route]
<1>1. /\ route \in Sessions /\ queue[route] \in Seq(Prompts) /\ last \in 0..MaxPrompts
      /\ parked[route] \in BOOLEAN /\ FALSE \in BOOLEAN /\ TRUE \in BOOLEAN
  BY DEF TInv, CoreOK
<1>2. /\ Quiet /\ due' \in BOOLEAN
      /\ UNCHANGED <<route, view, lock, job, fails, retry, pending, served>>
      /\ busy' \in [Sessions -> BOOLEAN]
  BY DEF QueueActs, Enqueue, Halt, Delete, PromoteNow, CancelRun, Noted, Changed, uiVars,
         turnVars, sendVars, serverVars, TInv, CoreOK
<1>3. ASSUME NEW q \in Seq(Prompts), NEW b \in BOOLEAN, Write(route, q, b),
             last' \in 0..MaxPrompts
      PROVE  TInv'
  <2>1. queue' \in [Sessions -> Seq(Prompts)] /\ parked' \in [Sessions -> BOOLEAN]
    BY <1>1, <1>3, WriteLemma DEF TInv
  <2> QED
    BY <1>2, <1>3, <2>1 DEF TInv, CoreOK, ActiveInv, Active
<1>4. CASE Enqueue
  <2>1. /\ last' = last + 1 /\ last' \in Prompts /\ Home[last'] = route
        /\ Write(route, Append(queue[route], last'), FALSE)
    BY <1>4 DEF Enqueue
  <2>2. Append(queue[route], last') \in Seq(Prompts) /\ last' \in 0..MaxPrompts
    BY <1>1, <2>1, AppendLemma, QueueAssumption DEF Prompts
  <2> QED
    BY <1>1, <1>2, <1>3, <1>4, <2>1, <2>2, WriteLemma DEF TInv
<1>5. CASE Halt
  <2>1. Write(route, queue[route], TRUE) /\ last' = last
    BY <1>5 DEF Halt
  <2> QED
    BY <1>1, <1>2, <1>3, <1>5, <2>1, WriteLemma DEF TInv
<1>6. CASE \E p \in Prompts : Delete(p)
  <2>1. PICK p \in Prompts : Delete(p)
    BY <1>6
  <2>2. Write(route, Without(queue[route], p), parked[route]) /\ last' = last
    BY <2>1 DEF Delete
  <2>3. Without(queue[route], p) \in Seq(Prompts)
    BY <1>1, WithoutLemma
  <2>4. TInv'
    BY <1>1, <1>3, <2>2, <2>3
  <2>5. /\ queue'[route] = Without(queue[route], p)
        /\ parked'[route] = (parked[route] /\ queue'[route] # <<>>)
        /\ \A s \in Sessions \ {route} : queue'[s] = queue[s] /\ parked'[s] = parked[s]
    BY <1>1, <2>2, <2>3, WriteLemma DEF TInv
  <2> QED
    BY <1>2, <2>1, <2>2, <2>4, <2>5
<1>7. CASE \E p \in Prompts : PromoteNow(p)
  <2>1. PICK p \in Prompts : PromoteNow(p)
    BY <1>7
  <2>2. Write(route, Promoted(queue[route], p), FALSE) /\ last' = last
    BY <2>1 DEF PromoteNow
  <2>3. Promoted(queue[route], p) \in Seq(Prompts)
    BY <1>1, PromotedLemma
  <2>4. TInv'
    BY <1>1, <1>3, <2>2, <2>3
  <2>5. /\ queue'[route] = Promoted(queue[route], p) /\ ~parked'[route]
        /\ \A s \in Sessions \ {route} : queue'[s] = queue[s] /\ parked'[s] = parked[s]
    BY <1>1, <2>2, <2>3, WriteLemma DEF TInv
  <2> QED
    BY <1>2, <2>1, <2>2, <2>4, <2>5
<1> QED
  BY <1>4, <1>5, <1>6, <1>7 DEF QueueActs

(* Everything else: a change of session, the timer, what the server tells. *)
ServerTells(s) == TurnEnds(s) \/ EndUnheard(s) \/ AnswerStarts(s) \/ ToldRunning(s)
                  \/ ToldIdle(s)

UiActs == Arrive \/ RetryTimer \/ \E s \in Sessions : Navigate(s) \/ ServerTells(s)

LEMMA UiActsLemma ==
  ASSUME TInv, UiActs
  PROVE  /\ TInv' /\ Quiet
         /\ UNCHANGED <<queue, parked, last, held, lock, job, fails, served>>
<1>1. /\ Quiet /\ due' \in BOOLEAN
      /\ UNCHANGED <<queue, parked, last, held, lock, job, fails, served>>
  BY DEF UiActs, ServerTells, Arrive, RetryTimer, Navigate, TurnEnds, EndUnheard,
         AnswerStarts, ToldRunning, ToldIdle, Noted, Changed, uiVars, queueVars,
         sendVars, serverVars, TInv, CoreOK
<1>2. ActiveInv'
  BY <1>1 DEF TInv, ActiveInv, Active
<1>3. CASE Arrive
  BY <1>1, <1>2, <1>3 DEF Arrive, turnVars, sendVars, serverVars, TInv, CoreOK
<1>4. CASE RetryTimer
  BY <1>1, <1>2, <1>4 DEF RetryTimer, uiVars, turnVars, serverVars, TInv, CoreOK
<1>5. CASE \E s \in Sessions : Navigate(s)
  BY <1>1, <1>2, <1>5 DEF Navigate, turnVars, sendVars, serverVars, TInv, CoreOK
<1>6. CASE \E s \in Sessions : ServerTells(s)
  <2>1. PICK s \in Sessions : ServerTells(s)
    BY <1>6
  <2>2. UNCHANGED <<route, view, retry>>
    BY <2>1 DEF ServerTells, TurnEnds, EndUnheard, AnswerStarts, ToldRunning, ToldIdle,
                uiVars, sendVars
  <2>3. \/ pending' = pending
        \/ pending' = [pending EXCEPT ![s] = pending[s] - 1] /\ pending[s] > 0
    BY <2>1 DEF ServerTells, TurnEnds, EndUnheard, AnswerStarts, ToldRunning, ToldIdle,
                serverVars
  <2>4. busy' = busy \/ \E b \in BOOLEAN : busy' = [busy EXCEPT ![s] = b]
    BY <2>1 DEF ServerTells, TurnEnds, EndUnheard, AnswerStarts, ToldRunning, ToldIdle,
                turnVars
  <2>5. pending' \in [Sessions -> Nat]
    <3>1. pending \in [Sessions -> Nat]
      BY DEF TInv, CoreOK
    <3>2. pending[s] > 0 => pending[s] - 1 \in Nat
      BY <3>1
    <3> QED
      BY <2>3, <3>1, <3>2
  <2>6. busy' \in [Sessions -> BOOLEAN]
    BY <2>4 DEF TInv, CoreOK
  <2>7. CoreOK'
    BY <1>1, <2>2, <2>5, <2>6 DEF TInv, CoreOK
  <2> QED
    BY <1>1, <1>2, <2>7 DEF TInv
<1> QED
  BY <1>3, <1>4, <1>5, <1>6 DEF UiActs

LEMMA RestartLemma ==
  ASSUME TInv, Restart
  PROVE  /\ TInv' /\ Quiet /\ due'
         /\ UNCHANGED <<queue, last, served, pending>>
         /\ lock' = {} /\ \A d \in Drainers : job'[d] = Idle
         /\ AcksLost \/ \A d \in Drainers : ~Sent(d)
<1>1. /\ Quiet /\ due' = TRUE /\ retry' = FALSE /\ lock' = {} /\ view' = route
      /\ job' = [d \in Drainers |-> Idle] /\ parked' = [s \in Sessions |-> FALSE]
      /\ fails' = [d \in Drainers |-> [p \in Prompts |-> 0]]
      /\ UNCHANGED <<route, queue, last, served, pending>>
      /\ AcksLost \/ \A d \in Drainers : ~Sent(d)
  BY DEF Restart, Sent, serverVars
<1>2. busy' \in [Sessions -> BOOLEAN]
  BY DEF Restart
<1>3. job' \in [Drainers -> Jobs] /\ \A d \in Drainers : job'[d] = Idle
  BY <1>1, EndedLemma
<1>4. fails' \in [Drainers -> [Prompts -> 0..MaxTries]]
  <2>1. 0 \in 0..MaxTries
    BY QueueAssumption
  <2> QED
    BY <1>1, <2>1
<1>5. ActiveInv'
  BY <1>3, EndedLemma DEF ActiveInv, Active
<1>6. CoreOK'
  BY <1>1, <1>2, <1>3, <1>4 DEF TInv, CoreOK
<1> QED
  BY <1>1, <1>3, <1>5, <1>6 DEF TInv

(***************************************************************************)
(* Every step is one of these.                                             *)
(***************************************************************************)
LEMMA StepLemma ==
  ASSUME [Next]_vars
  PROVE  \/ \E d \in Drainers : \/ Submits(d) \/ Resumed(d) \/ Delivered(d) \/ Recovers(d)
                                 \/ Accepted(d) \/ Fails(d) \/ Finishes(d)
         \/ ComposerSends \/ BackgroundEffect \/ QueueActs \/ UiActs \/ Restart
         \/ UNCHANGED vars
BY DEF Next, SendStep, ComposerSends, QueueActs, UiActs, ServerTells

LEMMA StutterLemma ==
  ASSUME UNCHANGED vars
  PROVE  UNCHANGED <<route, view, queue, parked, last, held, busy, lock, job, fails,
                     retry, pending, served, due>>
BY DEF vars, uiVars, queueVars, turnVars, sendVars, serverVars

LEMMA TInvNext == TInv /\ [Next]_vars => TInv'
<1> SUFFICES ASSUME TInv, [Next]_vars PROVE TInv'
  OBVIOUS
<1>1. CASE UNCHANGED vars
  BY <1>1, StutterLemma DEF TInv, CoreOK, ActiveInv, Active
<1> QED
  BY <1>1, StepLemma, SubmitsLemma, ResumedLemma, DeliveredLemma, RecoversLemma,
     AcceptedLemma, FailsLemma, FinishesLemma, ComposerSendsLemma, BackgroundLemma, QueueActsLemma,
     UiActsLemma, RestartLemma

(* The marks of a step: every one is put on a session, and the prompts the *)
(* user has stopped are some of the queue.                                 *)
LEMMA MarksNext == TInv /\ MarksOK /\ [Next]_vars => MarksOK'
<1> SUFFICES ASSUME TInv, MarksOK, [Next]_vars PROVE MarksOK'
  OBVIOUS
<1>1. route \in Sessions /\ view \in Sessions /\ queue[route] \in Seq(Prompts)
  BY DEF TInv, CoreOK
<1>2. Elements(queue[route]) \subseteq Prompts
  BY <1>1, ElementsLemma
<1>3. ASSUME NEW d \in Drainers,
             \/ Submits(d) \/ Resumed(d) \/ Delivered(d) \/ Recovers(d)
             \/ Accepted(d) \/ Fails(d) \/ Finishes(d)
      PROVE  MarksOK'
  <2>1. interrupted' \subseteq Sessions /\ awaiting' \subseteq Sessions
    BY <1>3 DEF MarksOK, Submits, Submit, Resumed, Delivered, Recovers, Accepted, Fails,
                Finishes, Seed, Unseed, turnVars
  <2>2. active' \subseteq Sessions
    <3>1. CASE Delivered(d)
      BY <3>1 DEF MarksOK, Delivered, TInv, ActiveInv, Active
    <3>2. CASE ~Delivered(d)
      BY <1>3, <3>2 DEF MarksOK, Submits, Resumed, Recovers, Accepted, Fails, Finishes,
                        serverVars
    <3> QED
      BY <3>1, <3>2
  <2>3. held' \in [Sessions -> SUBSET Prompts]
    <3>1. CASE Accepted(d)
      BY <3>1 DEF MarksOK, Accepted
    <3>2. CASE ~Accepted(d)
      BY <1>3, <3>2 DEF MarksOK, Submits, Resumed, Delivered, Recovers, Fails, Finishes,
                        queueVars
    <3> QED
      BY <3>1, <3>2
  <2> QED
    BY <2>1, <2>2, <2>3 DEF MarksOK
<1>4. CASE ComposerSends
  BY <1>1, <1>4 DEF MarksOK, ComposerSends, ComposerEffect, SendNext, Resume, SendNow,
                    queueVars, turnVars, serverVars
<1>5. CASE QueueActs
  BY <1>1, <1>2, <1>5 DEF MarksOK, QueueActs, Enqueue, Halt, Waiting, Delete, PromoteNow,
                          CancelRun, turnVars, serverVars
<1>6. CASE UiActs
  BY <1>6, UiActsLemma DEF MarksOK, UiActs, ServerTells, Arrive, RetryTimer, Navigate,
     TurnEnds, EndUnheard, AnswerStarts, ToldRunning, ToldIdle, turnVars, serverVars
<1>7. CASE BackgroundEffect \/ UNCHANGED vars
  BY <1>7 DEF MarksOK, BackgroundEffect, vars, queueVars, turnVars, serverVars
<1>8. CASE Restart
  BY <1>8 DEF MarksOK, Restart, serverVars
<1> QED
  BY <1>3, <1>4, <1>5, <1>6, <1>7, <1>8, StepLemma

(* Every variable keeps its type.                                          *)
THEOREM Typing == Spec => []TypeOK
<1>1. Init => TInv /\ MarksOK
  BY TInvInit DEF Init, MarksOK
<1>2. TInv /\ MarksOK /\ [Next]_vars => (TInv /\ MarksOK)'
  BY TInvNext, MarksNext
<1>3. TInv /\ MarksOK => TypeOK
  BY DEF TInv, CoreOK, MarksOK, TypeOK
<1> QED
  BY <1>1, <1>2, <1>3, PTL DEF Spec

(***************************************************************************)
(* The lock of a session                                                   *)
(***************************************************************************)
LEMMA LockNext == TInv /\ LockIsASubmit /\ [Next]_vars => LockIsASubmit'
<1> SUFFICES ASSUME TInv, LockIsASubmit, [Next]_vars PROVE LockIsASubmit'
  OBVIOUS
<1> USE DEF LockIsASubmit, Submitting
<1>1. ASSUME NEW d \in Drainers, Submits(d) PROVE LockIsASubmit'
  <2>1. /\ \A e \in Drainers \ {d} : job'[e] = job[e]
        /\ job[d].step = "asked"
        /\ SubmitStarts(d) \/ SubmitRefused(d)
    BY <1>1, SubmitsLemma DEF Others
  <2>2. CASE SubmitStarts(d)
    <3>1. /\ job[d].to \notin lock /\ lock' = lock \cup {job[d].to}
          /\ job'[d].to = job[d].to /\ job'[d].step \in {"resume", "attach"}
      BY <2>2 DEF SubmitStarts, SameJob
    <3>2. \A e \in Drainers \ {d} : Submitting(e) => job[e].to # job[d].to
      BY <3>1
    <3> QED
      BY <2>1, <3>1, <3>2
  <2>3. CASE SubmitRefused(d)
    <3>1. job'[d].step \in {"idle", "done"} /\ lock' = lock
      BY <2>3, EndedLemma DEF SubmitRefused
    <3> QED
      BY <2>1, <3>1
  <2> QED
    BY <2>1, <2>2, <2>3
<1>2. ASSUME NEW d \in Drainers, Resumed(d) \/ Delivered(d) \/ Recovers(d)
      PROVE  LockIsASubmit'
  <2>1. /\ \A e \in Drainers \ {d} : job'[e] = job[e]
        /\ job[d].step \in {"resume", "attach", "again", "sent"}
        /\ job'[d].step \in {"attach", "again", "sent", "last"}
        /\ job'[d].to = job[d].to /\ lock' = lock
    <3>1. CASE Resumed(d)
      BY <3>1, ResumedLemma DEF Others, SameJob
    <3>2. CASE Delivered(d)
      BY <3>2, DeliveredLemma DEF Others, SameJob
    <3>3. CASE Recovers(d)
      BY <3>3, RecoversLemma DEF Others, SameJob
    <3> QED
      BY <1>2, <3>1, <3>2, <3>3
  <2> QED
    BY <2>1
<1>3. ASSUME NEW d \in Drainers, Accepted(d) \/ Fails(d) PROVE LockIsASubmit'
  <2>1. /\ \A e \in Drainers \ {d} : job'[e] = job[e]
        /\ Submitting(d)
        /\ job'[d].step \in {"idle", "done"}
        /\ lock' = lock \ {job[d].to}
    <3>1. Others(d) /\ job'[d] = Ended(d) /\ lock' = lock \ {job[d].to}
      BY <1>3, AcceptedLemma, FailsLemma
    <3>2. Submitting(d)
      BY <1>3, AcceptedLemma, FailsLemma DEF Sent
    <3> QED
      BY <3>1, <3>2, EndedSteps DEF Others
  <2>2. ~Submitting(d)' /\ Submitting(d)
    BY <2>1
  <2>3. \A e \in Drainers \ {d} : Submitting(e)' <=> Submitting(e)
    BY <2>1
  <2>4. \A e \in Drainers \ {d} : Submitting(e) => job[e].to # job[d].to
    BY <2>2
  <2>5. \A e \in Drainers : Submitting(e)' => job'[e].to \in lock'
    BY <2>1, <2>2, <2>3, <2>4
  <2>6. \A s \in lock' : \E e \in Drainers : Submitting(e)' /\ job'[e].to = s
    BY <2>1, <2>3
  <2>7. \A e, g \in Drainers :
          Submitting(e)' /\ Submitting(g)' /\ job'[e].to = job'[g].to => e = g
    BY <2>1, <2>2, <2>3
  <2> QED
    BY <2>5, <2>6, <2>7
<1>4. ASSUME NEW d \in Drainers, Finishes(d) PROVE LockIsASubmit'
  <2>1. /\ \A e \in Drainers \ {d} : job'[e] = job[e]
        /\ job[d].step = "done" /\ job'[d].step = "idle" /\ lock' = lock
    BY <1>4, FinishesLemma, EndedLemma DEF Others
  <2> QED
    BY <2>1
<1>5. CASE ComposerSends
  <2>1. /\ \A e \in Drainers \ {Composer} : job'[e] = job[e]
        /\ lock' = lock
        /\ job' = job \/ (job[Composer].step = "idle" /\ job'[Composer].step = "asked")
    BY <1>5, ComposerSendsLemma DEF Others, ComposerAsks
  <2> QED
    BY <2>1
<1>6. CASE BackgroundEffect
  <2>1. /\ lock' = lock
        /\ \A d \in Drainers : \/ job'[d] = job[d]
                               \/ job[d].step = "idle" /\ job'[d].step = "asked"
    BY <1>6, BackgroundLemma DEF Drainers
  <2> QED
    BY <2>1
<1>7. CASE QueueActs \/ UiActs \/ UNCHANGED vars
  <2>1. job' = job /\ lock' = lock
    BY <1>7, QueueActsLemma, UiActsLemma, StutterLemma
  <2> QED
    BY <2>1
<1>8. CASE Restart
  BY <1>8, RestartLemma, EndedLemma
<1> QED
  BY <1>1, <1>2, <1>3, <1>4, <1>5, <1>6, <1>7, <1>8, StepLemma

LEMMA LockInit == Init => LockIsASubmit
BY EndedLemma DEF Init, LockIsASubmit, Submitting, Idle

(* The lock is held exactly by the one submit under way: it is given back  *)
(* on every path, and two drainers never submit to one session at once.    *)
THEOREM LockKept == Spec => []LockIsASubmit
<1>1. Init => TInv /\ LockIsASubmit
  BY TInvInit, LockInit
<1>2. TInv /\ LockIsASubmit /\ [Next]_vars => (TInv /\ LockIsASubmit)'
  BY TInvNext, LockNext
<1> QED
  BY <1>1, <1>2, PTL DEF Spec

(***************************************************************************)
(* No prompt is lost                                                       *)
(***************************************************************************)
SentInv == \A d \in Drainers :
  Sent(d) => job[d].prompt \in Elements(served[job[d].to])

LEMMA SentNext == TInv /\ SentInv /\ [Next]_vars => SentInv'
<1> SUFFICES ASSUME TInv, SentInv, [Next]_vars PROVE SentInv'
  OBVIOUS
<1>1. ASSUME NEW d \in Drainers, Delivered(d) PROVE SentInv'
  <2>1. /\ \A e \in Drainers \ {d} : job'[e] = job[e]
        /\ SameJob(d) /\ job[d].step \in {"attach", "again"}
        /\ served'[job[d].to] = Append(served[job[d].to], job[d].prompt)
        /\ \A s \in Sessions \ {job[d].to} : served'[s] = served[s]
    BY <1>1, DeliveredLemma DEF Others
  <2>2. /\ job[d].to \in Sessions /\ job[d].prompt \in Prompts
        /\ \A e \in Drainers : Sent(e) => job[e].to \in Sessions
    BY <2>1 DEF TInv, ActiveInv, Active, Sent
  <2>3. Elements(served'[job[d].to]) = Elements(served[job[d].to]) \cup {job[d].prompt}
    BY <2>1, <2>2, AppendLemma DEF TInv, CoreOK
  <2>4. ASSUME NEW e \in Drainers, Sent(e)'
        PROVE  job'[e].prompt \in Elements(served'[job'[e].to])
    <3>1. CASE e = d
      BY <3>1, <2>1, <2>3 DEF SameJob
    <3>2. CASE e # d
      <4>1. /\ job'[e] = job[e] /\ Sent(e) /\ job[e].to \in Sessions
            /\ job[e].prompt \in Elements(served[job[e].to])
        BY <3>2, <2>1, <2>2, <2>4 DEF SentInv, Sent
      <4> QED
        BY <4>1, <2>1, <2>3
    <3> QED
      BY <3>1, <3>2
  <2>5. \A e \in Drainers :
          Sent(e)' => job'[e].prompt \in Elements(served'[job'[e].to])
    BY <2>4
  <2> QED
    BY <2>5 DEF SentInv, Elements
<1>2. ASSUME NEW d \in Drainers,
             \/ Submits(d) \/ Resumed(d) \/ Recovers(d)
             \/ Accepted(d) \/ Fails(d) \/ Finishes(d)
      PROVE  SentInv'
  <2>1. /\ \A e \in Drainers \ {d} : job'[e] = job[e]
        /\ job'[d].step \notin {"sent", "last"} /\ served' = served
    <3>1. CASE Submits(d)
      BY <3>1, SubmitsLemma, EndedLemma DEF Others, SubmitStarts, SubmitRefused
    <3>2. CASE Resumed(d) \/ Recovers(d)
      BY <3>2, ResumedLemma, RecoversLemma DEF Others
    <3>3. CASE Accepted(d) \/ Fails(d)
      <4>1. Others(d) /\ job'[d] = Ended(d) /\ served' = served
        BY <3>3, AcceptedLemma, FailsLemma
      <4> QED
        BY <4>1, EndedSteps DEF Others
    <3>4. CASE Finishes(d)
      BY <3>4, FinishesLemma, EndedLemma DEF Others
    <3> QED
      BY <1>2, <3>1, <3>2, <3>3, <3>4
  <2> QED
    BY <2>1 DEF SentInv, Sent
<1>3. CASE ComposerSends \/ BackgroundEffect \/ QueueActs \/ UiActs \/ Restart \/ UNCHANGED vars
  <2>1. /\ served' = served
        /\ \A d \in Drainers : job'[d] = job[d] \/ job'[d].step \notin {"sent", "last"}
    BY <1>3, ComposerSendsLemma, BackgroundLemma, QueueActsLemma, UiActsLemma,
       RestartLemma, StutterLemma, EndedLemma DEF Others, ComposerAsks, Drainers
  <2> QED
    BY <2>1 DEF SentInv, Sent
<1> QED
  BY <1>1, <1>2, <1>3, StepLemma

LEMMA LossStep == TInv /\ SentInv /\ [Next]_vars =>
  \A s \in Sessions : \A p \in Elements(queue[s]) \ Elements(queue'[s]) :
    p \in Elements(served[s]) \/ (s = route /\ Delete(p))
<1> SUFFICES ASSUME TInv, SentInv, [Next]_vars, NEW s \in Sessions,
                    NEW p \in Elements(queue[s]) \ Elements(queue'[s])
             PROVE  p \in Elements(served[s]) \/ (s = route /\ Delete(p))
  OBVIOUS
<1>1. queue[s] \in Seq(Prompts)
  BY DEF TInv, CoreOK
<1>2. ASSUME NEW d \in Drainers, Accepted(d) PROVE p \in Elements(served[s])
  <2>1. /\ Sent(d)
        /\ queue'[job[d].to] = Without(queue[job[d].to], job[d].prompt)
        /\ \A t \in Sessions \ {job[d].to} : queue'[t] = queue[t]
    BY <1>2, AcceptedLemma
  <2>2. s = job[d].to
    BY <2>1
  <2>3. p = job[d].prompt
    BY <1>1, <2>1, <2>2, WithoutLemma
  <2> QED
    BY <2>1, <2>2, <2>3 DEF SentInv
<1>3. ASSUME QueueActs PROVE s = route /\ Delete(p)
  <2>1. s = route
    BY <1>3, QueueActsLemma
  <2>2. CASE queue'[route] = Append(queue[route], last') /\ last' \in Prompts
    BY <1>1, <2>1, <2>2, AppendLemma
  <2>3. ASSUME NEW q \in Prompts, Delete(q), queue'[route] = Without(queue[route], q)
        PROVE  Delete(p)
    <3>1. p = q
      BY <1>1, <2>1, <2>3, WithoutLemma
    <3> QED
      BY <2>3, <3>1
  <2>4. ASSUME NEW q \in Prompts, queue'[route] = Promoted(queue[route], q) PROVE FALSE
    BY <1>1, <2>1, <2>4, PromotedLemma
  <2> QED
    BY <1>3, <2>1, <2>2, <2>3, <2>4, QueueActsLemma
<1>4. \/ \E d \in Drainers : Accepted(d)
      \/ QueueActs
      \/ queue' = queue
  BY StepLemma, SubmitsLemma, ResumedLemma, DeliveredLemma, RecoversLemma, FailsLemma,
     FinishesLemma, ComposerSendsLemma, BackgroundLemma, UiActsLemma, RestartLemma, StutterLemma
<1> QED
  BY <1>2, <1>3, <1>4

(* A prompt leaves a queue only when the server has it or when the user    *)
(* deletes that very prompt, whatever fails on the way and whichever       *)
(* prompts have overtaken it.                                              *)
THEOREM NoneLost == Spec => NothingLost
<1>1. Init => TInv /\ SentInv
  BY TInvInit, EndedLemma DEF Init, SentInv, Sent, Idle
<1>2. TInv /\ SentInv /\ [Next]_vars => (TInv /\ SentInv)'
  BY TInvNext, SentNext
<1>3. TInv /\ SentInv /\ [Next]_vars =>
        [\A s \in Sessions : \A p \in Elements(queue[s]) \ Elements(queue'[s]) :
           p \in Elements(served[s]) \/ (s = route /\ Delete(p))]_vars
  BY LossStep
<1> QED
  BY <1>1, <1>2, <1>3, PTL DEF Spec, NothingLost

(***************************************************************************)
(* What was waiting when the user stopped a queue                          *)
(***************************************************************************)
(* It is still queued, and the queue is parked; no automatic drain of the  *)
(* composer is under way that would lift the park.                         *)
HeldInv ==
  /\ \A s \in Sessions : held[s] \subseteq Elements(queue[s])
  /\ \A s \in Sessions : held[s] # {} => parked[s]
  /\ Active(Composer) /\ job[Composer].auto => held[job[Composer].to] = {}

StopInv == HeldInv /\ StoppedWait

(* Jobs that go on or end, while nobody touches the queues.                *)
LEMMA StopJobs ==
  ASSUME StopInv, UNCHANGED <<queue, parked, held>>,
         \A d \in Drainers : \/ job'[d] = job[d]
                             \/ SameJob(d) /\ Active(d)
                             \/ job'[d].to = None /\ job'[d].step \in {"idle", "done"}
  PROVE  StopInv'
<1>1. Composer \in Drainers /\ None \notin Sessions
  BY QueueAssumption DEF Drainers
<1>2. \A s \in Sessions, d \in Drainers : job'[d].to = s => job'[d].prompt \notin held'[s]
  BY <1>1 DEF StopInv, StoppedWait, SameJob
<1>3. /\ \A s \in Sessions : held'[s] \subseteq Elements(queue'[s])
      /\ \A s \in Sessions : held'[s] # {} => parked'[s]
  BY DEF StopInv, HeldInv
<1>4. Active(Composer)' /\ job'[Composer].auto => held'[job'[Composer].to] = {}
  BY <1>1 DEF StopInv, HeldInv, SameJob, Active
<1> QED
  BY <1>2, <1>3, <1>4 DEF StopInv, HeldInv, StoppedWait, Elements

(* A queue of which nothing is held any more, or less than before.         *)
LEMMA StopRelease ==
  ASSUME TInv, MarksOK, StopInv, NEW t \in Sessions,
         \A s \in Sessions \ {t} : queue'[s] = queue[s] /\ parked'[s] = parked[s],
         \A s \in Sessions \ {t} : held'[s] = held[s],
         held'[t] \subseteq held[t] \cap Elements(queue'[t]),
         held'[t] # {} => parked'[t],
         \A d \in Drainers : \/ job'[d] = job[d]
                             \/ job'[d].to = None /\ job'[d].step \in {"idle", "done"}
                             \/ /\ d = Composer /\ job'[d].to = t /\ ~job'[d].auto
                                /\ job'[d].prompt \notin held'[t]
  PROVE  StopInv'
<1>1. Composer \in Drainers /\ None \notin Sessions
  BY QueueAssumption DEF Drainers
<1>2. Active(Composer) => job[Composer].to \in Sessions
  BY <1>1 DEF TInv, ActiveInv
<1>3. \A s \in Sessions, d \in Drainers : job'[d].to = s => job'[d].prompt \notin held'[s]
  BY <1>1 DEF StopInv, StoppedWait
<1>4. \A s \in Sessions : held'[s] \subseteq Elements(queue'[s])
  BY DEF StopInv, HeldInv
<1>5. \A s \in Sessions : held'[s] # {} => parked'[s]
  BY DEF StopInv, HeldInv
<1>6. Active(Composer)' /\ job'[Composer].auto => held'[job'[Composer].to] = {}
  <2>1. CASE job'[Composer] = job[Composer]
    BY <1>2, <2>1 DEF StopInv, HeldInv, Active
  <2>2. CASE job'[Composer] # job[Composer]
    BY <1>1, <2>2 DEF Active
  <2> QED
    BY <2>1, <2>2
<1> QED
  BY <1>3, <1>4, <1>5, <1>6 DEF StopInv, HeldInv, StoppedWait, Elements

LEMMA StopAccepted ==
  ASSUME TInv, MarksOK, StopInv, NEW d \in Drainers, Accepted(d)
  PROVE  StopInv'
<1> DEFINE t == job[d].to
           p == job[d].prompt
           manual == d = Composer /\ ~job[d].auto
<1>1. /\ Others(d) /\ job'[d] = Ended(d) /\ Sent(d)
      /\ queue'[t] = Without(queue[t], p)
      /\ parked[t] /\ queue'[t] # <<>> /\ d # Composer => parked'[t]
      /\ \A s \in Sessions \ {t} : queue'[s] = queue[s] /\ parked'[s] = parked[s]
  BY AcceptedLemma
<1>2. t \in Sessions /\ queue[t] \in Seq(Prompts) /\ Active(d)
  BY <1>1 DEF TInv, CoreOK, ActiveInv, Active, Sent
<1>3. /\ held'[t] = IF manual THEN {} ELSE held[t]
      /\ \A s \in Sessions \ {t} : held'[s] = held[s]
  BY <1>2 DEF Accepted, MarksOK
<1>4. p \notin held[t] /\ held[t] \subseteq Elements(queue[t]) /\ (held[t] # {} => parked[t])
  BY <1>2 DEF StopInv, HeldInv, StoppedWait
<1>5. held[t] \subseteq Elements(queue'[t])
  BY <1>1, <1>2, <1>4, WithoutLemma
<1>6. d = Composer => held'[t] = {}
  BY <1>2, <1>3 DEF StopInv, HeldInv
<1>7. held'[t] # {} => parked'[t]
  <2>1. Elements(<<>>) = {}
    BY DEF Elements
  <2> QED
    BY <1>1, <1>3, <1>4, <1>5, <1>6, <2>1
<1>8. job'[d].to = None /\ job'[d].step \in {"idle", "done"}
  BY <1>1, EndedLemma
<1> QED
  BY <1>1, <1>2, <1>3, <1>5, <1>7, <1>8, StopRelease DEF Others

LEMMA StopSends ==
  ASSUME TInv, MarksOK, StopInv, ComposerSends
  PROVE  StopInv'
<1>1. /\ route \in Sessions /\ queue[route] \in Seq(Prompts) /\ queue' = queue
      /\ Others(Composer) /\ (job' = job \/ ComposerAsks)
      /\ ~Resume => parked' = parked
  BY ComposerSendsLemma DEF TInv, CoreOK
<1>2. \A d \in Drainers : d # Composer => job'[d] = job[d]
  BY <1>1 DEF Others
<1>3. CASE ComposerEffect
  <2>1. /\ ~parked[route] /\ held' = held /\ parked' = parked
        /\ job'[Composer].to = route
    BY <1>1, <1>3, DrainLemma, HeadLemma DEF ComposerEffect, Gate, queueVars, TInv, CoreOK
  <2>2. held[route] = {}
    BY <1>1, <2>1 DEF StopInv, HeldInv
  <2>3. \A s \in Sessions, d \in Drainers : job'[d].to = s => job'[d].prompt \notin held'[s]
    BY <1>2, <2>1, <2>2 DEF StopInv, StoppedWait
  <2> QED
    BY <1>1, <2>1, <2>2, <2>3 DEF StopInv, HeldInv, StoppedWait, Elements
<1>4. CASE SendNext \/ (\E p \in Prompts : SendNow(p)) \/ Resume
  <2>1. /\ held'[route] \subseteq held[route]
        /\ \A s \in Sessions \ {route} : held'[s] = held[s]
    BY <1>1, <1>4 DEF SendNext, SendNow, Resume, MarksOK
  <2>2. \/ job' = job
        \/ /\ job'[Composer].to = route /\ ~job'[Composer].auto
           /\ job'[Composer].prompt \notin held'[route]
    <3>1. \A p \in Prompts : Drain(p, FALSE) =>
            /\ job'[Composer].to = route /\ ~job'[Composer].auto
            /\ job'[Composer].prompt = p
      BY DrainLemma
    <3>2. queue[route] # <<>> => Head(queue[route]) \in Prompts
      BY <1>1, HeadLemma
    <3>3. CASE SendNext
      <4>1. /\ Drain(Head(queue[route]), FALSE) /\ Head(queue[route]) \in Prompts
            /\ held' = [held EXCEPT ![route] = @ \ {Head(queue[route])}]
        BY <3>2, <3>3 DEF SendNext
      <4> QED
        BY <1>1, <3>1, <4>1 DEF MarksOK
    <3>4. CASE \E p \in Prompts : SendNow(p)
      <4>1. PICK p \in Prompts : SendNow(p)
        BY <3>4
      <4>2. \/ job' = job
            \/ Drain(p, FALSE) /\ held' = [held EXCEPT ![route] = @ \ {p}]
        BY <4>1 DEF SendNow
      <4>3. held' = [held EXCEPT ![route] = @ \ {p}] => p \notin held'[route]
        BY <1>1 DEF MarksOK
      <4> QED
        BY <3>1, <4>2, <4>3
    <3>5. CASE Resume
      <4>1. /\ job' = job \/ Drain(Head(queue[route]), FALSE)
            /\ Head(queue[route]) \in Prompts /\ held'[route] = {}
        BY <1>1, <3>2, <3>5 DEF Resume, MarksOK
      <4> QED
        BY <3>1, <4>1
    <3> QED
      BY <1>4, <3>3, <3>4, <3>5
  <2>3. held[route] \subseteq Elements(queue'[route])
    BY <1>1 DEF StopInv, HeldInv
  <2>4. held'[route] # {} => parked'[route]
    <3>1. CASE Resume
      BY <1>1, <3>1 DEF Resume, MarksOK
    <3>2. CASE ~Resume
      BY <1>1, <2>1, <3>2 DEF StopInv, HeldInv
    <3> QED
      BY <3>1, <3>2
  <2>5. \A s \in Sessions \ {route} : parked'[s] = parked[s]
    <3>1. CASE Resume
      BY <3>1 DEF Resume, Write, TInv, CoreOK
    <3> QED
      BY <1>1, <3>1
  <2> QED
    BY <1>1, <1>2, <2>1, <2>2, <2>3, <2>4, <2>5, StopRelease
<1> QED
  BY <1>3, <1>4 DEF ComposerSends

LEMMA StopUser ==
  ASSUME TInv, MarksOK, StopInv, QueueActs
  PROVE  StopInv'
<1>1. /\ route \in Sessions /\ queue[route] \in Seq(Prompts) /\ job' = job
      /\ \A s \in Sessions \ {route} : queue'[s] = queue[s] /\ parked'[s] = parked[s]
  BY QueueActsLemma DEF TInv, CoreOK
<1>2. \A s \in Sessions \ {route} : held'[s] = held[s]
  BY DEF QueueActs, Enqueue, Halt, Delete, PromoteNow, MarksOK
<1>3. CASE Enqueue \/ \E p \in Prompts : PromoteNow(p)
  <2>1. held'[route] = {}
    BY <1>1, <1>3 DEF Enqueue, PromoteNow, MarksOK
  <2> QED
    BY <1>1, <1>2, <2>1, StopRelease
<1>4. CASE \E p \in Prompts : Delete(p)
  <2>1. PICK p \in Prompts : Delete(p)
    BY <1>4
  <2>2. /\ Write(route, Without(queue[route], p), parked[route])
        /\ held'[route] = held[route] \ {p}
    BY <1>1, <2>1 DEF Delete, MarksOK
  <2>3. Without(queue[route], p) \in Seq(Prompts) /\ parked[route] \in BOOLEAN
    BY <1>1, WithoutLemma DEF TInv, CoreOK
  <2>4. /\ queue'[route] = Without(queue[route], p)
        /\ parked'[route] = (parked[route] /\ queue'[route] # <<>>)
    BY <1>1, <2>2, <2>3, WriteLemma DEF TInv
  <2>5. held[route] \subseteq Elements(queue[route]) /\ (held[route] # {} => parked[route])
    BY <1>1 DEF StopInv, HeldInv
  <2>6. held'[route] \subseteq Elements(queue'[route])
    BY <1>1, <2>2, <2>4, <2>5, WithoutLemma
  <2>7. Elements(<<>>) = {}
    BY DEF Elements
  <2>8. held'[route] # {} => parked'[route]
    BY <2>2, <2>4, <2>5, <2>6, <2>7
  <2> QED
    BY <1>1, <1>2, <2>2, <2>6, <2>8, StopRelease
<1>5. CASE Halt
  <2>1. /\ Write(route, queue[route], TRUE) /\ held'[route] = Waiting
    BY <1>1, <1>5 DEF Halt, MarksOK
  <2>2. queue'[route] = queue[route] /\ parked'[route] = (queue[route] # <<>>)
    BY <1>1, <2>1, WriteLemma DEF TInv
  <2>3. /\ Waiting \subseteq Elements(queue[route])
        /\ \A d \in Drainers : job[d].prompt \notin Waiting
        /\ job[Composer].to = route => Waiting = {}
    BY DEF Waiting
  <2>4. Elements(<<>>) = {}
    BY DEF Elements
  <2>5. /\ \A s \in Sessions : held'[s] \subseteq Elements(queue'[s])
        /\ \A s \in Sessions : held'[s] # {} => parked'[s]
    BY <1>1, <1>2, <2>1, <2>2, <2>3, <2>4 DEF StopInv, HeldInv
  <2>6. \A s \in Sessions, d \in Drainers : job'[d].to = s => job'[d].prompt \notin held'[s]
    BY <1>1, <1>2, <2>1, <2>3 DEF StopInv, StoppedWait
  <2>7. Active(Composer) => job[Composer].to \in Sessions
    BY DEF TInv, ActiveInv, Drainers
  <2>8. Active(Composer)' /\ job'[Composer].auto => held'[job'[Composer].to] = {}
    BY <1>1, <1>2, <2>1, <2>3, <2>7 DEF StopInv, HeldInv, Active
  <2> QED
    BY <2>5, <2>6, <2>8 DEF StopInv, HeldInv, StoppedWait, Elements
<1> QED
  BY <1>3, <1>4, <1>5 DEF QueueActs

LEMMA StopNext == TInv /\ MarksOK /\ StopInv /\ [Next]_vars => StopInv'
<1> SUFFICES ASSUME TInv, MarksOK, StopInv, [Next]_vars PROVE StopInv'
  OBVIOUS
<1>1. ASSUME NEW d \in Drainers,
             \/ Submits(d) \/ Resumed(d) \/ Delivered(d) \/ Recovers(d)
             \/ Fails(d) \/ Finishes(d)
      PROVE  StopInv'
  <2>1. held' = held
    BY <1>1 DEF Submits, Resumed, Delivered, Recovers, Fails, Finishes, queueVars
  <2>2. /\ UNCHANGED <<queue, parked>> /\ Others(d)
        /\ \/ SameJob(d) /\ Active(d)
           \/ job'[d] = Ended(d) \/ job'[d] = Idle
    <3>1. CASE Submits(d)
      BY <3>1, SubmitsLemma DEF SubmitStarts, SubmitRefused, Active
    <3>2. CASE Resumed(d)
      BY <3>2, ResumedLemma DEF Active
    <3>3. CASE Delivered(d)
      BY <3>3, DeliveredLemma DEF Active
    <3>4. CASE Recovers(d)
      BY <3>4, RecoversLemma DEF Active
    <3>5. CASE Fails(d)
      BY <3>5, FailsLemma
    <3>6. CASE Finishes(d)
      BY <3>6, FinishesLemma
    <3> QED
      BY <1>1, <3>1, <3>2, <3>3, <3>4, <3>5, <3>6
  <2>3. \A e \in Drainers : \/ job'[e] = job[e]
                            \/ SameJob(e) /\ Active(e)
                            \/ job'[e].to = None /\ job'[e].step \in {"idle", "done"}
    BY <2>2, EndedLemma DEF Others
  <2> QED
    BY <2>1, <2>2, <2>3, StopJobs
<1>2. CASE BackgroundEffect
  <2>1. /\ UNCHANGED <<queue, parked, held>> /\ job'[Composer] = job[Composer]
        /\ \A s \in Sessions : ~Wanted(s) => job'[s] = job[s]
        /\ \A s \in Sessions : Wanted(s) => job'[s].to = s
    BY <1>2, BackgroundLemma DEF BackgroundEffect, queueVars
  <2>2. \A s \in Sessions : Wanted(s) => held[s] = {}
    BY DEF Wanted, Gate, StopInv, HeldInv
  <2>3. \A s \in Sessions, d \in Drainers : job'[d].to = s => job'[d].prompt \notin held'[s]
    BY <2>1, <2>2 DEF StopInv, StoppedWait, Drainers
  <2> QED
    BY <2>1, <2>3 DEF StopInv, HeldInv, StoppedWait, Elements, Active
<1>3. CASE UiActs \/ UNCHANGED vars
  <2>1. UNCHANGED <<queue, parked, held, job>>
    BY <1>3, UiActsLemma, StutterLemma
  <2> QED
    BY <2>1, StopJobs
<1>4. CASE Restart
  <2>1. /\ \A s \in Sessions : held'[s] = {}
        /\ \A d \in Drainers : job'[d] = Idle
    BY <1>4, RestartLemma DEF Restart
  <2>2. \A d \in Drainers : job'[d].step = "idle"
    BY <2>1, EndedLemma
  <2>3. Composer \in Drainers
    BY DEF Drainers
  <2> QED
    BY <2>1, <2>2, <2>3 DEF StopInv, HeldInv, StoppedWait, Active
<1> QED
  BY <1>1, <1>2, <1>3, <1>4, StopAccepted, StopSends, StopUser, StepLemma

(* What was waiting when the user stopped a queue is sent by nobody until  *)
(* the user asks for it: a drainer takes from a queue that is not parked,  *)
(* and only a drain of the composer, under way at the Stop or started by   *)
(* hand, lifts a park behind the back of the user.                         *)
THEOREM StoppedKept == Spec => []StoppedWait
<1>1. Init => TInv /\ MarksOK /\ StopInv
  <2> SUFFICES ASSUME Init PROVE TInv /\ MarksOK /\ StopInv
    OBVIOUS
  <2>1. /\ \A s \in Sessions : held[s] = {}
        /\ \A d \in Drainers : job[d].step = "idle"
    BY EndedLemma DEF Init
  <2>2. MarksOK
    BY DEF Init, MarksOK
  <2>3. Composer \in Drainers
    BY DEF Drainers
  <2> QED
    BY <2>1, <2>2, <2>3, TInvInit DEF StopInv, HeldInv, StoppedWait, Active
<1>2. TInv /\ MarksOK /\ StopInv /\ [Next]_vars => (TInv /\ MarksOK /\ StopInv)'
  BY TInvNext, MarksNext, StopNext
<1>3. StopInv => StoppedWait
  BY DEF StopInv
<1> QED
  BY <1>1, <1>2, <1>3, PTL DEF Spec

(***************************************************************************)
(* The queues                                                              *)
(***************************************************************************)
QueueInv == \A s \in Sessions :
  /\ Injective(queue[s])
  /\ \A p \in Elements(queue[s]) : Home[p] = s /\ p <= last

LEMMA QueueSame ==
  ASSUME QueueInv, UNCHANGED <<queue, last>> PROVE QueueInv'
BY DEF QueueInv, Injective, Elements

LEMMA QueueAccepted ==
  ASSUME TInv, QueueInv, NEW d \in Drainers, Accepted(d)
  PROVE  QueueInv' /\ job[d].prompt \notin Elements(queue'[job[d].to])
<1> DEFINE t == job[d].to
           p == job[d].prompt
<1>1. /\ Sent(d) /\ last' = last
      /\ queue'[t] = Without(queue[t], p)
      /\ \A s \in Sessions \ {t} : queue'[s] = queue[s]
  BY AcceptedLemma DEF Others
<1>2. t \in Sessions /\ queue[t] \in Seq(Prompts)
  BY <1>1 DEF TInv, CoreOK, ActiveInv, Active, Sent
<1>3. /\ Elements(queue'[t]) \subseteq Elements(queue[t])
      /\ Injective(queue'[t]) /\ p \notin Elements(queue'[t])
  BY <1>1, <1>2, WithoutLemma DEF QueueInv
<1>4. ASSUME NEW s \in Sessions
      PROVE  /\ Injective(queue'[s])
             /\ \A q \in Elements(queue'[s]) : Home[q] = s /\ q <= last'
  <2>1. CASE s = t
    BY <1>1, <1>3, <2>1 DEF QueueInv
  <2>2. CASE s # t
    BY <1>1, <2>2 DEF QueueInv
  <2> QED
    BY <2>1, <2>2
<1> QED
  BY <1>3, <1>4 DEF QueueInv, Injective, Elements

(* What the user does to a queue: it loses or moves prompts, or gains the  *)
(* next one.                                                               *)
LEMMA QueueUser ==
  ASSUME TInv, QueueInv, QueueActs
  PROVE  /\ QueueInv'
         /\ \A p \in Elements(queue'[route]) :
              \/ p \in Elements(queue[route])
              \/ p = last' /\ last' = last + 1 /\ Home[last'] = route
<1>1. /\ route \in Sessions /\ queue[route] \in Seq(Prompts)
      /\ \A s \in Sessions \ {route} : queue'[s] = queue[s]
  BY QueueActsLemma DEF TInv, CoreOK
<1>2. /\ last \in 0..MaxPrompts /\ last' \in 0..MaxPrompts
      /\ last' = last \/ last' = last + 1
  BY QueueActsLemma DEF TInv, CoreOK
<1>3. /\ Injective(queue'[route])
      /\ \A p \in Elements(queue'[route]) :
           \/ p \in Elements(queue[route])
           \/ p = last' /\ last' = last + 1 /\ Home[last'] = route
  <2>1. /\ Injective(queue[route])
        /\ \A p \in Elements(queue[route]) : p <= last
    BY <1>1 DEF QueueInv
  <2>2. CASE /\ queue'[route] = Append(queue[route], last') /\ last' \in Prompts
             /\ last' = last + 1 /\ Home[last'] = route
    <3>1. last' \notin Elements(queue[route])
      BY <1>2, <2>1, <2>2
    <3> QED
      BY <1>1, <2>1, <2>2, <3>1, AppendLemma
  <2>3. ASSUME NEW q \in Prompts, queue'[route] = Without(queue[route], q)
        PROVE  /\ Injective(queue'[route])
               /\ Elements(queue'[route]) \subseteq Elements(queue[route])
    BY <1>1, <2>1, <2>3, WithoutLemma
  <2>4. ASSUME NEW q \in Prompts, queue'[route] = Promoted(queue[route], q)
        PROVE  /\ Injective(queue'[route])
               /\ Elements(queue'[route]) \subseteq Elements(queue[route])
    BY <1>1, <2>1, <2>4, PromotedLemma
  <2>5. CASE queue'[route] = queue[route]
    BY <2>1, <2>5
  <2> QED
    BY <2>2, <2>3, <2>4, <2>5, QueueActsLemma
<1>4. ASSUME NEW s \in Sessions
      PROVE  /\ Injective(queue'[s])
             /\ \A q \in Elements(queue'[s]) : Home[q] = s /\ q <= last'
  <2>1. \A q \in Elements(queue[s]) : q \in Prompts /\ Home[q] = s /\ q <= last'
    <3>1. \A q \in Elements(queue[s]) : q \in Prompts /\ Home[q] = s /\ q <= last
      BY ElementsLemma DEF QueueInv, TInv, CoreOK
    <3> QED
      BY <1>2, <3>1 DEF Prompts
  <2>2. CASE s = route
    BY <1>2, <1>3, <2>1, <2>2
  <2>3. CASE s # route
    BY <1>1, <2>1, <2>3 DEF QueueInv
  <2> QED
    BY <2>2, <2>3
<1> QED
  BY <1>3, <1>4 DEF QueueInv, Injective, Elements

LEMMA QueueNext == TInv /\ QueueInv /\ [Next]_vars => QueueInv'
<1> SUFFICES ASSUME TInv, QueueInv, [Next]_vars PROVE QueueInv'
  OBVIOUS
<1>1. \/ \E d \in Drainers : Accepted(d)
      \/ QueueActs
      \/ UNCHANGED <<queue, last>>
  BY StepLemma, SubmitsLemma, ResumedLemma, DeliveredLemma, RecoversLemma, FailsLemma,
     FinishesLemma, ComposerSendsLemma, BackgroundLemma, UiActsLemma, RestartLemma,
     StutterLemma DEF Others
<1> QED
  BY <1>1, QueueSame, QueueAccepted, QueueUser

(***************************************************************************)
(* Wake-ups                                                                *)
(***************************************************************************)
(* A background drainer that has yet to clear its flag is through with its *)
(* prompt, or a retry is ahead of it or the retries are used up.           *)
DoneInv == \A s \in Sessions :
  job[s].step = "done" /\ job[s].prompt \in Elements(queue[s]) => Retries(s)

LEMMA QuietLemma ==
  ASSUME Quiet, NEW s \in Sessions
  PROVE  job[s].step \notin {"asked", "done"}
BY QueueAssumption DEF Quiet, Drainers

LEMMA DoneNext == TInv /\ QueueInv /\ DoneInv /\ [Next]_vars => DoneInv'
<1> SUFFICES ASSUME TInv, QueueInv, DoneInv, [Next]_vars, NEW s \in Sessions,
                    job'[s].step = "done", job'[s].prompt \in Elements(queue'[s])
             PROVE  Retries(s)'
  BY DEF DoneInv, Retries, Elements
<1>1. s \in Drainers /\ s # Composer
  BY QueueAssumption DEF Drainers
<1>2. /\ job[s].step = "done" => ~Quiet
      /\ job[s].step = "done" /\ job[s].prompt \in Elements(queue[s]) => Retries(s)
  BY QuietLemma DEF DoneInv
<1>3. ASSUME NEW d \in Drainers, Submits(d) PROVE Retries(s)'
  <2>1. /\ Others(d) /\ (retry => retry') /\ queue' = queue
        /\ SubmitStarts(d) \/ SubmitRefused(d)
    BY <1>3, SubmitsLemma
  <2>2. CASE d = s
    <3>1. SubmitRefused(s) /\ job'[s].prompt = job[s].prompt
      BY <1>1, <2>1, <2>2, EndedLemma DEF SubmitStarts, SubmitRefused
    <3> QED
      BY <1>1, <2>1, <3>1 DEF SubmitRefused
  <2>3. CASE d # s
    BY <1>1, <1>2, <2>1, <2>3 DEF Others, Retries
  <2> QED
    BY <2>2, <2>3
<1>4. ASSUME NEW d \in Drainers, Resumed(d) \/ Delivered(d) \/ Recovers(d) PROVE FALSE
  <2>1. Others(d) /\ job'[d].step # "done" /\ Quiet
    BY <1>4, ResumedLemma, DeliveredLemma, RecoversLemma
  <2> QED
    BY <1>1, <1>2, <2>1 DEF Others
<1>5. ASSUME NEW d \in Drainers, Accepted(d) PROVE FALSE
  <2>1. Others(d) /\ Quiet /\ Sent(d) /\ job'[d] = Ended(d)
    BY <1>5, AcceptedLemma
  <2>2. d = s
    BY <1>1, <1>2, <2>1 DEF Others
  <2>3. job[s].to = s
    BY <1>1, <2>1, <2>2 DEF Sent, TInv, ActiveInv, Active
  <2>4. job'[s].prompt = job[s].prompt
    BY <1>1, <2>1, <2>2, EndedLemma DEF TInv, CoreOK
  <2> QED
    BY <1>5, <2>2, <2>3, <2>4, QueueAccepted
<1>6. ASSUME NEW d \in Drainers, Fails(d) PROVE Retries(s)'
  <2>1. Others(d) /\ Quiet /\ (d # Composer => Retries(d)')
    BY <1>6, FailsLemma
  <2>2. d = s
    BY <1>1, <1>2, <2>1 DEF Others
  <2> QED
    BY <1>1, <2>1, <2>2
<1>7. ASSUME NEW d \in Drainers, Finishes(d) PROVE Retries(s)'
  <2>1. /\ Others(d) /\ job'[d].step = "idle"
        /\ queue' = queue /\ fails' = fails /\ retry' = retry
    BY <1>7, FinishesLemma, EndedLemma
  <2> QED
    BY <1>1, <1>2, <2>1 DEF Others, Retries
<1>8. CASE ComposerSends
  <2>1. Others(Composer) /\ queue' = queue /\ retry' = retry
    BY <1>8, ComposerSendsLemma
  <2> QED
    BY <1>1, <1>2, <2>1 DEF Others, Retries
<1>9. CASE BackgroundEffect
  <2>1. /\ queue' = queue /\ retry' = retry /\ fails' = fails
        /\ job'[s] = job[s] \/ job'[s].step = "asked"
    BY <1>9, BackgroundLemma
  <2> QED
    BY <1>2, <2>1 DEF Retries
<1>10. CASE QueueActs \/ UiActs
  <2>1. job' = job /\ Quiet
    BY <1>10, QueueActsLemma, UiActsLemma
  <2> QED
    BY <1>2, <2>1
<1>11. CASE UNCHANGED vars
  BY <1>2, <1>11, StutterLemma DEF Retries
<1>12. CASE Restart
  BY <1>1, <1>12, RestartLemma, EndedLemma
<1> QED
  BY <1>3, <1>4, <1>5, <1>6, <1>7, <1>8, <1>9, <1>10, <1>11, <1>12, StepLemma

(* Every step but two notes what it has changed.                           *)
LEMMA NotedLemma ==
  ASSUME [Next]_vars, ~due', ~BackgroundEffect, ~Restart
  PROVE  /\ ~due /\ (retry => retry')
         /\ queue' = queue /\ parked' = parked /\ view' = view /\ busy' = busy
<1>1. CASE UNCHANGED vars
  BY <1>1, StutterLemma
<1>2. CASE Noted
  BY <1>2 DEF Noted, Changed, Deps
<1>3. Noted \/ UNCHANGED vars
  BY DEF Next, SendStep, ComposerEffect, RetryTimer, Submits, Resumed, Delivered, Recovers,
     Accepted, Fails, Finishes, Enqueue, SendNext, Resume, Halt, Arrive, Delete, PromoteNow,
     SendNow, Navigate, TurnEnds, EndUnheard, AnswerStarts, ToldRunning, ToldIdle
<1> QED
  BY <1>1, <1>2, <1>3

LEMMA WakeStep == TInv /\ DoneInv /\ [Next]_vars =>
  \A s \in Sessions : ~Asleep(s) /\ Asleep(s)' =>
    Finishes(s) /\ job[s].prompt \notin Elements(queue[s])
<1> SUFFICES ASSUME TInv, DoneInv, [Next]_vars, NEW s \in Sessions,
                    ~Asleep(s), Asleep(s)'
             PROVE  Finishes(s) /\ job[s].prompt \notin Elements(queue[s])
  OBVIOUS
<1>1. s \in Drainers /\ s # Composer
  BY QueueAssumption DEF Drainers
<1>2. /\ s # view' /\ ~due' /\ ~retry'
      /\ queue'[s] # <<>> /\ ~busy'[s] /\ ~parked'[s] /\ job'[s].step = "idle"
      /\ fails'[s][Head(queue'[s])] < MaxTries
      /\ \A p \in Prompts : fails'[s][p] < MaxTries
  BY DEF Asleep, Gate
<1>3. ~BackgroundEffect
  <2> SUFFICES ASSUME BackgroundEffect PROVE FALSE
    OBVIOUS
  <2>1. /\ UNCHANGED <<view, queue, parked, busy, fails, retry>>
        /\ ~Wanted(s) => job'[s] = job[s]
        /\ Wanted(s) => job'[s].step = "asked"
    BY BackgroundLemma
  <2>2. ~Wanted(s) /\ job'[s] = job[s]
    BY <1>2, <2>1
  <2>3. Gate(s, s, busy[s])
    BY <1>2, <2>1, <2>2 DEF Gate
  <2> QED
    BY <1>2, <2>1, <2>2, <2>3 DEF Wanted
<1>4. ~Restart
  BY <1>2, RestartLemma
<1>5. /\ ~due /\ ~retry /\ s # view
      /\ queue' = queue /\ parked' = parked /\ busy' = busy
  BY <1>2, <1>3, <1>4, NotedLemma
<1>6. ~(job'[s] = job[s] /\ fails'[s] = fails[s])
  <2> SUFFICES ASSUME job'[s] = job[s], fails'[s] = fails[s] PROVE FALSE
    OBVIOUS
  <2>1. Gate(s, s, busy[s]) /\ \A p \in Prompts : fails[s][p] < MaxTries
    BY <1>2, <1>5 DEF Gate
  <2> QED
    BY <1>5, <2>1 DEF Asleep
<1>7. ASSUME NEW d \in Drainers, Others(d) PROVE d = s
  BY <1>1, <1>6, <1>7 DEF Others
<1>8. CASE Finishes(s)
  <2>1. job[s].step = "done" /\ fails' = fails
    BY <1>1, <1>8, FinishesLemma
  <2>2. \A p \in Prompts : fails[s][p] # MaxTries
    BY <1>2, <2>1, QueueAssumption
  <2>3. ~Retries(s)
    BY <1>5, <2>2 DEF Retries
  <2> QED
    BY <1>8, <2>1, <2>3 DEF DoneInv
<1>9. ASSUME NEW d \in Drainers, Submits(d) PROVE FALSE
  <2>1. d = s /\ (SubmitStarts(s) \/ SubmitRefused(s))
    BY <1>7, <1>9, SubmitsLemma
  <2> QED
    BY <1>1, <1>2, <2>1, EndedLemma DEF SubmitStarts, SubmitRefused
<1>10. ASSUME NEW d \in Drainers, Resumed(d) \/ Delivered(d) \/ Recovers(d) PROVE FALSE
  <2>1. Others(d) /\ job'[d].step \in {"attach", "again", "sent", "last"}
    BY <1>10, ResumedLemma, DeliveredLemma, RecoversLemma
  <2> QED
    BY <1>2, <1>7, <2>1
<1>11. ASSUME NEW d \in Drainers, Accepted(d) \/ Fails(d) PROVE FALSE
  <2>1. Others(d) /\ job'[d] = Ended(d)
    BY <1>11, AcceptedLemma, FailsLemma
  <2> QED
    BY <1>1, <1>2, <1>7, <2>1, EndedLemma
<1>12. ASSUME NEW d \in Drainers, Finishes(d) PROVE d = s
  BY <1>7, <1>12, FinishesLemma
<1>13. ~ComposerSends
  BY <1>1, <1>7, ComposerSendsLemma DEF Drainers
<1>14. ~QueueActs /\ ~UiActs /\ ~UNCHANGED vars
  BY <1>6, QueueActsLemma, UiActsLemma, StutterLemma
<1> QED
  BY <1>3, <1>4, <1>8, <1>9, <1>10, <1>11, <1>12, <1>13, <1>14, StepLemma

(* A queue in the background falls asleep in one place only: where the     *)
(* flag of its drainer comes down behind a prompt that has left the queue. *)
(* An attempt that fails leaves a timer or has used up its retries, and    *)
(* whatever else opens the gate is noted by the effect.                    *)
THEOREM WakeUps == Spec => WakeUpKept
<1>1. Init => TInv /\ QueueInv /\ DoneInv
  <2> SUFFICES ASSUME Init PROVE TInv /\ QueueInv /\ DoneInv
    OBVIOUS
  <2>1. \A s \in Sessions : job[s].step = "idle"
    BY EndedLemma DEF Init, Drainers
  <2>2. \A s \in Sessions : Elements(queue[s]) = {} /\ Injective(queue[s])
    BY DEF Init, Elements, Injective
  <2> QED
    BY <2>1, <2>2, TInvInit DEF QueueInv, DoneInv
<1>2. TInv /\ QueueInv /\ DoneInv /\ [Next]_vars => (TInv /\ QueueInv /\ DoneInv)'
  BY TInvNext, QueueNext, DoneNext
<1>3. TInv /\ DoneInv /\ [Next]_vars =>
        [\A s \in Sessions : ~Asleep(s) /\ Asleep(s)' =>
           Finishes(s) /\ job[s].prompt \notin Elements(queue[s])]_vars
  BY WakeStep
<1> QED
  BY <1>1, <1>2, <1>3, PTL DEF Spec, WakeUpKept

(***************************************************************************)
(* Once, and at home                                                       *)
(***************************************************************************)
ServedInv == \A s \in Sessions :
  /\ Injective(served[s])
  /\ \A p \in Elements(served[s]) : Home[p] = s /\ p <= last

(* A drainer sends a prompt to its home, and until it is sent no other     *)
(* attempt has brought it there.                                           *)
JobOk(d) ==
  /\ Active(d) => Home[job[d].prompt] = job[d].to /\ job[d].prompt <= last
  /\ job[d].step = "asked" => job[d].prompt \in Elements(queue[job[d].to])
  /\ job[d].step \in {"resume", "attach", "again"} =>
       job[d].prompt \notin Elements(served[job[d].to])

Carries(d, s, p) == Sent(d) /\ job[d].prompt = p /\ job[d].to = s

JobInv == \A d \in Drainers : JobOk(d)

(* A prompt that is queued and served has its answer on the way.           *)
AckInv == \A s \in Sessions : \A p \in Elements(queue[s]) \cap Elements(served[s]) :
            \E d \in Drainers : Carries(d, s, p)

OnceInv == QueueInv /\ ServedInv /\ JobInv /\ AckInv

LEMMA ServedSame ==
  ASSUME ServedInv, UNCHANGED <<served, last>> PROVE ServedInv'
BY DEF ServedInv, Injective, Elements

(* No record of a drainer changes, nor what it is compared with.           *)
LEMMA JobSame ==
  ASSUME TInv, JobInv, UNCHANGED <<served, last>>, queue' = queue \/ Quiet,
         ~SlowMiddleware,
         NEW d \in Drainers, job'[d] = job[d]
  PROVE  JobOk(d)'
<1>1. Quiet => job[d].step # "asked"
  BY DEF Quiet
<1> QED
  BY <1>1 DEF JobInv, JobOk, Active, Elements

LEMMA OnceSubmits ==
  ASSUME TInv, LockIsASubmit, OnceInv, ~SlowMiddleware, NEW d \in Drainers, Submits(d)
  PROVE  OnceInv'
<1>1. /\ Others(d) /\ job[d].step = "asked" /\ queue' = queue /\ served' = served
      /\ last' = last /\ (SubmitStarts(d) \/ SubmitRefused(d))
  BY SubmitsLemma DEF Others
<1>2. QueueInv' /\ ServedInv'
  BY <1>1, QueueSame, ServedSame DEF OnceInv
<1>3. /\ job[d].prompt \in Elements(queue[job[d].to]) /\ job[d].to \in Sessions
      /\ Home[job[d].prompt] = job[d].to /\ job[d].prompt <= last
  BY <1>1 DEF OnceInv, JobInv, JobOk, TInv, ActiveInv, Active
<1>4. SubmitStarts(d) => job[d].prompt \notin Elements(served[job[d].to])
  BY <1>3 DEF OnceInv, AckInv, Carries, Sent, SubmitStarts, LockIsASubmit, Submitting
<1>5. JobOk(d)'
  <2>1. CASE SubmitStarts(d)
    <3>1. /\ job'[d].prompt = job[d].prompt /\ job'[d].to = job[d].to
          /\ job'[d].step \in {"resume", "attach", "again"}
      BY <2>1 DEF SubmitStarts, SameJob
    <3>2. /\ Home[job'[d].prompt] = job'[d].to /\ job'[d].prompt <= last'
          /\ job'[d].step # "asked"
          /\ job'[d].prompt \notin Elements(served'[job'[d].to])
      BY <1>1, <1>3, <1>4, <2>1, <3>1
    <3> QED
      BY <3>2 DEF JobOk, Elements
  <2>2. CASE SubmitRefused(d)
    <3>1. job'[d].step \in {"idle", "done"}
      BY <2>2, EndedSteps DEF SubmitRefused
    <3> QED
      BY <3>1 DEF JobOk, Active
  <2> QED
    BY <1>1, <2>1, <2>2
<1>6. JobInv'
  <2>1. \A e \in Drainers \ {d} : JobOk(e)'
    BY <1>1, JobSame DEF Others, OnceInv
  <2> QED
    BY <1>5, <2>1 DEF JobInv
<1>7. AckInv'
  BY <1>1 DEF OnceInv, AckInv, Carries, Sent, Others, Elements
<1> QED
  BY <1>2, <1>6, <1>7 DEF OnceInv

(* A drainer that goes on or gives up: the others stay as they are.        *)
LEMMA JobsOf ==
  ASSUME TInv, JobInv, ~SlowMiddleware, NEW d \in Drainers, Others(d),
         served' = served, queue' = queue \/ Quiet, JobOk(d)'
  PROVE  JobInv'
<1>1. last' = last /\ \A e \in Drainers \ {d} : job'[e] = job[e]
  BY DEF Others
<1>2. \A e \in Drainers \ {d} : JobOk(e)'
  BY <1>1, JobSame
<1> QED
  BY <1>2 DEF JobInv

LEMMA JobEnds ==
  ASSUME NEW d \in Drainers, job'[d].step \in {"idle", "done"} PROVE JobOk(d)'
BY DEF JobOk, Active

LEMMA OnceResumed ==
  ASSUME TInv, OnceInv, ~SlowMiddleware, NEW d \in Drainers, Resumed(d)
  PROVE  OnceInv'
<1>1. /\ Others(d) /\ job[d].step = "resume" /\ queue' = queue /\ served' = served
      /\ last' = last /\ SameJob(d) /\ job'[d].step = "attach"
  BY ResumedLemma DEF Others
<1>2. JobOk(d)'
  BY <1>1 DEF OnceInv, JobInv, JobOk, Active, SameJob, Elements
<1>3. AckInv'
  BY <1>1 DEF OnceInv, AckInv, Carries, Sent, Others, Elements
<1> QED
  BY <1>1, <1>2, <1>3, QueueSame, ServedSame, JobsOf DEF OnceInv

LEMMA OnceRecovers ==
  ASSUME TInv, OnceInv, ~SlowMiddleware, ~AcksLost, NEW d \in Drainers, Recovers(d)
  PROVE  OnceInv'
<1>1. /\ Others(d) /\ job[d].step = "attach" /\ queue' = queue /\ served' = served
      /\ last' = last /\ SameJob(d) /\ job'[d].step = "again"
  BY RecoversLemma DEF Others
<1>2. JobOk(d)'
  BY <1>1 DEF OnceInv, JobInv, JobOk, Active, SameJob, Elements
<1>3. AckInv'
  BY <1>1 DEF OnceInv, AckInv, Carries, Sent, Others, Elements
<1> QED
  BY <1>1, <1>2, <1>3, QueueSame, ServedSame, JobsOf DEF OnceInv

LEMMA OnceDelivered ==
  ASSUME TInv, LockIsASubmit, OnceInv, ~SlowMiddleware, NEW d \in Drainers, Delivered(d)
  PROVE  OnceInv'
<1> DEFINE t == job[d].to
           p == job[d].prompt
<1>1. /\ Others(d) /\ job[d].step \in {"attach", "again"} /\ queue' = queue
      /\ last' = last /\ SameJob(d) /\ job'[d].step \in {"sent", "last"} /\ Quiet
      /\ served'[t] = Append(served[t], p)
      /\ \A s \in Sessions \ {t} : served'[s] = served[s]
  BY DeliveredLemma DEF Others
<1>2. /\ t \in Sessions /\ p \in Prompts /\ Home[p] = t /\ p <= last
      /\ p \notin Elements(served[t]) /\ served[t] \in Seq(Prompts)
  BY <1>1 DEF OnceInv, JobInv, JobOk, TInv, CoreOK, ActiveInv, Active
<1>3. /\ Elements(served'[t]) = Elements(served[t]) \cup {p}
      /\ Injective(served[t]) => Injective(served'[t])
  BY <1>1, <1>2, AppendLemma
<1>4. QueueInv'
  BY <1>1, QueueSame DEF OnceInv
<1>5. ServedInv'
  <2>1. ASSUME NEW s \in Sessions
        PROVE  /\ Injective(served'[s])
               /\ \A q \in Elements(served'[s]) : Home[q] = s /\ q <= last'
    <3>1. CASE s = t
      BY <1>1, <1>2, <1>3, <3>1 DEF OnceInv, ServedInv
    <3>2. CASE s # t
      BY <1>1, <3>2 DEF OnceInv, ServedInv
    <3> QED
      BY <3>1, <3>2
  <2> QED
    BY <2>1 DEF ServedInv, Injective, Elements
<1>6. JobInv'
  <2>1. JobOk(d)'
    BY <1>1, <1>2 DEF JobOk, SameJob
  <2>2. ASSUME NEW e \in Drainers \ {d} PROVE JobOk(e)'
    <3>1. job'[e] = job[e] /\ JobOk(e)
      BY <1>1 DEF Others, OnceInv, JobInv
    <3>2. job[e].step \in {"resume", "attach", "again"} => job[e].to \in Sessions \ {t}
      <4>1. Submitting(d) /\ (Submitting(e) => job[e].to # t)
        BY <1>1 DEF LockIsASubmit, Submitting
      <4>2. Active(e) => job[e].to \in Sessions
        BY DEF TInv, ActiveInv
      <4> QED
        BY <4>1, <4>2 DEF Active, Submitting
    <3>3. job[e].step \in {"resume", "attach", "again"} => served'[job[e].to] = served[job[e].to]
      BY <1>1, <3>2
    <3> QED
      BY <1>1, <3>1, <3>3 DEF JobOk, Active, Elements
  <2> QED
    BY <2>1, <2>2 DEF JobInv
<1>7. AckInv'
  <2>1. ASSUME NEW s \in Sessions, NEW q \in Elements(queue'[s]), q \in Elements(served'[s])
        PROVE  \E e \in Drainers : Carries(e, s, q)'
    <3>1. CASE s = t /\ q = p
      BY <1>1, <3>1 DEF Carries, Sent, SameJob
    <3>2. CASE ~(s = t /\ q = p)
      <4>1. q \in Elements(queue[s])
        BY <1>1, <2>1
      <4>2. q \in Elements(served[s])
        BY <1>1, <1>3, <2>1, <3>2
      <4>3. PICK e \in Drainers : Carries(e, s, q)
        BY <4>1, <4>2 DEF OnceInv, AckInv
      <4>4. e # d
        BY <1>1, <4>3 DEF Carries, Sent
      <4> QED
        BY <1>1, <4>3, <4>4 DEF Carries, Sent, Others
    <3> QED
      BY <3>1, <3>2
  <2> QED
    BY <2>1 DEF AckInv, Elements
<1> QED
  BY <1>4, <1>5, <1>6, <1>7 DEF OnceInv

LEMMA OnceAccepted ==
  ASSUME TInv, OnceInv, ~SlowMiddleware, NEW d \in Drainers, Accepted(d)
  PROVE  OnceInv'
<1> DEFINE t == job[d].to
           p == job[d].prompt
<1>1. /\ Others(d) /\ Sent(d) /\ served' = served
      /\ last' = last /\ job'[d] = Ended(d) /\ Quiet
      /\ queue'[t] = Without(queue[t], p)
      /\ \A s \in Sessions \ {t} : queue'[s] = queue[s]
  BY AcceptedLemma DEF Others
<1>2. t \in Sessions /\ queue[t] \in Seq(Prompts)
  BY <1>1 DEF TInv, CoreOK, ActiveInv, Active, Sent
<1>3. /\ Elements(queue'[t]) \subseteq Elements(queue[t])
      /\ Injective(queue[t]) => Injective(queue'[t]) /\ p \notin Elements(queue'[t])
  BY <1>1, <1>2, WithoutLemma
<1>4. QueueInv'
  BY QueueAccepted DEF OnceInv
<1>5. JobInv'
  <2>1. JobOk(d)'
    BY <1>1, EndedSteps, JobEnds
  <2> QED
    BY <1>1, <2>1, JobsOf DEF OnceInv
<1>6. AckInv'
  <2>1. ASSUME NEW s \in Sessions, NEW q \in Elements(queue'[s]), q \in Elements(served'[s])
        PROVE  \E e \in Drainers : Carries(e, s, q)'
    <3>1. q \in Elements(queue[s]) /\ q \in Elements(served[s])
      <4>1. CASE s = t
        BY <1>1, <1>3, <2>1, <4>1
      <4>2. CASE s # t
        BY <1>1, <2>1, <4>2
      <4> QED
        BY <4>1, <4>2
    <3>2. PICK e \in Drainers : Carries(e, s, q)
      BY <3>1 DEF OnceInv, AckInv
    <3>3. ~(s = t /\ q = p)
      BY <1>2, <1>3, <2>1 DEF OnceInv, QueueInv
    <3>4. e # d
      BY <3>2, <3>3 DEF Carries, Sent
    <3> QED
      BY <1>1, <3>2, <3>4 DEF Carries, Sent, Others
  <2> QED
    BY <2>1 DEF AckInv, Elements
<1> QED
  BY <1>1, <1>4, <1>5, <1>6, ServedSame DEF OnceInv

LEMMA OnceEnds ==
  ASSUME TInv, OnceInv, ~SlowMiddleware, ~AcksLost, NEW d \in Drainers,
         Fails(d) \/ Finishes(d)
  PROVE  OnceInv'
<1>1. /\ Others(d) /\ ~Sent(d) /\ served' = served
      /\ queue' = queue /\ job'[d].step \in {"idle", "done"}
  <2>1. CASE Fails(d)
    BY <2>1, FailsLemma, EndedSteps DEF Sent
  <2>2. CASE Finishes(d)
    BY <2>2, FinishesLemma, EndedLemma DEF Sent
  <2> QED
    BY <2>1, <2>2
<1>2. last' = last
  BY <1>1 DEF Others
<1>3. AckInv'
  BY <1>1 DEF OnceInv, AckInv, Carries, Sent, Others, Elements
<1> QED
  BY <1>1, <1>2, <1>3, QueueSame, ServedSame, JobsOf, JobEnds DEF OnceInv

LEMMA OnceAsks ==
  ASSUME TInv, OnceInv, ~SlowMiddleware, ComposerSends \/ BackgroundEffect
  PROVE  OnceInv'
<1>1. UNCHANGED <<queue, served, last>>
  BY ComposerSendsLemma, BackgroundLemma DEF Others
<1>2. ASSUME NEW d \in Drainers
      PROVE  \/ job'[d] = job[d]
             \/ /\ job[d].step = "idle" /\ job'[d].step = "asked"
                /\ job'[d].to \in Sessions
                /\ job'[d].prompt \in Elements(queue[job'[d].to])
  <2>1. CASE ComposerSends
    <3>1. Others(Composer) /\ (job' = job \/ ComposerAsks)
      BY <2>1, ComposerSendsLemma
    <3>2. route \in Sessions
      BY DEF TInv, CoreOK
    <3> QED
      BY <3>1, <3>2 DEF Others, ComposerAsks
  <2>2. CASE BackgroundEffect
    BY <2>2, BackgroundLemma DEF Drainers
  <2> QED
    BY <2>1, <2>2
<1>3. JobInv'
  <2>1. ASSUME NEW d \in Drainers PROVE JobOk(d)'
    <3>1. CASE job'[d] = job[d]
      BY <1>1, <3>1, JobSame DEF OnceInv
    <3>2. CASE /\ job'[d].step = "asked" /\ job'[d].to \in Sessions
               /\ job'[d].prompt \in Elements(queue[job'[d].to])
      BY <1>1, <3>2 DEF OnceInv, QueueInv, JobOk, Elements
    <3> QED
      BY <1>2, <3>1, <3>2
  <2> QED
    BY <2>1 DEF JobInv
<1>4. AckInv'
  <2>1. ASSUME NEW s \in Sessions, NEW q \in Elements(queue[s]), q \in Elements(served[s])
        PROVE  \E e \in Drainers : Carries(e, s, q)'
    <3>1. PICK e \in Drainers : Carries(e, s, q)
      BY <2>1 DEF OnceInv, AckInv
    <3> QED
      BY <1>2, <3>1 DEF Carries, Sent
  <2> QED
    BY <1>1, <2>1 DEF AckInv, Elements
<1> QED
  BY <1>1, <1>3, <1>4, QueueSame, ServedSame DEF OnceInv

LEMMA OnceUser ==
  ASSUME TInv, OnceInv, ~SlowMiddleware, QueueActs
  PROVE  OnceInv'
<1>1. /\ Quiet /\ job' = job /\ served' = served
      /\ route \in Sessions /\ queue[route] \in Seq(Prompts)
      /\ \A s \in Sessions \ {route} : queue'[s] = queue[s]
  BY QueueActsLemma DEF TInv, CoreOK
<1>2. /\ last \in 0..MaxPrompts /\ last' \in 0..MaxPrompts
      /\ last' = last \/ last' = last + 1
  BY QueueActsLemma DEF TInv, CoreOK
<1>3. \A p \in Elements(queue'[route]) :
        \/ p \in Elements(queue[route])
        \/ p = last' /\ last' = last + 1 /\ Home[last'] = route
  BY QueueUser DEF OnceInv
<1>4. QueueInv'
  BY QueueUser DEF OnceInv
<1>5. ServedInv'
  <2>1. ASSUME NEW s \in Sessions, NEW q \in Elements(served[s])
        PROVE  Home[q] = s /\ q <= last'
    <3>1. q \in Prompts /\ Home[q] = s /\ q <= last
      BY ElementsLemma DEF OnceInv, ServedInv, TInv, CoreOK
    <3> QED
      BY <1>2, <3>1 DEF Prompts
  <2> QED
    BY <1>1, <2>1 DEF OnceInv, ServedInv, Injective, Elements
<1>6. JobInv'
  <2>1. ASSUME NEW d \in Drainers PROVE JobOk(d)'
    <3>1. JobOk(d) /\ job[d].step # "asked" /\ job'[d] = job[d]
      BY <1>1 DEF OnceInv, JobInv, Quiet
    <3>2. Active(d) => job[d].prompt <= last'
      <4>1. Active(d) => job[d].prompt \in Prompts /\ job[d].prompt <= last
        BY <3>1 DEF JobOk, TInv, ActiveInv
      <4> QED
        BY <1>2, <4>1 DEF Prompts
    <3> QED
      BY <1>1, <3>1, <3>2 DEF JobOk, Active, Elements
  <2> QED
    BY <2>1 DEF JobInv
<1>7. AckInv'
  <2>1. ASSUME NEW s \in Sessions, NEW q \in Elements(queue'[s]), q \in Elements(served'[s])
        PROVE  \E e \in Drainers : Carries(e, s, q)'
    <3>1. q \in Elements(served[s]) /\ q <= last /\ q \in Prompts
      BY <1>1, <2>1, ElementsLemma DEF OnceInv, ServedInv, TInv, CoreOK
    <3>2. q # last + 1
      BY <1>2, <3>1 DEF Prompts
    <3>3. q \in Elements(queue[s])
      BY <1>1, <1>3, <2>1, <3>2
    <3>4. PICK e \in Drainers : Carries(e, s, q)
      BY <3>1, <3>3 DEF OnceInv, AckInv
    <3> QED
      BY <1>1, <3>4 DEF Carries, Sent
  <2> QED
    BY <2>1 DEF AckInv, Elements
<1> QED
  BY <1>4, <1>5, <1>6, <1>7 DEF OnceInv

LEMMA OnceRestart ==
  ASSUME TInv, OnceInv, ~AcksLost, Restart
  PROVE  OnceInv'
<1>1. /\ UNCHANGED <<queue, last, served>>
      /\ \A d \in Drainers : job'[d] = Idle /\ ~Sent(d)
  BY RestartLemma
<1>2. JobInv'
  BY <1>1, EndedLemma, JobEnds DEF JobInv
<1>3. AckInv'
  BY <1>1 DEF OnceInv, AckInv, Carries, Sent, Elements
<1> QED
  BY <1>1, <1>2, <1>3, QueueSame, ServedSame DEF OnceInv

LEMMA OnceSame ==
  ASSUME TInv, OnceInv, ~SlowMiddleware, UNCHANGED <<queue, served, last, job>>
  PROVE  OnceInv'
<1>1. JobInv'
  BY JobSame DEF OnceInv, JobInv
<1>2. AckInv'
  BY DEF OnceInv, AckInv, Carries, Sent, Elements
<1> QED
  BY <1>1, <1>2, QueueSame, ServedSame DEF OnceInv

LEMMA OnceNext ==
  ASSUME TInv, LockIsASubmit, OnceInv, ~SlowMiddleware, ~AcksLost, [Next]_vars
  PROVE  OnceInv'
<1>1. CASE UiActs \/ UNCHANGED vars
  BY <1>1, UiActsLemma, StutterLemma, OnceSame
<1> QED
  BY <1>1, StepLemma, OnceSubmits, OnceResumed, OnceRecovers, OnceDelivered, OnceAccepted,
     OnceEnds, OnceAsks, OnceUser, OnceRestart

LEMMA OnceInit == Init => OnceInv
<1> SUFFICES ASSUME Init PROVE OnceInv
  OBVIOUS
<1>1. \A s \in Sessions : Elements(queue[s]) = {} /\ Elements(served[s]) = {}
                         /\ Injective(queue[s]) /\ Injective(served[s])
  BY DEF Init, Elements, Injective
<1>2. JobInv
  BY EndedLemma DEF Init, JobInv, JobOk, Active
<1> QED
  BY <1>1, <1>2 DEF OnceInv, QueueInv, ServedInv, AckInv

(* With the middleware answering at once and no answer lost, a prompt is   *)
(* given to the server at most once and in the session it was queued for:  *)
(* a prompt that is queued and served has its answer on the way, the       *)
(* session is locked for as long, and then it is gone from the queue.      *)
THEOREM RunsOnce == ~SlowMiddleware /\ ~AcksLost /\ Spec => []OnceAtHome
<1>1. Init => TInv /\ LockIsASubmit /\ OnceInv
  BY TInvInit, LockInit, OnceInit
<1>2. TInv /\ LockIsASubmit /\ OnceInv /\ ~SlowMiddleware /\ ~AcksLost /\ [Next]_vars =>
        (TInv /\ LockIsASubmit /\ OnceInv)'
  BY TInvNext, LockNext, OnceNext
<1>3. OnceInv => OnceAtHome
  BY DEF OnceInv, ServedInv, OnceAtHome, Injective, Elements
<1>4. ASSUME ~SlowMiddleware, ~AcksLost PROVE Spec => []OnceAtHome
  BY <1>1, <1>2, <1>3, <1>4, PTL DEF Spec
<1> QED
  BY <1>4

-----------------------------------------------------------------------------
(***************************************************************************)
(* The promise of the queue (PromptOutbox).  The drainers, their effects   *)
(* and the view are forgotten; what is left of a submit is the prompt it   *)
(* has under way.                                                          *)
(***************************************************************************)
OutboxInv == TInv /\ LockIsASubmit /\ SentInv /\ OnceInv

LEMMA RanLemma == \A p \in Prompts : p \in Outbox!Ran <=> p \in Elements(served[Home[p]])
BY DEF Outbox!Ran, Elements

(* A prompt under way is on its way home, and it has been run when and     *)
(* only when its answer is due.                                            *)
LEMMA UnderWayLemma ==
  ASSUME OutboxInv, NEW d \in Drainers, Submitting(d)
  PROVE  /\ job[d].prompt \in Prompts /\ job[d].to \in Sessions
         /\ Home[job[d].prompt] = job[d].to
         /\ job[d].prompt \in UnderWay
         /\ job[d].prompt \in Outbox!Ran <=> Sent(d)
<1>1. Active(d) /\ JobOk(d)
  BY DEF Submitting, Active, OutboxInv, OnceInv, JobInv
<1>2. /\ job[d].prompt \in Prompts /\ job[d].to \in Sessions
      /\ Home[job[d].prompt] = job[d].to
  BY <1>1 DEF OutboxInv, TInv, ActiveInv, JobOk
<1>3. Sent(d) => job[d].prompt \in Elements(served[job[d].to])
  BY DEF OutboxInv, SentInv
<1>4. ~Sent(d) => job[d].prompt \notin Elements(served[job[d].to])
  BY <1>1 DEF JobOk, Submitting, Sent
<1> QED
  BY <1>2, <1>3, <1>4, RanLemma DEF UnderWay

LEMMA UnderWaySame ==
  ASSUME \A d \in Drainers : /\ Submitting(d)' <=> Submitting(d)
                             /\ Submitting(d) => job'[d].prompt = job[d].prompt
  PROVE  UnderWay' = UnderWay
BY DEF UnderWay

(* The end of a submit takes one prompt off the way: no other drainer has  *)
(* a submit to the same session.                                           *)
LEMMA UnderWayEnds ==
  ASSUME OutboxInv, NEW d \in Drainers, Submitting(d), ~Submitting(d)',
         \A e \in Drainers \ {d} : job'[e] = job[e]
  PROVE  UnderWay' = UnderWay \ {job[d].prompt}
<1>1. ASSUME NEW e \in Drainers \ {d}, Submitting(e) PROVE job[e].prompt # job[d].prompt
  BY <1>1, UnderWayLemma DEF OutboxInv, LockIsASubmit
<1>2. \A e \in Drainers \ {d} : Submitting(e)' <=> Submitting(e)
  BY DEF Submitting
<1> QED
  BY <1>1, <1>2 DEF UnderWay

LEMMA StartOutbox ==
  ASSUME OutboxInv, NEW d \in Drainers, Submits(d)
  PROVE  Outbox!Next \/ UNCHANGED Outbox!vars
<1> DEFINE p == job[d].prompt
           s == job[d].to
<1>1. /\ Others(d) /\ job[d].step = "asked" /\ UNCHANGED <<queue, served>>
      /\ SubmitStarts(d) \/ SubmitRefused(d)
  BY SubmitsLemma DEF OutboxInv
<1>2. UNCHANGED <<1..last, Queued, served>>
  BY <1>1 DEF Others, Queued, Elements
<1>3. CASE SubmitRefused(d)
  <2>1. ~Submitting(d)' /\ ~Submitting(d)
    BY <1>1, <1>3, EndedSteps DEF SubmitRefused, Submitting
  <2>2. \A e \in Drainers \ {d} : job'[e] = job[e]
    BY <1>1 DEF Others
  <2>3. UnderWay' = UnderWay
    BY <2>1, <2>2, UnderWaySame DEF Submitting
  <2> QED
    BY <1>2, <2>3 DEF Outbox!vars
<1>4. CASE SubmitStarts(d)
  <2>1. /\ p \in Prompts /\ s \in Sessions /\ Home[p] = s
        /\ p \in Elements(queue[s])
    BY <1>1 DEF OutboxInv, TInv, ActiveInv, Active, OnceInv, JobInv, JobOk
  <2>2. s \notin lock /\ job'[d].step \in {"resume", "attach"} /\ job'[d].prompt = p
    BY <1>4 DEF SubmitStarts, SameJob
  <2>3. p \notin Outbox!Ran
    <3> SUFFICES ASSUME p \in Elements(served[s]) PROVE FALSE
      BY <2>1, RanLemma
    <3>1. PICK e \in Drainers : Carries(e, s, p)
      BY <2>1 DEF OutboxInv, OnceInv, AckInv
    <3> QED
      BY <2>2, <3>1 DEF Carries, Sent, OutboxInv, LockIsASubmit, Submitting
  <2>4. \A q \in UnderWay : Home[q] # Home[p]
    BY <2>1, <2>2, UnderWayLemma DEF UnderWay, OutboxInv, LockIsASubmit
  <2>5. /\ ~Submitting(d) /\ Submitting(d)'
        /\ \A e \in Drainers \ {d} : job'[e] = job[e] /\ (Submitting(e)' <=> Submitting(e))
    BY <1>1, <2>2 DEF Submitting, Others
  <2>6. UnderWay' = UnderWay \cup {p}
    BY <2>2, <2>5 DEF UnderWay
  <2>7. Outbox!Send(p)
    BY <1>2, <2>1, <2>3, <2>4, <2>6 DEF Outbox!Send, Queued
  <2> QED
    BY <2>1, <2>7 DEF Outbox!Next
<1> QED
  BY <1>1, <1>3, <1>4

LEMMA DeliverOutbox ==
  ASSUME OutboxInv, NEW d \in Drainers, Delivered(d)
  PROVE  Outbox!Next
<1> DEFINE p == job[d].prompt
<1>1. /\ TInv' /\ Others(d) /\ job[d].step \in {"attach", "again"} /\ queue' = queue
      /\ served'[job[d].to] = Append(served[job[d].to], p)
      /\ \A s \in Sessions \ {job[d].to} : served'[s] = served[s]
      /\ job'[d].prompt = p /\ job'[d].step \in {"sent", "last"}
  BY DeliveredLemma DEF OutboxInv, SameJob
<1>2. Submitting(d) /\ Submitting(d)'
  BY <1>1 DEF Submitting
<1>3. p \in Prompts /\ Home[p] = job[d].to /\ p \in UnderWay \ Outbox!Ran
  BY <1>1, <1>2, UnderWayLemma DEF Sent
<1>4. served' = [served EXCEPT ![Home[p]] = Append(@, p)]
  <2>1. served \in [Sessions -> Seq(Prompts)] /\ served' \in [Sessions -> Seq(Prompts)]
    BY <1>1 DEF OutboxInv, TInv, CoreOK
  <2> QED
    BY <1>1, <1>3, <2>1
<1>5. UnderWay' = UnderWay
  <2>1. \A e \in Drainers \ {d} : job'[e] = job[e]
    BY <1>1 DEF Others
  <2> QED
    BY <1>1, <1>2, <2>1, UnderWaySame DEF Submitting
<1>6. UNCHANGED <<1..last, Queued>>
  BY <1>1 DEF Others, Queued, Elements
<1>7. Outbox!Run(p)
  BY <1>3, <1>4, <1>5, <1>6 DEF Outbox!Run
<1> QED
  BY <1>3, <1>7 DEF Outbox!Next

LEMMA AnswerOutbox ==
  ASSUME OutboxInv, NEW d \in Drainers, Accepted(d)
  PROVE  Outbox!Next
<1> DEFINE p == job[d].prompt
           s == job[d].to
<1>1. /\ Others(d) /\ Sent(d) /\ served' = served
      /\ queue'[s] = Without(queue[s], p)
      /\ \A t \in Sessions \ {s} : queue'[t] = queue[t]
      /\ job'[d] = Ended(d)
  BY AcceptedLemma DEF OutboxInv
<1>2. Submitting(d) /\ ~Submitting(d)'
  BY <1>1, EndedSteps DEF Submitting, Sent
<1>3. p \in Prompts /\ s \in Sessions /\ Home[p] = s /\ p \in UnderWay \cap Outbox!Ran
  BY <1>1, <1>2, UnderWayLemma
<1>4. Queued' = Queued \ {p}
  <2>1. queue[s] \in Seq(Prompts) /\ Injective(queue[s])
    BY <1>3 DEF OutboxInv, TInv, CoreOK, OnceInv, QueueInv
  <2>2. Elements(queue'[s]) = Elements(queue[s]) \ {p}
    BY <1>1, <2>1, WithoutLemma
  <2>3. \A t \in Sessions \ {s} : p \notin Elements(queue[t])
    BY <1>3 DEF OutboxInv, OnceInv, QueueInv
  <2>4. \A t \in Sessions \ {s} : Elements(queue'[t]) = Elements(queue[t])
    BY <1>1
  <2>5. \A t \in Sessions : Elements(queue'[t]) = Elements(queue[t]) \ {p}
    BY <2>2, <2>3, <2>4
  <2>6. Queued' = UNION {Elements(queue'[t]) : t \in Sessions}
    BY DEF Queued, Elements
  <2> QED
    BY <2>5, <2>6 DEF Queued
<1>5. UnderWay' = UnderWay \ {p}
  BY <1>1, <1>2, UnderWayEnds DEF Others
<1>6. Outbox!Answer(p)
  BY <1>1, <1>3, <1>4, <1>5 DEF Outbox!Answer, Others
<1> QED
  BY <1>3, <1>6 DEF Outbox!Next

LEMMA FailOutbox ==
  ASSUME OutboxInv, ~AcksLost, NEW d \in Drainers, Fails(d)
  PROVE  Outbox!Next
<1> DEFINE p == job[d].prompt
<1>1. /\ Others(d) /\ job[d].step \in {"resume", "attach", "again"}
      /\ UNCHANGED <<queue, served>> /\ job'[d] = Ended(d)
  BY FailsLemma DEF OutboxInv
<1>2. Submitting(d) /\ ~Submitting(d)'
  BY <1>1, EndedSteps DEF Submitting
<1>3. p \in UnderWay \ Outbox!Ran
  BY <1>1, <1>2, UnderWayLemma DEF Sent
<1>4. UnderWay' = UnderWay \ {p}
  BY <1>1, <1>2, UnderWayEnds DEF Others
<1>5. Outbox!GiveUp({p})
  BY <1>1, <1>3, <1>4 DEF Outbox!GiveUp, Others, Queued, Elements
<1> QED
  BY <1>3, <1>5 DEF Outbox!Next

(* What a drainer plans, and how it looks away, is nobody's business.      *)
LEMMA PlanOutbox ==
  ASSUME OutboxInv,
         \/ \E d \in Drainers : Resumed(d) \/ Recovers(d) \/ Finishes(d)
         \/ ComposerSends \/ BackgroundEffect \/ UiActs \/ UNCHANGED vars
  PROVE  UNCHANGED Outbox!vars
<1>1. UNCHANGED <<queue, served, last>>
  BY ResumedLemma, RecoversLemma, FinishesLemma, ComposerSendsLemma, BackgroundLemma,
     UiActsLemma, StutterLemma
  DEF OutboxInv, Others
<1>2. ASSUME NEW e \in Drainers
      PROVE  /\ Submitting(e)' <=> Submitting(e)
             /\ Submitting(e) => job'[e].prompt = job[e].prompt
  <2>1. ASSUME NEW d \in Drainers, Resumed(d) \/ Recovers(d) \/ Finishes(d)
        PROVE  /\ Submitting(e)' <=> Submitting(e)
               /\ Submitting(e) => job'[e].prompt = job[e].prompt
    <3>1. e # d => job'[e] = job[e]
      BY <2>1, ResumedLemma, RecoversLemma, FinishesLemma DEF OutboxInv, Others
    <3>2. CASE Resumed(d) /\ e = d
      BY <3>2, ResumedLemma DEF OutboxInv, SameJob, Submitting
    <3>3. CASE Finishes(d) /\ e = d
      BY <3>3, FinishesLemma, EndedLemma DEF OutboxInv, Submitting
    <3>4. CASE Recovers(d) /\ e = d
      BY <3>4, RecoversLemma DEF OutboxInv, SameJob, Submitting
    <3> QED
      BY <2>1, <3>1, <3>2, <3>3, <3>4 DEF Submitting
  <2>2. CASE ComposerSends
    <3>1. e # Composer => job'[e] = job[e]
      BY <2>2, ComposerSendsLemma DEF OutboxInv, Others
    <3> QED
      BY <2>2, <3>1, ComposerSendsLemma DEF OutboxInv, ComposerAsks, Submitting
  <2>3. CASE BackgroundEffect
    <3>1. job'[e] = job[e] \/ (job[e].step = "idle" /\ job'[e].step = "asked")
      BY <2>3, BackgroundLemma DEF OutboxInv, Drainers
    <3> QED
      BY <3>1 DEF Submitting
  <2>4. CASE UiActs \/ UNCHANGED vars
    BY <2>4, UiActsLemma, StutterLemma DEF OutboxInv, Submitting
  <2> QED
    BY <2>1, <2>2, <2>3, <2>4
<1>3. UnderWay' = UnderWay
  BY <1>2, UnderWaySame
<1> QED
  BY <1>1, <1>3 DEF Outbox!vars, Queued, Elements

LEMMA UserOutbox ==
  ASSUME OutboxInv, QueueActs
  PROVE  Outbox!Next \/ UNCHANGED Outbox!vars
<1>1. /\ UNCHANGED <<job, served>> /\ route \in Sessions
      /\ \A s \in Sessions \ {route} : queue'[s] = queue[s]
      /\ queue[route] \in Seq(Prompts) /\ last \in Nat
  BY QueueActsLemma, QueueAssumption DEF OutboxInv, TInv, CoreOK
<1>2. UnderWay' = UnderWay
  BY <1>1 DEF UnderWay, Submitting
<1>3. /\ Queued = Elements(queue[route]) \cup UNION {Elements(queue[s]) : s \in Sessions \ {route}}
      /\ Queued' = Elements(queue'[route]) \cup UNION {Elements(queue[s]) : s \in Sessions \ {route}}
  <2>1. Queued' = UNION {Elements(queue'[s]) : s \in Sessions}
    BY DEF Queued, Elements
  <2> QED
    BY <1>1, <2>1 DEF Queued
<1>4. CASE /\ queue'[route] = Append(queue[route], last') /\ last' \in Prompts
           /\ last' = last + 1
  <2>1. Elements(queue'[route]) = Elements(queue[route]) \cup {last'}
    BY <1>1, <1>4, AppendLemma
  <2>2. 1..last' = 1..last \cup {last'} /\ last' \notin 1..last
    BY <1>1, <1>4
  <2>3. Outbox!Leave(last')
    BY <1>1, <1>2, <1>3, <2>1, <2>2 DEF Outbox!Leave
  <2> QED
    BY <1>4, <2>3 DEF Outbox!Next
<1>5. ASSUME NEW p \in Prompts, queue'[route] = Without(queue[route], p), last' = last
      PROVE  Outbox!Next
  <2>1. /\ Injective(queue[route])
        /\ \A s \in Sessions : \A q \in Elements(queue[s]) : Home[q] = s
    BY <1>1 DEF OutboxInv, OnceInv, QueueInv
  <2>2. /\ p \notin Elements(queue'[route])
        /\ Elements(queue'[route]) \subseteq Elements(queue[route])
        /\ Elements(queue[route]) \ Elements(queue'[route]) \subseteq {p}
    BY <1>1, <1>5, <2>1, WithoutLemma
  <2>3. CASE p \in Elements(queue[route])
    <3>1. Home[p] = route
      BY <1>1, <2>1, <2>3
    <3>2. p \notin UNION {Elements(queue[s]) : s \in Sessions \ {route}}
      BY <2>1, <3>1
    <3>3. Queued' = Queued \ {p}
      BY <1>3, <2>2, <3>2
    <3>4. Outbox!Withdraw(p)
      BY <1>1, <1>2, <1>5, <3>3 DEF Outbox!Withdraw
    <3> QED
      BY <3>4 DEF Outbox!Next
  <2>4. CASE p \notin Elements(queue[route])
    <3>1. Queued' = Queued
      BY <1>3, <2>2, <2>4
    <3>2. Outbox!GiveUp({})
      BY <1>1, <1>2, <1>5, <3>1 DEF Outbox!GiveUp
    <3> QED
      BY <3>2 DEF Outbox!Next
  <2> QED
    BY <2>3, <2>4
<1>6. ASSUME Elements(queue'[route]) = Elements(queue[route]), last' = last
      PROVE  UNCHANGED Outbox!vars
  BY <1>1, <1>2, <1>3, <1>6 DEF Outbox!vars
<1>7. \A p \in Prompts : Elements(Promoted(queue[route], p)) = Elements(queue[route])
  BY <1>1, PromotedLemma
<1> QED
  BY <1>4, <1>5, <1>6, <1>7, QueueActsLemma DEF OutboxInv

(* The application is loaded again: every attempt ends, and none of their  *)
(* prompts has arrived.                                                    *)
LEMMA RestartOutbox ==
  ASSUME OutboxInv, ~AcksLost, Restart
  PROVE  Outbox!Next
<1>1. /\ UNCHANGED <<queue, last, served>>
      /\ \A d \in Drainers : job'[d] = Idle /\ ~Sent(d)
  BY RestartLemma DEF OutboxInv
<1>2. UnderWay' = {}
  BY <1>1, EndedLemma DEF UnderWay, Submitting
<1>3. \A p \in UnderWay : p \notin Outbox!Ran
  BY <1>1, UnderWayLemma DEF UnderWay
<1>4. Outbox!GiveUp(UnderWay)
  BY <1>1, <1>2, <1>3 DEF Outbox!GiveUp, Queued, Elements
<1> QED
  BY <1>4 DEF Outbox!Next

(* With the middleware answering at once and no answer lost, the queue     *)
(* keeps the promise of PromptOutbox, for any sessions and prompts: one    *)
(* attempt at a time, at home, given up without loss, run at most once,    *)
(* and queued until the session has answered.                              *)
THEOREM KeepsOutbox == ~SlowMiddleware /\ ~AcksLost /\ Spec => OutboxSpec
<1>1. Init => Outbox!Init
  <2> SUFFICES ASSUME Init PROVE Outbox!Init
    OBVIOUS
  <2>1. Queued = {}
    BY DEF Init, Queued, Elements
  <2>2. UnderWay = {}
    BY EndedLemma DEF Init, UnderWay, Submitting
  <2>3. 1..last = {}
    BY DEF Init
  <2> QED
    BY <2>1, <2>2, <2>3 DEF Init, Outbox!Init
<1>2. Init => OutboxInv
  BY TInvInit, LockInit, OnceInit, EndedLemma DEF OutboxInv, Init, SentInv, Sent, Idle
<1>3. OutboxInv /\ ~SlowMiddleware /\ ~AcksLost /\ [Next]_vars => OutboxInv'
  BY TInvNext, LockNext, SentNext, OnceNext DEF OutboxInv
<1>4. OutboxInv /\ ~AcksLost /\ [Next]_vars => [Outbox!Next]_(Outbox!vars)
  BY StepLemma, StartOutbox, DeliverOutbox, AnswerOutbox, FailOutbox, PlanOutbox,
     UserOutbox, RestartOutbox
<1>5. ASSUME ~SlowMiddleware, ~AcksLost PROVE Spec => OutboxSpec
  BY <1>1, <1>2, <1>3, <1>4, <1>5, PTL DEF Spec, OutboxSpec, Outbox!Spec
<1> QED
  BY <1>5
=============================================================================
