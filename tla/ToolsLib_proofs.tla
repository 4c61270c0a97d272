-------------------------- MODULE ToolsLib_proofs --------------------------
(***************************************************************************)
(* Proofs about tools/lib.                                                 *)
(*                                                                         *)
(* The generator that maps a function over a stream by worker threads, for *)
(* every number of inputs and workers, every size of the pipes, and        *)
(* however often a message is sent again or a call raises.  What the       *)
(* caller has got or will (Given) grows at its end alone.  In the reliable *)
(* mode it is 1, 2, ... by the counter next_out, and nothing is missing at *)
(* the end because an input that has been sent is awaited, kept or given   *)
(* (ReliableOK).  The other mode has no such book-keeping: there each      *)
(* input is in exactly one place on its way (OnePlace), and the sentinels, *)
(* which are put behind the inputs, find none left on it.  In both, the    *)
(* workers that the master counts as ended have ended.                     *)
(*                                                                         *)
(* The readers of frames, for every route, cache size and read-ahead.      *)
(* Every index that is computed, cached or loaded is right for its segment *)
(* (Tabled, EntryRight), whichever programs made those of its neighbours   *)
(* (PstreamSame): its entries are the pictures of the file, and the frames *)
(* put before a segment that begins within a group of pictures end where   *)
(* it begins.  So a group of pictures decodes to its frames (GroupRight,   *)
(* DecodeGopRight), behind whatever was decoded before (DecodeAppend); and *)
(* a program reads in one of three ways, each with an invariant of its own *)
(* (GetInv, MkvInv, IterInv).                                              *)
(***************************************************************************)
EXTENDS AsyncGenerator, FrameReader, FiniteSetTheorems, FunctionTheorems, WellFoundedInduction,
        SequenceTheorems, TLAPS

Inputs == 1 .. N

\* What the caller has, and what is on its way from the master to the caller.
Given == out \o Without(outQ, EndSentinel)

\* The workers whose thread has ended or is about to; those that have a message.
Ending == {w \in Workers : wpc[w] \in {"put", "write", "ended"} /\ hold[w] = EndSentinel}
Over == {w \in Workers : wpc[w] = "ended"}
Busy == {w \in Workers : wpc[w] \in {"call", "put", "write"} /\ hold[w] # EndSentinel}

Types ==
    /\ reliable \in BOOLEAN /\ rooted \in BOOLEAN /\ done \in BOOLEAN
    /\ inQ \in Seq(0 .. N) /\ workQ \in Seq(0 .. N) /\ outQ \in Seq(0 .. N)
    /\ wpc \in [Workers -> {"get", "call", "put", "write", "ended"}]
    /\ hold \in [Workers -> 0 .. N]
    /\ mpc \in {"loop", "rest", "clean", "last", "ended", "failed"}
    /\ evts \subseteq {"out", "work", "in"}
    /\ next \in 1 .. N + 1 /\ sent \in Seq(Inputs) /\ received \in Seq(Inputs)
    /\ nextOut \in Nat /\ sentinels \in Nat /\ toSend \in 0 .. Cardinality(Workers)
    /\ out \in Seq(Inputs) /\ crashes \in Nat

\* What the last poll reported is still so.
EventsOK ==
    /\ mpc # "loop" => evts = {}
    /\ "out" \in evts => IF reliable THEN nextOut \in ToSet(received) ELSE received # <<>>
    /\ "in" \in evts => /\ CanSendNew \/ (reliable /\ sent # <<>>)
                        /\ reliable => "work" \notin evts

\* A thread ends with one sentinel; before the clean-up only an exception ends one.
WorkersOK ==
    /\ \A w \in Workers : /\ wpc[w] = "call" => hold[w] # EndSentinel
                          /\ wpc[w] = "ended" => hold[w] = EndSentinel
    /\ sentinels + SentinelsIn(workQ) = Cardinality(Over)
    /\ crashes <= Cardinality(Ending)
    /\ mpc \in {"loop", "rest"} =>
          EndSentinel \notin ToSet(inQ) /\ crashes = Cardinality(Ending)

\* The caller's sentinel is put once, and is the last thing it gets.
CallerOK ==
    /\ EndSentinel \in ToSet(outQ) <=> mpc = "ended" /\ ~done
    /\ done => mpc = "ended" /\ outQ = <<>>

AllCrashed == crashes = Cardinality(Workers)

ReliableOK ==
    reliable =>
    /\ nextOut \in 1 .. N + 1 /\ Given = [k \in 1 .. nextOut - 1 |-> k]
    /\ mpc \in {"loop", "rest"} =>
          1 .. next - 1 \subseteq ToSet(sent) \cup ToSet(received) \cup (1 .. nextOut - 1)
    /\ mpc = "rest" => (~InputsRemain /\ sent = <<>>) \/ AllCrashed
    /\ mpc \in {"clean", "last", "ended"} => nextOut = N + 1 \/ AllCrashed
    /\ mpc \in {"last", "ended"} => received = <<>>

\* No input is twice in a queue.
Once(q) == \A k, l \in DOMAIN q : q[k] = q[l] /\ q[k] # EndSentinel => k = l

\* An input is nowhere before it is sent, and then in one place.
OnePlace(i) ==
    LET queued == i \in ToSet(inQ)
        held == \E w \in Busy : hold[w] = i
        worked == i \in ToSet(workQ)
        kept == i \in ToSet(received)
        given == i \in ToSet(Given)
    IN  /\ i < next <=> queued \/ held \/ worked \/ kept \/ given
        /\ queued => ~(held \/ worked \/ kept \/ given)
        /\ held => ~(worked \/ kept \/ given)
        /\ worked => ~(kept \/ given)
        /\ ~(kept /\ given)

PlacesOK ==
    ~reliable =>
    /\ \A i \in Inputs : OnePlace(i)
    /\ Once(inQ) /\ Once(workQ) /\ Once(received) /\ Once(Given)
    /\ \A v, w \in Busy : hold[v] = hold[w] => v = w

UnreliableOK ==
    ~reliable =>
    /\ crashes = 0
    /\ mpc # "loop" => ~InputsRemain
    /\ mpc = "rest" => received = <<>>
    /\ \A k, l \in DOMAIN inQ : k < l /\ inQ[k] = EndSentinel => inQ[l] = EndSentinel
    /\ Ending # {} => ToSet(inQ) \subseteq {EndSentinel}
    /\ mpc \in {"last", "ended"} =>
          ToSet(inQ) \subseteq {EndSentinel} /\ workQ = <<>> /\ Over = Workers
    /\ mpc = "ended" => received = <<>>

AsyncIInv == /\ Types /\ EventsOK /\ WorkersOK /\ CallerOK
             /\ ReliableOK /\ PlacesOK /\ UnreliableOK

----------------------------------------------------------------------------
(* Sequences: the part of one that a set has, and what is in it. *)

\* What a queue holds, and its sentinels, when something is put at its end.
LEMMA AppendLaws ==
    ASSUME NEW A, NEW q \in Seq(A), NEW x \in A
    PROVE  /\ Append(q, x) \in Seq(A) /\ Append(q, x) # <<>>
           /\ ToSet(Append(q, x)) = ToSet(q) \cup {x}
           /\ Once(q) /\ (x = EndSentinel \/ x \notin ToSet(q)) => Once(Append(q, x))
<1>1. PICK t : t = Append(q, x)
  OBVIOUS
<1>2. /\ t \in Seq(A) /\ Len(q) \in Nat /\ Len(t) = Len(q) + 1 /\ t[Len(q) + 1] = x
      /\ DOMAIN t = 1 .. Len(q) + 1 /\ DOMAIN q = 1 .. Len(q)
      /\ \A k \in 1 .. Len(q) : t[k] = q[k]
  BY <1>1
<1>3. ToSet(t) = ToSet(q) \cup {x}
  BY <1>2 DEF ToSet
<1>4. ASSUME Once(q), x = EndSentinel \/ x \notin ToSet(q)
      PROVE  Once(t)
  <2>1. ASSUME NEW k \in 1 .. Len(q), x # EndSentinel PROVE q[k] # x
    BY <1>2, <1>4, <2>1 DEF ToSet
  <2>2. ASSUME NEW k \in 1 .. Len(q) + 1, NEW l \in 1 .. Len(q) + 1, t[k] = t[l], t[k] # EndSentinel
        PROVE  k = l
    <3>1. CASE k \in 1 .. Len(q) /\ l \in 1 .. Len(q)
      BY <1>2, <1>4, <2>2, <3>1 DEF Once
    <3>2. CASE k \in 1 .. Len(q) /\ l = Len(q) + 1
      BY <1>2, <2>1, <2>2, <3>2
    <3>3. CASE k = Len(q) + 1 /\ l \in 1 .. Len(q)
      BY <1>2, <2>1, <2>2, <3>3
    <3>4. k \in 1 .. Len(q) \/ k = Len(q) + 1
      BY <1>2
    <3>5. l \in 1 .. Len(q) \/ l = Len(q) + 1
      BY <1>2
    <3> QED
      BY <3>1, <3>2, <3>3, <3>4, <3>5
  <2> QED
    BY <1>2, <2>2 DEF Once
<1>5. t # <<>>
  BY <1>2
<1> QED
  BY <1>1, <1>2, <1>3, <1>4, <1>5

LEMMA QueueAppend ==
    ASSUME NEW q \in Seq(0 .. N), NEW x \in 0 .. N
    PROVE  /\ Append(q, x) \in Seq(0 .. N) /\ Append(q, x) # <<>>
           /\ ToSet(Append(q, x)) = ToSet(q) \cup {x}
           /\ Once(q) /\ (x = EndSentinel \/ x \notin ToSet(q)) => Once(Append(q, x))
<1>1. PICK A : A = 0 .. N
  OBVIOUS
<1>2. q \in Seq(A) /\ x \in A
  BY <1>1
<1>3. /\ Append(q, x) \in Seq(A) /\ Append(q, x) # <<>>
      /\ ToSet(Append(q, x)) = ToSet(q) \cup {x}
      /\ Once(q) /\ (x = EndSentinel \/ x \notin ToSet(q)) => Once(Append(q, x))
  BY <1>2, AppendLaws
<1> QED
  BY <1>1, <1>3

\* The same when its first element is taken.
LEMMA TailLaws ==
    ASSUME NEW A, NEW q \in Seq(A), q # <<>>
    PROVE  /\ Head(q) \in A /\ Tail(q) \in Seq(A)
           /\ ToSet(q) = {Head(q)} \cup ToSet(Tail(q))
           /\ Once(q) => /\ Once(Tail(q))
                         /\ Head(q) = EndSentinel \/ Head(q) \notin ToSet(Tail(q))
<1>1. PICK t, x : t = Tail(q) /\ x = Head(q)
  OBVIOUS
<1>2. /\ t \in Seq(A) /\ x \in A /\ Len(t) \in Nat /\ Len(q) = Len(t) + 1 /\ x = q[1]
      /\ DOMAIN t = 1 .. Len(t) /\ DOMAIN q = 1 .. Len(t) + 1
      /\ \A k \in 1 .. Len(t) : t[k] = q[k + 1]
  BY <1>1
<1>3. ToSet(q) = {x} \cup ToSet(t)
  <2>1. ASSUME NEW y \in ToSet(q) PROVE y \in {x} \cup ToSet(t)
    <3>1. PICK k \in 1 .. Len(t) + 1 : y = q[k]
      BY <1>2 DEF ToSet
    <3>2. CASE k = 1
      BY <1>2, <3>1, <3>2
    <3>3. CASE k # 1
      <4>1. k - 1 \in 1 .. Len(t) /\ t[k - 1] = q[k]
        BY <1>2, <3>1, <3>3
      <4> QED
        BY <1>2, <3>1, <4>1 DEF ToSet
    <3> QED
      BY <3>2, <3>3
  <2>2. ASSUME NEW y \in ToSet(t) PROVE y \in ToSet(q)
    <3>1. PICK k \in 1 .. Len(t) : y = t[k]
      BY <1>2 DEF ToSet
    <3>2. k + 1 \in 1 .. Len(t) + 1 /\ q[k + 1] = y
      BY <1>2, <3>1
    <3> QED
      BY <1>2, <3>2 DEF ToSet
  <2>3. x \in ToSet(q)
    <3>1. 1 \in DOMAIN q
      BY <1>2
    <3> QED
      BY <1>2, <3>1 DEF ToSet
  <2> QED
    BY <2>1, <2>2, <2>3
<1>4. ASSUME Once(q) PROVE Once(t) /\ (x = EndSentinel \/ x \notin ToSet(t))
  <2>1. ASSUME NEW k \in 1 .. Len(t), NEW l \in 1 .. Len(t), t[k] = t[l], t[k] # EndSentinel
        PROVE  k = l
    <3>1. k + 1 \in DOMAIN q /\ l + 1 \in DOMAIN q /\ t[k] = q[k + 1] /\ t[l] = q[l + 1]
      BY <1>2
    <3>2. k + 1 = l + 1
      BY <1>4, <2>1, <3>1 DEF Once
    <3> QED
      BY <3>2
  <2>2. ASSUME x # EndSentinel, x \in ToSet(t) PROVE FALSE
    <3>1. PICK k \in 1 .. Len(t) : x = t[k]
      BY <1>2, <2>2 DEF ToSet
    <3>2. k + 1 \in DOMAIN q /\ 1 \in DOMAIN q /\ q[k + 1] = q[1] /\ q[1] # EndSentinel
      BY <1>2, <2>2, <3>1
    <3>3. k + 1 = 1
      BY <1>4, <3>2 DEF Once
    <3> QED
      BY <3>3
  <2> QED
    BY <1>2, <2>1, <2>2 DEF Once
<1> QED
  BY <1>1, <1>2, <1>3, <1>4

\* The same when one is put behind another.
LEMMA ConcatLaws ==
    ASSUME NEW A, NEW q \in Seq(A), NEW r \in Seq(A)
    PROVE  /\ q \o r \in Seq(A)
           /\ ToSet(q \o r) = ToSet(q) \cup ToSet(r)
           /\ Once(q) /\ Once(r) /\ (\A x \in ToSet(q) \cap ToSet(r) : x = EndSentinel)
                 => Once(q \o r)
<1>1. PICK t : t = q \o r
  OBVIOUS
<1>2. /\ t \in Seq(A) /\ Len(q) \in Nat /\ Len(r) \in Nat /\ Len(t) = Len(q) + Len(r)
      /\ DOMAIN q = 1 .. Len(q) /\ DOMAIN r = 1 .. Len(r) /\ DOMAIN t = 1 .. Len(q) + Len(r)
      /\ \A k \in 1 .. Len(q) : t[k] = q[k]
      /\ \A k \in Len(q) + 1 .. Len(q) + Len(r) : t[k] = r[k - Len(q)]
  BY <1>1
<1>3. ASSUME NEW k \in 1 .. Len(q) + Len(r)
      PROVE  \/ k \in 1 .. Len(q) /\ t[k] = q[k]
             \/ k - Len(q) \in 1 .. Len(r) /\ t[k] = r[k - Len(q)]
  <2>1. k \in 1 .. Len(q) \/ (k \in Len(q) + 1 .. Len(q) + Len(r) /\ k - Len(q) \in 1 .. Len(r))
    BY <1>2
  <2> QED
    BY <1>2, <2>1
<1>4. ToSet(t) = ToSet(q) \cup ToSet(r)
  <2>1. ASSUME NEW x \in ToSet(t) PROVE x \in ToSet(q) \cup ToSet(r)
    <3>1. PICK k \in 1 .. Len(q) + Len(r) : x = t[k]
      BY <1>2 DEF ToSet
    <3> QED
      BY <1>2, <1>3, <3>1 DEF ToSet
  <2>2. ASSUME NEW x \in ToSet(q) PROVE x \in ToSet(t)
    <3>1. PICK k \in 1 .. Len(q) : x = q[k]
      BY <1>2 DEF ToSet
    <3>2. k \in DOMAIN t /\ t[k] = x
      BY <1>2, <3>1
    <3> QED
      BY <3>2 DEF ToSet
  <2>3. ASSUME NEW x \in ToSet(r) PROVE x \in ToSet(t)
    <3>1. PICK k \in 1 .. Len(r) : x = r[k]
      BY <1>2 DEF ToSet
    <3>2. Len(q) + k \in DOMAIN t /\ Len(q) + k \in Len(q) + 1 .. Len(q) + Len(r) /\ (Len(q) + k) - Len(q) = k
      BY <1>2
    <3>3. t[Len(q) + k] = x
      BY <1>2, <3>1, <3>2
    <3> QED
      BY <3>2, <3>3 DEF ToSet
  <2> QED
    BY <2>1, <2>2, <2>3
<1>5. ASSUME Once(q), Once(r), \A x \in ToSet(q) \cap ToSet(r) : x = EndSentinel
      PROVE  Once(t)
  <2>1. ASSUME NEW k \in DOMAIN t, NEW l \in DOMAIN t, t[k] = t[l], t[k] # EndSentinel
        PROVE  k = l
    <3>1. ASSUME NEW i \in DOMAIN q, NEW j \in DOMAIN r, q[i] = r[j], q[i] # EndSentinel
          PROVE  FALSE
      BY <1>5, <3>1 DEF ToSet
    <3>2. CASE k \in 1 .. Len(q) /\ t[k] = q[k] /\ l \in 1 .. Len(q) /\ t[l] = q[l]
      BY <1>2, <1>5, <2>1, <3>2 DEF Once
    <3>3. CASE k \in 1 .. Len(q) /\ t[k] = q[k] /\ l - Len(q) \in 1 .. Len(r) /\ t[l] = r[l - Len(q)]
      BY <1>2, <2>1, <3>1, <3>3
    <3>4. CASE k - Len(q) \in 1 .. Len(r) /\ t[k] = r[k - Len(q)] /\ l \in 1 .. Len(q) /\ t[l] = q[l]
      BY <1>2, <2>1, <3>1, <3>4
    <3>5. CASE k - Len(q) \in 1 .. Len(r) /\ t[k] = r[k - Len(q)] /\ l - Len(q) \in 1 .. Len(r) /\ t[l] = r[l - Len(q)]
      <4>1. k - Len(q) = l - Len(q)
        BY <1>2, <1>5, <2>1, <3>5 DEF Once
      <4> QED
        BY <1>2, <4>1
    <3> QED
      BY <1>2, <1>3, <3>2, <3>3, <3>4, <3>5
  <2> QED
    BY <2>1 DEF Once
<1> QED
  BY <1>1, <1>2, <1>4, <1>5

\* A set of natural numbers has a least element.
LEMMA LeastExists ==
    ASSUME NEW S \in SUBSET Nat, S # {}
    PROVE  \E m \in S : \A n \in S : m <= n
<1>1. PICK m \in S : \A n \in S : <<n, m>> \notin OpToRel(<, Nat)
  BY NatLessThanWellFounded, WFMin
<1>2. ASSUME NEW n \in S PROVE m <= n
  <2>1. ~(n < m)
    BY <1>1, <1>2 DEF OpToRel
  <2> QED
    BY <2>1
<1> QED
  BY <1>2

\* f is the function kept of OnlyOf, for the first n elements.
IsKept(f, s, S, n) ==
    /\ f[0] = <<>>
    /\ \A k \in 1 .. n : f[k] = IF s[k] \in S THEN Append(f[k - 1], s[k]) ELSE f[k - 1]

LEMMA KeptExists ==
    ASSUME NEW s, NEW S, NEW n \in Nat
    PROVE  \E f : IsKept(f, s, S, n)
<1> DEFINE Bad == {k \in 0 .. n : ~ \E f : IsKept(f, s, S, k)}
<1>1. SUFFICES Bad = {}
  OBVIOUS
<1>2. SUFFICES ASSUME Bad # {} PROVE FALSE
  OBVIOUS
<1>3. PICK k \in Bad : \A j \in Bad : k <= j
  <2>1. Bad \in SUBSET Nat
    OBVIOUS
  <2> HIDE DEF Bad
  <2> QED
    BY <1>2, <2>1, LeastExists
<1>4. k # 0
  <2>1. IsKept([j \in {0} |-> <<>>], s, S, 0)
    BY DEF IsKept
  <2> QED
    BY <2>1
<1>5. k \in 1 .. n /\ k - 1 \in 0 .. n /\ k - 1 \notin Bad
  BY <1>3, <1>4
<1>6. PICK f : IsKept(f, s, S, k - 1)
  BY <1>5
<1> DEFINE g == [j \in 0 .. k |-> IF j = k THEN IF s[k] \in S THEN Append(f[k - 1], s[k]) ELSE f[k - 1]
                                           ELSE f[j]]
<1>7. IsKept(g, s, S, k)
  <2>1. g[0] = <<>>
    BY <1>4, <1>5, <1>6 DEF IsKept
  <2>2. ASSUME NEW j \in 1 .. k
        PROVE  g[j] = IF s[j] \in S THEN Append(g[j - 1], s[j]) ELSE g[j - 1]
    BY <1>5, <1>6 DEF IsKept
  <2> QED
    BY <2>1, <2>2 DEF IsKept
<1> QED
  BY <1>3, <1>7

\* The recursive definition of OnlyOf has a solution, which it takes.
LEMMA OnlyDef ==
    ASSUME NEW A, NEW s \in Seq(A), NEW S
    PROVE  \E f : IsKept(f, s, S, Len(s)) /\ OnlyOf(s, S) = f[Len(s)]
<1> DEFINE Solves(f) == f = [k \in 0 .. Len(s) |->
                IF k = 0 THEN <<>> ELSE IF s[k] \in S THEN Append(f[k - 1], s[k]) ELSE f[k - 1]]
           kept == CHOOSE f : Solves(f)
<1>0. Len(s) \in Nat
  OBVIOUS
<1>1. PICK h : IsKept(h, s, S, Len(s))
  BY KeptExists, <1>0
<1> DEFINE g == [k \in 0 .. Len(s) |-> h[k]]
<1>2. Solves(g)
  <2>1. ASSUME NEW k \in 0 .. Len(s), k # 0
        PROVE  g[k] = IF s[k] \in S THEN Append(g[k - 1], s[k]) ELSE g[k - 1]
    <3>1. k \in 1 .. Len(s) /\ k - 1 \in 0 .. Len(s)
      BY <2>1
    <3> QED
      BY <1>1, <3>1 DEF IsKept
  <2>2. g[0] = <<>>
    BY <1>1, <1>0 DEF IsKept
  <2> QED
    BY <2>1, <2>2
<1>3. OnlyOf(s, S) = kept[Len(s)]
  BY DEF OnlyOf
<1>4. Solves(kept)
  <2> HIDE DEF Solves
  <2> QED
    BY <1>2
<1>5. IsKept(kept, s, S, Len(s))
  <2> HIDE DEF kept
  <2>1. kept[0] = <<>>
    BY <1>4, <1>0
  <2>2. ASSUME NEW k \in 1 .. Len(s)
        PROVE  kept[k] = IF s[k] \in S THEN Append(kept[k - 1], s[k]) ELSE kept[k - 1]
    <3>1. k \in 0 .. Len(s) /\ k # 0
      BY <1>0
    <3>2. kept = [j \in 0 .. Len(s) |->
                    IF j = 0 THEN <<>> ELSE IF s[j] \in S THEN Append(kept[j - 1], s[j]) ELSE kept[j - 1]]
      BY <1>4
    <3> HIDE DEF Solves
    <3> QED
      BY <3>1, <3>2
  <2> QED
    BY <2>1, <2>2 DEF IsKept
<1> QED
  BY <1>3, <1>5

\* What OnlyOf keeps: the elements of S, each as often as before, and nothing else.
LEMMA OnlyProps ==
    ASSUME NEW A, NEW s \in Seq(A), NEW S
    PROVE  /\ OnlyOf(s, S) \in Seq(A)
           /\ ToSet(OnlyOf(s, S)) = ToSet(s) \cap S
           /\ Len(OnlyOf(s, S)) <= Len(s)
           /\ Once(s) => Once(OnlyOf(s, S))
<1>0. Len(s) \in Nat /\ DOMAIN s = 1 .. Len(s) /\ \A k \in 1 .. Len(s) : s[k] \in A
  OBVIOUS
<1>1. PICK f : IsKept(f, s, S, Len(s)) /\ OnlyOf(s, S) = f[Len(s)]
  BY OnlyDef
<1> DEFINE Good(n) == /\ f[n] \in Seq(A)
                      /\ \A x : x \in ToSet(f[n]) <=> x \in S /\ \E k \in 1 .. n : x = s[k]
                      /\ Len(f[n]) <= n
                      /\ Once(s) => Once(f[n])
           Bad == {n \in 0 .. Len(s) : ~Good(n)}
<1>2. Good(0)
  <2>1. f[0] = <<>>
    BY <1>1 DEF IsKept
  <2> QED
    BY <2>1 DEF ToSet, Once
<1>3. ASSUME NEW n \in 1 .. Len(s), Good(n - 1)
      PROVE  Good(n)
  <2>1. PICK g : g = f[n - 1]
    OBVIOUS
  <2>2. f[n] = IF s[n] \in S THEN Append(g, s[n]) ELSE g
    BY <1>1, <2>1 DEF IsKept
  <2>3. /\ g \in Seq(A) /\ Len(g) <= n - 1 /\ (Once(s) => Once(g))
        /\ \A x : x \in ToSet(g) <=> x \in S /\ \E k \in 1 .. n - 1 : x = s[k]
    BY <1>3, <2>1
  <2>4. \A x : (\E k \in 1 .. n : x = s[k]) <=> x = s[n] \/ \E k \in 1 .. n - 1 : x = s[k]
    BY <1>0
  <2>5. CASE s[n] \notin S
    <3>1. f[n] = g
      BY <2>2, <2>5
    <3>2. Len(g) \in Nat /\ n \in Nat
      BY <2>3, <1>0
    <3> HIDE DEF IsKept
    <3> QED
      BY <2>3, <2>4, <2>5, <3>1, <3>2
  <2>6. CASE s[n] \in S
    <3>1. PICK h : h = Append(g, s[n])
      OBVIOUS
    <3>2. f[n] = h
      BY <2>2, <2>6, <3>1
    <3>3. /\ h \in Seq(A) /\ Len(h) = Len(g) + 1 /\ Len(g) \in Nat
          /\ h[Len(g) + 1] = s[n] /\ \A k \in 1 .. Len(g) : h[k] = g[k]
      BY <1>0, <2>3, <3>1
    <3>4. ToSet(h) = ToSet(g) \cup {s[n]}
      <4>1. PICK m : m = Len(g) /\ m \in Nat /\ Len(h) = m + 1
        BY <3>3
      <4>2. /\ ToSet(h) = {h[k] : k \in 1 .. m + 1} /\ ToSet(g) = {g[k] : k \in 1 .. m}
            /\ 1 .. m + 1 = (1 .. m) \cup {m + 1}
        <5>1. DOMAIN h = 1 .. m + 1 /\ DOMAIN g = 1 .. m
          BY <2>3, <3>3, <4>1
        <5>2. 1 .. m + 1 = (1 .. m) \cup {m + 1}
          BY <4>1
        <5> QED
          BY <5>1, <5>2 DEF ToSet
      <4>3. h[m + 1] = s[n] /\ \A k \in 1 .. m : h[k] = g[k]
        BY <3>3, <4>1
      <4> QED
        BY <4>2, <4>3
    <3>5. ASSUME Once(s) PROVE Once(h)
      <4>1. ASSUME s[n] # EndSentinel, s[n] \in ToSet(g) PROVE FALSE
        <5>1. PICK j \in 1 .. n - 1 : s[n] = s[j]
          BY <2>3, <4>1
        <5> QED
          BY <1>0, <3>5, <4>1, <5>1 DEF Once
      <4>2. Once(g) /\ s[n] \in A
        BY <1>0, <2>3, <3>5
      <4> QED
        BY <2>3, <3>1, <4>1, <4>2, AppendLaws
    <3>6. Len(h) <= n
      BY <2>3, <3>3
    <3> QED
      BY <2>3, <2>4, <2>6, <3>2, <3>3, <3>4, <3>5, <3>6
  <2> QED
    BY <2>5, <2>6
<1>4. Bad = {}
  <2>1. SUFFICES ASSUME Bad # {} PROVE FALSE
    OBVIOUS
  <2>2. PICK n \in Bad : \A j \in Bad : n <= j
    <3>1. Bad \in SUBSET Nat
      BY <1>0
    <3> HIDE DEF Bad
    <3> QED
      BY <2>1, <3>1, LeastExists
  <2> HIDE DEF Good
  <2>3. n # 0 /\ n \in 0 .. Len(s)
    BY <1>2, <2>2
  <2>4. n \in 1 .. Len(s) /\ n - 1 \in 0 .. Len(s) /\ ~(n <= n - 1)
    BY <1>0, <2>3
  <2>5. Good(n - 1)
    BY <2>2, <2>4
  <2> QED
    BY <1>3, <2>2, <2>4, <2>5
<1>5. Good(Len(s))
  <2> HIDE DEF Good
  <2> QED
    BY <1>0, <1>4
<1>6. ToSet(s) = {s[k] : k \in 1 .. Len(s)}
  BY <1>0 DEF ToSet
<1> QED
  BY <1>1, <1>5, <1>6

\* OnlyOf of a sequence that has one more element.
LEMMA OnlyAppend ==
    ASSUME NEW A, NEW s \in Seq(A), NEW x \in A, NEW S
    PROVE  /\ OnlyOf(<<>>, S) = <<>>
           /\ OnlyOf(Append(s, x), S) = IF x \in S THEN Append(OnlyOf(s, S), x) ELSE OnlyOf(s, S)
<1>1. PICK t : t = Append(s, x)
  OBVIOUS
<1>2. /\ t \in Seq(A) /\ Len(s) \in Nat /\ Len(t) = Len(s) + 1 /\ t[Len(s) + 1] = x
      /\ \A k \in 1 .. Len(s) : t[k] = s[k]
  BY <1>1
<1>3. PICK f : IsKept(f, s, S, Len(s)) /\ OnlyOf(s, S) = f[Len(s)]
  BY OnlyDef
<1>4. PICK g : IsKept(g, t, S, Len(t)) /\ OnlyOf(t, S) = g[Len(t)]
  BY <1>2, OnlyDef
<1> DEFINE Bad == {n \in 0 .. Len(s) : f[n] # g[n]}
<1>5. Bad = {}
  <2>1. SUFFICES ASSUME Bad # {} PROVE FALSE
    OBVIOUS
  <2>2. PICK n \in Bad : \A j \in Bad : n <= j
    <3>1. Bad \in SUBSET Nat
      BY <1>2
    <3> HIDE DEF Bad
    <3> QED
      BY <2>1, <3>1, LeastExists
  <2>3. n # 0
    BY <1>3, <1>4, <2>2 DEF IsKept
  <2>4. n \in 1 .. Len(s) /\ n \in 1 .. Len(t) /\ n - 1 \in 0 .. Len(s) /\ ~(n <= n - 1)
    BY <1>2, <2>2, <2>3
  <2>5. f[n - 1] = g[n - 1]
    BY <2>2, <2>4
  <2>6. f[n] = IF s[n] \in S THEN Append(f[n - 1], s[n]) ELSE f[n - 1]
    BY <1>3, <2>4 DEF IsKept
  <2>7. g[n] = IF t[n] \in S THEN Append(g[n - 1], t[n]) ELSE g[n - 1]
    BY <1>4, <2>4 DEF IsKept
  <2> QED
    BY <1>2, <2>2, <2>4, <2>5, <2>6, <2>7
<1>6. g[Len(s)] = OnlyOf(s, S)
  BY <1>2, <1>3, <1>5
<1>7. g[Len(t)] = IF x \in S THEN Append(OnlyOf(s, S), x) ELSE OnlyOf(s, S)
  <2>1. Len(t) \in 1 .. Len(t) /\ Len(t) - 1 = Len(s) /\ t[Len(t)] = x
    BY <1>2
  <2> QED
    BY <1>4, <1>6, <2>1 DEF IsKept
<1>8. OnlyOf(<<>>, S) = <<>>
  <2>1. <<>> \in Seq(A) /\ Len(<<>>) = 0
    OBVIOUS
  <2>2. PICK h : IsKept(h, <<>>, S, Len(<<>>)) /\ OnlyOf(<<>>, S) = h[Len(<<>>)]
    BY <2>1, OnlyDef
  <2> QED
    BY <2>1, <2>2 DEF IsKept
<1> QED
  BY <1>1, <1>4, <1>7, <1>8

\* A sequence has finitely many elements, and SetToSeq is one of a finite set's.
LEMMA ToSetFinite ==
    ASSUME NEW A, NEW q \in Seq(A)
    PROVE  IsFiniteSet(ToSet(q)) /\ ToSet(q) \in SUBSET A
<1>1. Len(q) \in Nat /\ DOMAIN q = 1 .. Len(q) /\ \A k \in 1 .. Len(q) : q[k] \in A
  OBVIOUS
<1>2. ToSet(q) \in SUBSET A
  BY <1>1 DEF ToSet
<1>3. q \in Surjection(1 .. Len(q), ToSet(q))
  BY <1>1 DEF Surjection, ToSet
<1>4. IsFiniteSet(1 .. Len(q))
  BY <1>1, FS_Interval
<1> QED
  BY <1>2, <1>3, <1>4, FS_Surjection

LEMMA SetToSeqLaws ==
    ASSUME NEW A, NEW T \in SUBSET A, IsFiniteSet(T)
    PROVE  SetToSeq(T) \in Seq(A) /\ ToSet(SetToSeq(T)) = T
<1>1. PICK n : n = Cardinality(T)
  OBVIOUS
<1>2. n \in Nat /\ ExistsBijection(1 .. n, T)
  BY <1>1, FS_CardinalityType
<1>3. PICK g : g \in Bijection(1 .. n, T)
  BY <1>2 DEF ExistsBijection
<1>4. g \in [1 .. n -> T] /\ IsInjective(g)
  BY <1>3 DEF Bijection, Injection
<1>5. PICK f : f = SetToSeq(T)
  OBVIOUS
<1>6. f \in [1 .. n -> T] /\ IsInjective(f)
  BY <1>1, <1>4, <1>5 DEF SetToSeq
<1>7. f \in Injection(1 .. n, T)
  BY <1>6 DEF Injection
<1>8. IsFiniteSet(1 .. n) /\ Cardinality(1 .. n) = n
  BY <1>2, FS_Interval
<1>9. f \in Surjection(1 .. n, T)
  BY <1>1, <1>7, <1>8, FS_Injection
<1>10. ToSet(f) = T
  BY <1>6, <1>9 DEF Surjection, ToSet
<1>11. f \in Seq(A)
  BY <1>2, <1>6
<1> QED
  BY <1>5, <1>10, <1>11

LEMMA SentinelsLaws ==
    ASSUME NEW q \in Seq(0 .. N)
    PROVE  /\ SentinelsIn(<<>>) = 0 /\ SentinelsIn(q) \in Nat
           /\ \A x \in 0 .. N : SentinelsIn(Append(q, x)) =
                                   SentinelsIn(q) + IF x = EndSentinel THEN 1 ELSE 0
           /\ q # <<>> => SentinelsIn(q) =
                             SentinelsIn(Tail(q)) + IF Head(q) = EndSentinel THEN 1 ELSE 0
<1> DEFINE At(r) == {k \in DOMAIN r : r[k] = EndSentinel}
<1>1. ASSUME NEW r \in Seq(0 .. N)
      PROVE  IsFiniteSet(At(r)) /\ Cardinality(At(r)) \in Nat
  <2>1. Len(r) \in Nat /\ 1 \in Int
    OBVIOUS
  <2>2. At(r) \in SUBSET (1 .. Len(r))
    OBVIOUS
  <2> QED
    <3>1. IsFiniteSet(1 .. Len(r))
      BY <2>1, FS_Interval
    <3>2. IsFiniteSet(At(r))
      BY <2>2, <3>1, FS_Subset
    <3> QED
      BY <3>2, FS_CardinalityType
<1>2. ASSUME NEW x \in 0 .. N
      PROVE  Cardinality(At(Append(q, x))) = Cardinality(At(q)) + IF x = EndSentinel THEN 1 ELSE 0
  <2>1. PICK t : t = Append(q, x)
    OBVIOUS
  <2>2. /\ Len(q) \in Nat /\ t[Len(q) + 1] = x
        /\ DOMAIN t = 1 .. Len(q) + 1 /\ DOMAIN q = 1 .. Len(q)
        /\ \A k \in 1 .. Len(q) : t[k] = q[k]
    BY <2>1
  <2>3. At(t) = IF x = EndSentinel THEN At(q) \cup {Len(q) + 1} ELSE At(q)
    BY <2>2
  <2>4. Len(q) + 1 \notin At(q)
    BY <2>2
  <2> HIDE DEF At
  <2>5. CASE x = EndSentinel
    BY <1>1, <2>1, <2>3, <2>4, <2>5, FS_AddElement
  <2>6. CASE x # EndSentinel
    BY <1>1, <2>1, <2>3, <2>6
  <2> QED
    BY <2>5, <2>6
<1>3. ASSUME q # <<>>
      PROVE  Cardinality(At(q)) = Cardinality(At(Tail(q))) + IF Head(q) = EndSentinel THEN 1 ELSE 0
  <2>1. PICK t : t = Tail(q)
    OBVIOUS
  <2>2. /\ t \in Seq(0 .. N) /\ Len(t) \in Nat /\ Head(q) = q[1]
        /\ DOMAIN t = 1 .. Len(t) /\ DOMAIN q = 1 .. Len(t) + 1
        /\ \A k \in 1 .. Len(t) : t[k] = q[k + 1]
    BY <1>3, <2>1
  <2> DEFINE f == [k \in At(t) |-> k + 1]
  <2>3. f \in Bijection(At(t), At(q) \ {1})
    <3>1. f \in [At(t) -> At(q) \ {1}]
      BY <2>2
    <3>2. \A k, l \in At(t) : f[k] = f[l] => k = l
      BY <2>2
    <3>3. ASSUME NEW l \in At(q) \ {1} PROVE \E k \in At(t) : f[k] = l
      <4>1. l - 1 \in 1 .. Len(t) /\ t[l - 1] = q[l] /\ (l - 1) + 1 = l
        BY <2>2, <3>3
      <4> QED
        BY <2>2, <3>3, <4>1
    <3> HIDE DEF f, At
    <3> QED
      BY <3>1, <3>2, <3>3, Fun_IsBij
  <2>4. IsFiniteSet(At(t)) /\ IsFiniteSet(At(q))
    BY <1>1, <2>2
  <2>5. 1 \in At(q) <=> Head(q) = EndSentinel
    BY <2>2
  <2> HIDE DEF At, f
  <2>6. Cardinality(At(q) \ {1}) = Cardinality(At(t))
    BY <2>3, <2>4, FS_Bijection DEF ExistsBijection
  <2>7. Cardinality(At(q) \ {1}) = IF 1 \in At(q) THEN Cardinality(At(q)) - 1 ELSE Cardinality(At(q))
    BY <2>4, FS_RemoveElement
  <2>8. Cardinality(At(q)) \in Nat
    BY <1>1
  <2> QED
    BY <2>1, <2>5, <2>6, <2>7, <2>8
<1>4. Cardinality(At(<<>>)) = 0
  BY FS_EmptySet
<1> QED
  BY <1>1, <1>2, <1>3, <1>4 DEF SentinelsIn

\* What Without takes out of a queue, and what it leaves.
LEMMA WithoutLaws ==
    ASSUME NEW A \in SUBSET (0 .. N), NEW q \in Seq(A), NEW x
    PROVE  /\ Without(q, x) \in Seq(A \ {x})
           /\ ToSet(Without(q, x)) = ToSet(q) \ {x}
           /\ Len(Without(q, x)) <= Len(q)
           /\ Once(q) => Once(Without(q, x))
<1>1. PICK r : r = Without(q, x)
  OBVIOUS
<1>2. /\ r \in Seq(A) /\ ToSet(r) = ToSet(q) \ {x} /\ Len(r) <= Len(q)
      /\ Once(q) => Once(r)
  <2>1. ToSet(q) \in SUBSET (0 .. N)
    BY ToSetFinite
  <2>2. r = OnlyOf(q, (0 .. N) \ {x})
    BY <1>1 DEF Without
  <2> QED
    BY <2>1, <2>2, OnlyProps
<1>3. r \in Seq(A \ {x})
  <2>1. \A k \in 1 .. Len(r) : r[k] \in A \ {x}
    BY <1>2, SMTT(40) DEF ToSet
  <2>2. Len(r) \in Nat /\ r \in [1 .. Len(r) -> A \ {x}]
    BY <1>2, <2>1
  <2> QED
    BY <2>2
<1> QED
  BY <1>1, <1>2, <1>3

LEMMA WithoutAppend ==
    ASSUME NEW q \in Seq(0 .. N), NEW x \in 0 .. N, NEW y
    PROVE  /\ Without(<<>>, y) = <<>>
           /\ Without(Append(q, x), y) = IF x = y THEN Without(q, y) ELSE Append(Without(q, y), x)
<1>1. x \in (0 .. N) \ {y} <=> x # y
  OBVIOUS
<1>2. Without(<<>>, y) = <<>>
  BY OnlyAppend DEF Without
<1>3. Without(Append(q, x), y) =
         IF x \in (0 .. N) \ {y} THEN Append(Without(q, y), x) ELSE Without(q, y)
  <2>1. PICK A : A = 0 .. N
    OBVIOUS
  <2>2. q \in Seq(A) /\ x \in A
    BY <2>1
  <2>3. \A S : OnlyOf(Append(q, x), S) = IF x \in S THEN Append(OnlyOf(q, S), x) ELSE OnlyOf(q, S)
    BY <2>2, OnlyAppend
  <2> QED
    BY <2>3 DEF Without
<1> QED
  BY <1>1, <1>2, <1>3

\* What is put out to the caller comes behind what it has been given; the end does not.
LEMMA GivenLaws ==
    ASSUME NEW o \in Seq(Inputs), NEW q \in Seq(0 .. N)
    PROVE  /\ o \o Without(q, EndSentinel) \in Seq(Inputs)
           /\ o \o Without(<<>>, EndSentinel) = o
           /\ \A i \in Inputs : o \o Without(Append(q, i), EndSentinel) =
                                   Append(o \o Without(q, EndSentinel), i)
           /\ o \o Without(Append(q, EndSentinel), EndSentinel) = o \o Without(q, EndSentinel)
<1>1. PICK r : r = Without(q, EndSentinel)
  OBVIOUS
<1>2. (0 .. N) \ {EndSentinel} = Inputs /\ 0 .. N \in SUBSET (0 .. N)
  BY AsyncAssumption DEF EndSentinel, Inputs
<1>3. r \in Seq(Inputs)
  BY <1>1, <1>2, WithoutLaws
<1>4. Without(<<>>, EndSentinel) = <<>>
  BY WithoutAppend, AsyncAssumption DEF EndSentinel
<1>5. o \o <<>> = o
  OBVIOUS
<1>6. ASSUME NEW i \in Inputs
      PROVE  o \o Without(Append(q, i), EndSentinel) = Append(o \o r, i)
  <2>1. i \in 0 .. N /\ i # EndSentinel
    BY AsyncAssumption DEF EndSentinel, Inputs
  <2>2. Without(Append(q, i), EndSentinel) = Append(r, i)
    BY <1>1, <2>1, WithoutAppend
  <2>3. o \o Append(r, i) = Append(o \o r, i)
    BY <1>3
  <2> QED
    BY <2>2, <2>3
<1>7. Without(Append(q, EndSentinel), EndSentinel) = r
  BY <1>1, WithoutAppend, AsyncAssumption DEF EndSentinel
<1>8. o \o r \in Seq(Inputs)
  BY <1>3
<1> QED
  BY <1>1, <1>4, <1>5, <1>6, <1>7, <1>8

----------------------------------------------------------------------------
(* The inductive invariant: the workers. *)

LEMMA AsyncInit == Init => AsyncIInv
<1> SUFFICES ASSUME Init PROVE AsyncIInv
  OBVIOUS
<1>1. Types
  <2>1. 1 \in 1 .. N + 1 /\ 0 \in 0 .. N
    BY AsyncAssumption
  <2>2. wpc \in [Workers -> {"get"}] /\ hold \in [Workers -> {0}]
    BY DEF Init, EndSentinel
  <2>3. /\ wpc \in [Workers -> {"get", "call", "put", "write", "ended"}]
        /\ hold \in [Workers -> 0 .. N]
    BY <2>1, <2>2
  <2>4. reliable \in BOOLEAN /\ rooted \in BOOLEAN /\ done \in BOOLEAN
    BY DEF Init
  <2>5. /\ inQ \in Seq(0 .. N) /\ workQ \in Seq(0 .. N) /\ outQ \in Seq(0 .. N)
        /\ sent \in Seq(Inputs) /\ received \in Seq(Inputs) /\ out \in Seq(Inputs)
    BY DEF Init
  <2>6. /\ mpc = "loop" /\ evts = {} /\ next = 1 /\ nextOut = 1
        /\ sentinels = 0 /\ toSend = 0 /\ crashes = 0 /\ 0 \in 0 .. Cardinality(Workers)
    BY AsyncAssumption, FS_CardinalityType DEF Init
  <2> QED
    BY <2>1, <2>3, <2>4, <2>5, <2>6 DEF Types
<1>2. Ending = {} /\ Over = {} /\ Busy = {}
  BY DEF Init, Ending, Over, Busy
<1>3. SentinelsIn(workQ) = 0 /\ Cardinality({}) = 0
  <2>1. <<>> \in Seq(0 .. N)
    OBVIOUS
  <2> QED
    BY <2>1, SentinelsLaws, FS_EmptySet DEF Init
<1>4. Given = <<>>
  <2>1. <<>> \in Seq(0 .. N) /\ <<>> \in Seq(Inputs)
    OBVIOUS
  <2> QED
    BY <2>1, GivenLaws DEF Init, Given
<1>5. EventsOK /\ CallerOK
  BY DEF Init, EventsOK, CallerOK, ToSet
<1>6. WorkersOK
  BY <1>2, <1>3 DEF Init, WorkersOK, ToSet
<1>7. ReliableOK
  <2>1. [k \in 1 .. 1 - 1 |-> k] = <<>>
    OBVIOUS
  <2>2. 1 .. 1 - 1 = {}
    OBVIOUS
  <2> QED
    BY <1>4, <2>1, <2>2, AsyncAssumption DEF Init, ReliableOK
<1>8. PlacesOK
  <2>1. ASSUME NEW i \in Inputs PROVE OnePlace(i)
    BY <1>2, <1>4, AsyncAssumption DEF Init, OnePlace, ToSet, Inputs
  <2>2. Once(<<>>)
    BY DEF Once
  <2> QED
    BY <1>2, <1>4, <2>1, <2>2 DEF Init, PlacesOK
<1>9. UnreliableOK
  BY <1>2 DEF Init, UnreliableOK
<1> QED
  BY <1>1, <1>5, <1>6, <1>7, <1>8, <1>9 DEF AsyncIInv

\* The sets of workers are finite, and none is larger than Workers.
LEMMA CrewFinite ==
    ASSUME NEW S \in SUBSET Workers
    PROVE  /\ IsFiniteSet(S) /\ Cardinality(S) \in Nat /\ Cardinality(Workers) \in Nat
           /\ Cardinality(S) <= Cardinality(Workers)
           /\ Cardinality(S) = Cardinality(Workers) => S = Workers
           /\ \A w \in Workers : Cardinality(S \cup {w}) =
                                    IF w \in S THEN Cardinality(S) ELSE Cardinality(S) + 1
<1>1. IsFiniteSet(Workers)
  BY AsyncAssumption
<1>2. /\ IsFiniteSet(S) /\ Cardinality(S) <= Cardinality(Workers)
      /\ Cardinality(S) = Cardinality(Workers) => S = Workers
  BY <1>1, FS_Subset
<1> QED
  BY <1>1, <1>2, FS_CardinalityType, FS_AddElement

LEMMA EventsKept ==
    ASSUME EventsOK, UNCHANGED <<reliable, mpc, evts, next, sent, received, nextOut>>
    PROVE  EventsOK'
  BY DEF EventsOK, CanSendNew, InputsRemain

LEMMA CallerKept ==
    ASSUME CallerOK, UNCHANGED <<mpc, outQ, done>>
    PROVE  CallerOK'
  BY DEF CallerOK

LEMMA ReliableKept ==
    ASSUME ReliableOK, UNCHANGED <<reliable, mpc, next, sent, received, nextOut, out, outQ, crashes>>
    PROVE  ReliableOK'
<1>1. Given' = Given /\ AllCrashed' = AllCrashed /\ InputsRemain' = InputsRemain
  BY DEF Given, AllCrashed, InputsRemain
<1> QED
  BY <1>1 DEF ReliableOK

\* A worker gets a message, or the sentinel.
LEMMA GetStep ==
    ASSUME AsyncIInv, NEW w \in Workers, Get(w)
    PROVE  AsyncIInv'
<1>1. PICK x, q : x = Head(inQ) /\ q = Tail(inQ)
  OBVIOUS
<1>2. /\ Types /\ EventsOK /\ WorkersOK /\ CallerOK /\ ReliableOK /\ PlacesOK /\ UnreliableOK
  BY DEF AsyncIInv
<1>3. /\ inQ # <<>> /\ inQ' = q /\ wpc[w] = "get"
      /\ wpc' = [wpc EXCEPT ![w] = IF x = EndSentinel THEN "put" ELSE "call"]
      /\ hold' = [hold EXCEPT ![w] = x]
      /\ UNCHANGED <<reliable, rooted, workQ, outQ, mpc, evts, next, sent, resends, received, nextOut,
                     sentinels, toSend, owed, out, done, crashes>>
  BY <1>1 DEF Get, Work, stream, results, cleanup, caller, mode
<1>4. /\ x \in 0 .. N /\ q \in Seq(0 .. N) /\ ToSet(inQ) = {x} \cup ToSet(q)
      /\ Once(inQ) => Once(q) /\ (x = EndSentinel \/ x \notin ToSet(q))
  BY <1>1, <1>2, <1>3, TailLaws DEF Types
<1>5. Types'
  BY <1>2, <1>3, <1>4 DEF Types
<1>6. /\ Over' = Over /\ w \notin Over /\ w \notin Ending /\ w \notin Busy
      /\ Ending' = IF x = EndSentinel THEN Ending \cup {w} ELSE Ending
      /\ Busy' = IF x = EndSentinel THEN Busy ELSE Busy \cup {w}
      /\ \A v \in Workers : hold'[v] = IF v = w THEN x ELSE hold[v]
  BY <1>2, <1>3 DEF Types, Over, Ending, Busy
<1>7. Ending \in SUBSET Workers
  BY DEF Ending
<1>8. WorkersOK'
  <2>1. \A v \in Workers : /\ wpc'[v] = "call" => hold'[v] # EndSentinel
                           /\ wpc'[v] = "ended" => hold'[v] = EndSentinel
    BY <1>2, <1>3 DEF Types, WorkersOK
  <2>2. crashes' <= Cardinality(Ending')
    <3>1. Cardinality(Ending') = Cardinality(Ending) \/ Cardinality(Ending') = Cardinality(Ending) + 1
      BY <1>6, <1>7, CrewFinite
    <3>2. Cardinality(Ending) \in Nat /\ crashes \in Nat /\ crashes <= Cardinality(Ending)
      BY <1>2, <1>7, CrewFinite DEF WorkersOK, Types
    <3> QED
      BY <1>3, <3>1, <3>2
  <2>3. ASSUME mpc \in {"loop", "rest"}
        PROVE  EndSentinel \notin ToSet(q) /\ crashes = Cardinality(Ending')
    BY <1>2, <1>4, <1>6, <2>3 DEF WorkersOK
  <2> QED
    BY <1>2, <1>3, <1>6, <2>1, <2>2, <2>3 DEF WorkersOK
<1>9. Given' = Given
  BY <1>3 DEF Given
<1>10. PlacesOK'
  <2> SUFFICES ASSUME ~reliable PROVE PlacesOK'
    BY <1>3 DEF PlacesOK
  <2>0. /\ \A i \in Inputs : OnePlace(i)
        /\ Once(inQ) /\ Once(workQ) /\ Once(received) /\ Once(Given)
        /\ \A u, v \in Busy : hold[u] = hold[v] => u = v
    BY <1>2 DEF PlacesOK
  <2>1. ASSUME NEW i \in Inputs
        PROVE  /\ (\E v \in Busy' : hold'[v] = i) <=> i = x \/ \E v \in Busy : hold[v] = i
               /\ i \in ToSet(inQ) <=> i = x \/ i \in ToSet(q)
               /\ i = x => i \notin ToSet(q)
    BY <1>4, <1>6, <2>0, AsyncAssumption DEF EndSentinel, Inputs, Busy
  <2>2. ASSUME NEW i \in Inputs PROVE OnePlace(i)'
    BY <1>3, <1>9, <2>0, <2>1 DEF OnePlace
  <2>3. ASSUME NEW u \in Busy', NEW v \in Busy', hold'[u] = hold'[v] PROVE u = v
    <3>1. ASSUME NEW b \in Busy, hold[b] = x, x # EndSentinel PROVE FALSE
      <4>1. x \in Inputs /\ x \in ToSet(inQ)
        BY <1>4, <3>1, AsyncAssumption DEF Inputs, EndSentinel
      <4> QED
        BY <2>0, <3>1, <4>1 DEF OnePlace
    <3>2. Busy \in SUBSET Workers
      BY DEF Busy
    <3> QED
      BY <1>6, <2>0, <2>3, <3>1, <3>2
  <2> QED
    BY <1>3, <1>4, <1>9, <2>0, <2>2, <2>3 DEF PlacesOK
<1>11. UnreliableOK'
  <2> SUFFICES ASSUME ~reliable PROVE UnreliableOK'
    BY <1>3 DEF UnreliableOK
  <2>1. \A k, l \in DOMAIN inQ : k < l /\ inQ[k] = EndSentinel => inQ[l] = EndSentinel
    BY <1>2 DEF UnreliableOK
  <2>2. /\ Len(q) \in Nat /\ x = inQ[1]
        /\ DOMAIN q = 1 .. Len(q) /\ DOMAIN inQ = 1 .. Len(q) + 1
        /\ \A k \in 1 .. Len(q) : q[k] = inQ[k + 1]
    BY <1>1, <1>2, <1>3 DEF Types
  <2>3. \A k, l \in DOMAIN q : k < l /\ q[k] = EndSentinel => q[l] = EndSentinel
    BY <2>1, <2>2
  <2>4. ASSUME x = EndSentinel PROVE ToSet(q) \subseteq {EndSentinel}
    <3>1. \A k \in 1 .. Len(q) : inQ[k + 1] = EndSentinel
      <4>1. ASSUME NEW k \in 1 .. Len(q)
            PROVE  1 \in DOMAIN inQ /\ k + 1 \in DOMAIN inQ /\ 1 < k + 1
        BY <2>2
      <4> QED
        BY <2>1, <2>2, <2>4, <4>1
    <3> QED
      BY <2>2, <3>1 DEF ToSet
  <2>5. ASSUME Ending' # {} PROVE ToSet(q) \subseteq {EndSentinel}
    BY <1>2, <1>4, <1>6, <2>4, <2>5 DEF UnreliableOK
  <2>6. mpc \notin {"last", "ended"}
    BY <1>2, <1>6 DEF UnreliableOK
  <2> QED
    BY <1>2, <1>3, <2>3, <2>5, <2>6 DEF UnreliableOK, InputsRemain
<1> QED
  BY <1>2, <1>3, <1>5, <1>8, <1>10, <1>11, EventsKept, CallerKept, ReliableKept DEF AsyncIInv

\* What no worker or queue of theirs has changed for, and what the invariant says of it.
LEMMA CrewKept ==
    ASSUME WorkersOK, PlacesOK, UnreliableOK,
           Over' = Over, Ending' = Ending, Busy' = Busy, hold' = hold,
           \A v \in Workers : /\ wpc'[v] = "call" => wpc[v] = "call"
                              /\ wpc'[v] = "ended" => wpc[v] = "ended",
           UNCHANGED <<reliable, inQ, workQ, outQ, mpc, next, received, sentinels, out, crashes>>
    PROVE  WorkersOK' /\ PlacesOK' /\ UnreliableOK'
<1>1. Given' = Given
  BY DEF Given
<1>2. WorkersOK'
  BY DEF WorkersOK
<1>3. \A i \in Inputs : OnePlace(i) => OnePlace(i)'
  BY <1>1 DEF OnePlace
<1>4. PlacesOK'
  BY <1>1, <1>3 DEF PlacesOK
<1>5. UnreliableOK'
  BY DEF UnreliableOK, InputsRemain
<1> QED
  BY <1>2, <1>4, <1>5

\* A worker calls the function, or waits for room in the pipe of the results.
LEMMA CallStep ==
    ASSUME AsyncIInv, NEW w \in Workers, Call(w) \/ PollPut(w)
    PROVE  AsyncIInv'
<1>1. /\ Types /\ EventsOK /\ WorkersOK /\ CallerOK /\ ReliableOK /\ PlacesOK /\ UnreliableOK
  BY DEF AsyncIInv
<1>2. PICK p \in {"put", "write"} : wpc' = [wpc EXCEPT ![w] = p]
  BY DEF Call, PollPut, Work
<1>3. /\ wpc[w] = "call" \/ (wpc[w] = "put" /\ p = "write")
      /\ UNCHANGED <<reliable, rooted, inQ, workQ, outQ, hold, mpc, evts, next, sent, resends, received,
                     nextOut, sentinels, toSend, owed, out, done, crashes>>
  BY <1>1, <1>2 DEF Call, PollPut, Work, queues, stream, results, cleanup, caller, Types, mode
<1>4. Types'
  BY <1>1, <1>2, <1>3 DEF Types
<1>5. wpc[w] = "call" => hold[w] # EndSentinel
  BY <1>1 DEF WorkersOK
<1>6. \A v \in Workers : wpc'[v] = IF v = w THEN p ELSE wpc[v]
  BY <1>1, <1>2 DEF Types
<1>7. Over' = Over
  BY <1>3, <1>6 DEF Over
<1>8. Ending' = Ending
  BY <1>3, <1>5, <1>6 DEF Ending
<1>9. Busy' = Busy
  BY <1>3, <1>6 DEF Busy
<1>10. \A v \in Workers : /\ wpc'[v] = "call" => wpc[v] = "call"
                          /\ wpc'[v] = "ended" => wpc[v] = "ended"
  BY <1>6
<1>11. WorkersOK' /\ PlacesOK' /\ UnreliableOK'
  BY <1>1, <1>3, <1>7, <1>8, <1>9, <1>10, CrewKept
<1> QED
  BY <1>1, <1>3, <1>4, <1>11, EventsKept, CallerKept, ReliableKept DEF AsyncIInv

\* The function raises, and the worker is about to end.
LEMMA RaiseStep ==
    ASSUME AsyncIInv, NEW w \in Workers, Raise(w)
    PROVE  AsyncIInv'
<1>1. /\ Types /\ EventsOK /\ WorkersOK /\ CallerOK /\ ReliableOK /\ PlacesOK /\ UnreliableOK
  BY DEF AsyncIInv
<1>2. /\ reliable /\ crashes' = crashes + 1 /\ wpc[w] = "call"
      /\ wpc' = [wpc EXCEPT ![w] = "put"] /\ hold' = [hold EXCEPT ![w] = EndSentinel]
      /\ UNCHANGED <<reliable, rooted, inQ, workQ, outQ, mpc, evts, next, sent, resends, received,
                     nextOut, sentinels, toSend, owed, out, done>>
  BY DEF Raise, Work, queues, stream, results, cleanup, caller, mode
<1>3. Types'
  BY <1>1, <1>2, AsyncAssumption DEF Types, EndSentinel
<1>4. Over' = Over /\ w \notin Ending /\ Ending' = Ending \cup {w} /\ Ending \in SUBSET Workers
  BY <1>1, <1>2 DEF Types, WorkersOK, Over, Ending
<1>5. /\ Cardinality(Ending') = Cardinality(Ending) + 1
      /\ Cardinality(Ending) + 1 <= Cardinality(Workers)
      /\ Cardinality(Ending) \in Nat /\ Cardinality(Workers) \in Nat
  <2>1. Ending' \in SUBSET Workers
    BY <1>4
  <2> QED
    BY <1>4, <2>1, CrewFinite
<1>6. WorkersOK'
  <2>1. \A v \in Workers : /\ wpc'[v] = "call" => hold'[v] # EndSentinel
                           /\ wpc'[v] = "ended" => hold'[v] = EndSentinel
    BY <1>1, <1>2 DEF Types, WorkersOK
  <2>2. /\ crashes' <= Cardinality(Ending')
        /\ mpc \in {"loop", "rest"} => crashes' = Cardinality(Ending')
    BY <1>1, <1>2, <1>5 DEF WorkersOK, Types
  <2> QED
    BY <1>1, <1>2, <1>4, <2>1, <2>2 DEF WorkersOK
<1>7. ReliableOK'
  <2>1. ~AllCrashed
    BY <1>1, <1>5 DEF AllCrashed, WorkersOK, Types
  <2>2. Given' = Given /\ InputsRemain' = InputsRemain
    BY <1>2 DEF Given, InputsRemain
  <2> QED
    BY <1>1, <1>2, <2>1, <2>2 DEF ReliableOK
<1>8. PlacesOK' /\ UnreliableOK'
  BY <1>2 DEF PlacesOK, UnreliableOK
<1> QED
  BY <1>1, <1>2, <1>3, <1>6, <1>7, <1>8, EventsKept, CallerKept DEF AsyncIInv

\* A worker puts its result, or its sentinel, and ends.
LEMMA PutStep ==
    ASSUME AsyncIInv, NEW w \in Workers, Put(w)
    PROVE  AsyncIInv'
<1>1. PICK x, q : x = hold[w] /\ q = Append(workQ, x)
  OBVIOUS
<1>2. /\ Types /\ EventsOK /\ WorkersOK /\ CallerOK /\ ReliableOK /\ PlacesOK /\ UnreliableOK
  BY DEF AsyncIInv
<1>3. /\ workQ' = q /\ wpc[w] = "write"
      /\ wpc' = [wpc EXCEPT ![w] = IF x = EndSentinel THEN "ended" ELSE "get"]
      /\ UNCHANGED <<reliable, rooted, inQ, outQ, hold, mpc, evts, next, sent, resends, received, nextOut,
                     sentinels, toSend, owed, out, done, crashes>>
  BY <1>1 DEF Put, Work, stream, results, cleanup, caller, mode
<1>4. /\ x \in 0 .. N /\ q \in Seq(0 .. N) /\ ToSet(q) = ToSet(workQ) \cup {x}
      /\ Once(workQ) /\ (x = EndSentinel \/ x \notin ToSet(workQ)) => Once(q)
  <2>1. x \in 0 .. N /\ workQ \in Seq(0 .. N)
    BY <1>1, <1>2 DEF Types
  <2>2. /\ Append(workQ, x) \in Seq(0 .. N) /\ ToSet(Append(workQ, x)) = ToSet(workQ) \cup {x}
        /\ Once(workQ) /\ (x = EndSentinel \/ x \notin ToSet(workQ)) => Once(Append(workQ, x))
    BY <2>1, QueueAppend
  <2> QED
    BY <1>1, <2>1, <2>2
<1>5. Types'
  BY <1>2, <1>3, <1>4 DEF Types
<1>6. /\ w \notin Over /\ Ending' = Ending
      /\ Over' = IF x = EndSentinel THEN Over \cup {w} ELSE Over
      /\ Busy' = Busy \ {w} /\ (w \in Busy <=> x # EndSentinel)
  <2>1. \A v \in Workers : wpc'[v] = IF v = w THEN IF x = EndSentinel THEN "ended" ELSE "get" ELSE wpc[v]
    BY <1>2, <1>3 DEF Types
  <2>2. w \notin Over /\ Over' = IF x = EndSentinel THEN Over \cup {w} ELSE Over
    BY <1>3, <2>1 DEF Over
  <2>3. Ending' = Ending
    BY <1>1, <1>3, <2>1 DEF Ending
  <2>4. Busy' = Busy \ {w} /\ (w \in Busy <=> x # EndSentinel)
    BY <1>1, <1>3, <2>1 DEF Busy
  <2> QED
    BY <2>2, <2>3, <2>4
<1>7. WorkersOK'
  <2>1. \A v \in Workers : /\ wpc'[v] = "call" => hold'[v] # EndSentinel
                           /\ wpc'[v] = "ended" => hold'[v] = EndSentinel
    BY <1>1, <1>2, <1>3 DEF Types, WorkersOK
  <2>2. SentinelsIn(q) = SentinelsIn(workQ) + IF x = EndSentinel THEN 1 ELSE 0
    BY <1>1, <1>2, <1>4, SentinelsLaws DEF Types
  <2>3. Over \in SUBSET Workers
    BY DEF Over
  <2>4. Cardinality(Over') = Cardinality(Over) + IF x = EndSentinel THEN 1 ELSE 0
    BY <1>6, <2>3, CrewFinite
  <2>5. SentinelsIn(workQ) \in Nat /\ Cardinality(Over) \in Nat /\ sentinels \in Nat
    BY <1>2, <2>3, SentinelsLaws, CrewFinite DEF Types
  <2>6. sentinels' + SentinelsIn(workQ') = Cardinality(Over')
    BY <1>2, <1>3, <2>2, <2>4, <2>5 DEF WorkersOK
  <2> QED
    BY <1>2, <1>3, <1>6, <2>1, <2>6 DEF WorkersOK
<1>8. Given' = Given
  BY <1>3 DEF Given
<1>9. PlacesOK'
  <2> SUFFICES ASSUME ~reliable PROVE PlacesOK'
    BY <1>3 DEF PlacesOK
  <2>0. /\ \A i \in Inputs : OnePlace(i)
        /\ Once(inQ) /\ Once(workQ) /\ Once(received) /\ Once(Given)
        /\ \A u, v \in Busy : hold[u] = hold[v] => u = v
    BY <1>2 DEF PlacesOK
  <2>1. ASSUME NEW i \in Inputs
        PROVE  /\ (\E v \in Busy : hold[v] = i) <=> i = x \/ \E v \in Busy' : hold[v] = i
               /\ i \in ToSet(q) <=> i = x \/ i \in ToSet(workQ)
               /\ i = x => ~ \E v \in Busy' : hold[v] = i
    <3>1. i # EndSentinel
      BY AsyncAssumption DEF Inputs, EndSentinel
    <3> QED
      BY <1>1, <1>4, <1>6, <2>0, <3>1
  <2>2. ASSUME NEW i \in Inputs PROVE OnePlace(i)'
    BY <1>3, <1>8, <2>0, <2>1 DEF OnePlace
  <2>3. x = EndSentinel \/ x \notin ToSet(workQ)
    <3>1. ASSUME x # EndSentinel PROVE x \in Inputs
      BY <1>4, <3>1, AsyncAssumption DEF EndSentinel, Inputs
    <3> QED
      BY <1>1, <1>6, <2>0, <3>1 DEF OnePlace
  <2> QED
    BY <1>3, <1>4, <1>6, <1>8, <2>0, <2>2, <2>3 DEF PlacesOK
<1>10. UnreliableOK'
  <2> SUFFICES ASSUME ~reliable PROVE UnreliableOK'
    BY <1>3 DEF UnreliableOK
  <2>1. mpc \notin {"last", "ended"}
    BY <1>2, <1>3 DEF UnreliableOK, Over
  <2> QED
    BY <1>2, <1>3, <1>6, <2>1 DEF UnreliableOK, InputsRemain
<1> QED
  BY <1>2, <1>3, <1>5, <1>7, <1>9, <1>10, EventsKept, CallerKept, ReliableKept DEF AsyncIInv

----------------------------------------------------------------------------
(* The inductive invariant: the master. *)

LEMMA PoolKept ==
    ASSUME UNCHANGED pool
    PROVE  Over' = Over /\ Ending' = Ending /\ Busy' = Busy
  BY DEF pool, Over, Ending, Busy

\* When the master has a sentinel of every worker, all of them have ended; before the
\* clean-up that means that all of them have raised.
LEMMA EndedAll ==
    ASSUME Types, WorkersOK, UnreliableOK, AllEnded
    PROVE  /\ Over = Workers /\ Ending = Workers /\ Workers # {}
           /\ mpc \in {"loop", "rest"} => AllCrashed /\ reliable
<1>1. /\ Over \in SUBSET Workers /\ Ending \in SUBSET Workers
      /\ Workers # {} /\ IsFiniteSet(Workers)
  BY AsyncAssumption DEF Over, Ending
<1>2. Over = Workers
  <2>1. SentinelsIn(workQ) \in Nat /\ Cardinality(Over) \in Nat /\ sentinels \in Nat
    BY <1>1, SentinelsLaws, CrewFinite DEF Types
  <2>2. Cardinality(Workers) <= Cardinality(Over)
    BY <2>1 DEF AllEnded, WorkersOK
  <2> QED
    BY <1>1, <2>1, <2>2, CrewFinite
<1>3. Ending = Workers
  BY <1>2 DEF WorkersOK, Over, Ending
<1>4. Cardinality(Workers) # 0
  BY <1>1, FS_EmptySet
<1>5. mpc \in {"loop", "rest"} => AllCrashed /\ reliable
  BY <1>3, <1>4 DEF WorkersOK, UnreliableOK, AllCrashed, Types
<1> QED
  BY <1>1, <1>2, <1>3, <1>5

LEMMA SentinelsBound ==
    ASSUME Types, WorkersOK
    PROVE  /\ Cardinality(Workers) \in Nat /\ sentinels \in 0 .. Cardinality(Workers)
           /\ Cardinality(Workers) - sentinels \in 0 .. Cardinality(Workers)
<1>1. Over \in SUBSET Workers
  BY DEF Over
<1>2. SentinelsIn(workQ) \in Nat /\ Cardinality(Over) \in Nat /\ sentinels \in Nat
  BY <1>1, SentinelsLaws, CrewFinite DEF Types
<1>3. Cardinality(Workers) \in Nat /\ Cardinality(Over) <= Cardinality(Workers)
  BY <1>1, CrewFinite
<1> QED
  BY <1>2, <1>3 DEF WorkersOK

LEMMA PollStep ==
    ASSUME AsyncIInv, Poll
    PROVE  AsyncIInv'
<1>1. /\ Types /\ EventsOK /\ WorkersOK /\ CallerOK /\ ReliableOK /\ PlacesOK /\ UnreliableOK
  BY DEF AsyncIInv
<1>2. /\ mpc = "loop" /\ evts' = Events
      /\ UNCHANGED pool
      /\ UNCHANGED <<reliable, rooted, inQ, workQ, outQ, wpc, hold, crashes, mpc, next, sent, resends, received,
                     nextOut, sentinels, toSend, owed, out, done>>
  BY DEF Poll, queues, pool, stream, results, cleanup, caller, mode
<1>3. Events \subseteq {"out", "work", "in"}
  BY DEF Events
<1>4. Types'
  BY <1>1, <1>2, <1>3 DEF Types
<1>5. EventsOK'
  <2>1. "out" \in Events => IF reliable THEN nextOut \in ToSet(received) ELSE received # <<>>
    BY <1>1 DEF Events, Types
  <2>2. "in" \in Events => /\ CanSendNew \/ (reliable /\ sent # <<>>)
                           /\ reliable => "work" \notin Events
    BY <1>1 DEF Events, CanSendNew, Late, Types
  <2>3. CanSendNew' = CanSendNew
    BY <1>2 DEF CanSendNew, InputsRemain
  <2> QED
    BY <1>2, <2>1, <2>2, <2>3 DEF EventsOK
<1>6. WorkersOK' /\ PlacesOK' /\ UnreliableOK'
  BY <1>1, <1>2, PoolKept, CrewKept
<1> QED
  BY <1>1, <1>2, <1>4, <1>5, <1>6, CallerKept, ReliableKept DEF AsyncIInv

LEMMA CountUp ==
    ASSUME NEW n \in Nat
    PROVE  /\ Append([k \in 1 .. (n + 1) - 1 |-> k], n + 1) = [k \in 1 .. (n + 2) - 1 |-> k]
           /\ [k \in 1 .. (n + 1) - 1 |-> k] \in Seq(Nat)
  OBVIOUS

\* A result is put out: what it does to what the caller is given.
LEMMA PutsOut ==
    ASSUME Types, CallerOK, mpc # "ended", NEW r \in Inputs,
           outQ' = Append(outQ, r), out' = out
    PROVE  /\ Given \in Seq(Inputs)
           /\ outQ' \in Seq(0 .. N) /\ EndSentinel \notin ToSet(outQ')
           /\ Given' = Append(Given, r)
           /\ ToSet(Given') = ToSet(Given) \cup {r}
           /\ Once(Given) /\ r \notin ToSet(Given) => Once(Given')
<1>1. out \in Seq(Inputs) /\ outQ \in Seq(0 .. N) /\ r \in 0 .. N /\ r # EndSentinel
  BY AsyncAssumption DEF Types, Inputs, EndSentinel
<1>2. Given \in Seq(Inputs) /\ Given' = Append(Given, r)
  BY <1>1, GivenLaws DEF Given
<1>3. outQ' \in Seq(0 .. N) /\ ToSet(outQ') = ToSet(outQ) \cup {r}
  <2>1. Append(outQ, r) \in Seq(0 .. N) /\ ToSet(Append(outQ, r)) = ToSet(outQ) \cup {r}
    BY <1>1, QueueAppend
  <2> QED
    BY <2>1
<1>4. EndSentinel \notin ToSet(outQ')
  BY <1>1, <1>3 DEF CallerOK
<1>5. /\ ToSet(Append(Given, r)) = ToSet(Given) \cup {r}
      /\ Once(Given) /\ r \notin ToSet(Given) => Once(Append(Given, r))
  BY <1>2, AppendLaws
<1> QED
  BY <1>2, <1>3, <1>4, <1>5

\* The places when a result moves from those received to those given.
LEMMA Gives ==
    ASSUME PlacesOK, Types, ~reliable, NEW r \in Inputs, r \in ToSet(received),
           Given \in Seq(Inputs), Given' = Append(Given, r),
           ToSet(received') = ToSet(received) \ {r}, Once(received) => Once(received'),
           Busy' = Busy, UNCHANGED <<reliable, inQ, workQ, hold, next>>
    PROVE  PlacesOK'
<1>0. /\ \A i \in Inputs : OnePlace(i)
      /\ Once(inQ) /\ Once(workQ) /\ Once(received) /\ Once(Given)
      /\ \A u, v \in Busy : hold[u] = hold[v] => u = v
  BY DEF PlacesOK
<1>1. r \notin ToSet(Given)
  BY <1>0 DEF OnePlace
<1>2. ToSet(Given') = ToSet(Given) \cup {r} /\ Once(Given')
  BY <1>0, <1>1, AppendLaws
<1>3. ASSUME NEW i \in Inputs PROVE OnePlace(i)'
  BY <1>0, <1>2 DEF OnePlace
<1> QED
  BY <1>0, <1>2, <1>3 DEF PlacesOK

LEMMA PutOutStep ==
    ASSUME AsyncIInv, PutOut
    PROVE  AsyncIInv'
<1>1. /\ Types /\ EventsOK /\ WorkersOK /\ CallerOK /\ ReliableOK /\ PlacesOK /\ UnreliableOK
  BY DEF AsyncIInv
<1>2. PICK r : r = IF reliable THEN nextOut ELSE Head(received)
  OBVIOUS
<1>3. /\ mpc = "loop" /\ "out" \in evts
      /\ outQ' = Append(outQ, r) /\ received' = Without(received, r)
      /\ nextOut' = nextOut + 1 /\ evts' = evts \ {"out"}
      /\ UNCHANGED pool
      /\ UNCHANGED <<reliable, rooted, inQ, workQ, wpc, hold, crashes, mpc, next, sent, resends,
                     sentinels, toSend, owed, out, done>>
  BY <1>2 DEF PutOut, pool, stream, cleanup, caller, mode
<1>4. r \in Inputs /\ r \in ToSet(received)
  <2>1. received \in Seq(Inputs) /\ ToSet(received) \in SUBSET Inputs
    BY <1>1, ToSetFinite DEF Types
  <2>2. CASE reliable
    BY <1>1, <1>2, <1>3, <2>1, <2>2 DEF EventsOK
  <2>3. CASE ~reliable
    BY <1>1, <1>2, <1>3, <2>1, <2>3, TailLaws DEF EventsOK
  <2> QED
    BY <2>2, <2>3
<1>5. /\ Given \in Seq(Inputs) /\ outQ' \in Seq(0 .. N) /\ EndSentinel \notin ToSet(outQ')
      /\ Given' = Append(Given, r)
  BY <1>1, <1>3, <1>4, PutsOut
<1>6. /\ received' \in Seq(Inputs) /\ ToSet(received') = ToSet(received) \ {r}
      /\ Len(received') <= Len(received)
      /\ Once(received) => Once(received')
  <2>1. Inputs \in SUBSET (0 .. N) /\ received \in Seq(Inputs)
    BY <1>1 DEF Inputs, Types
  <2>2. /\ Without(received, r) \in Seq(Inputs \ {r})
        /\ ToSet(Without(received, r)) = ToSet(received) \ {r}
        /\ Len(Without(received, r)) <= Len(received)
        /\ Once(received) => Once(Without(received, r))
    BY <2>1, WithoutLaws
  <2> QED
    BY <1>3, <2>2
<1>7. Types'
  BY <1>1, <1>3, <1>5, <1>6 DEF Types
<1>8. EventsOK'
  <2>1. CanSendNew => CanSendNew'
    <3>1. Len(received) \in Nat /\ Len(received') \in Nat
      BY <1>1, <1>6 DEF Types
    <3> QED
      BY <1>1, <1>3, <1>6, <3>1, AsyncAssumption DEF CanSendNew, InputsRemain
  <2> QED
    BY <1>1, <1>3, <2>1 DEF EventsOK
<1>9. WorkersOK'
  BY <1>1, <1>3, PoolKept DEF WorkersOK
<1>10. CallerOK'
  BY <1>1, <1>3, <1>5 DEF CallerOK
<1>11. ReliableOK'
  <2> SUFFICES ASSUME reliable PROVE ReliableOK'
    BY <1>3 DEF ReliableOK
  <2>1. nextOut \in Inputs /\ r = nextOut /\ Given = [k \in 1 .. nextOut - 1 |-> k]
    BY <1>1, <1>2, <1>4 DEF ReliableOK
  <2>2. Given' = [k \in 1 .. nextOut' - 1 |-> k] /\ nextOut' \in 1 .. N + 1
    <3>1. nextOut - 1 \in Nat /\ nextOut = (nextOut - 1) + 1 /\ nextOut + 1 = (nextOut - 1) + 2
      BY <2>1, AsyncAssumption DEF Inputs
    <3>2. Append([k \in 1 .. nextOut - 1 |-> k], nextOut) = [k \in 1 .. (nextOut + 1) - 1 |-> k]
      BY <3>1, CountUp
    <3> QED
      BY <1>3, <1>5, <2>1, <3>2, AsyncAssumption DEF Inputs
  <2>3. 1 .. next - 1 \subseteq ToSet(sent) \cup ToSet(received') \cup (1 .. nextOut' - 1)
    <3>1. 1 .. nextOut' - 1 = (1 .. nextOut - 1) \cup {r}
      BY <1>3, <2>1, AsyncAssumption DEF Inputs
    <3> QED
      BY <1>1, <1>3, <1>6, <3>1 DEF ReliableOK
  <2> QED
    BY <1>3, <2>2, <2>3 DEF ReliableOK
<1>12. PlacesOK'
  <2>1. CASE reliable
    BY <1>3, <2>1 DEF PlacesOK
  <2>2. CASE ~reliable
    <3>1. Busy' = Busy /\ UNCHANGED <<reliable, inQ, workQ, hold, next>>
      BY <1>3, PoolKept
    <3> QED
      BY <1>1, <1>4, <1>5, <1>6, <2>2, <3>1, Gives
  <2> QED
    BY <2>1, <2>2
<1>13. UnreliableOK'
  BY <1>1, <1>3, PoolKept DEF UnreliableOK
<1> QED
  BY <1>7, <1>8, <1>9, <1>10, <1>11, <1>12, <1>13 DEF AsyncIInv

\* The master takes everything that the workers have put.
LEMMA ReceiveStep ==
    ASSUME AsyncIInv, Receive
    PROVE  AsyncIInv'
<1>1. /\ Types /\ EventsOK /\ WorkersOK /\ CallerOK /\ ReliableOK /\ PlacesOK /\ UnreliableOK
  BY DEF AsyncIInv
<1>2. PICK new : new = SetToSeq(ToSet(sent) \cap ToSet(workQ))
  OBVIOUS
<1>3. PICK answers : answers = Without(workQ, EndSentinel)
  OBVIOUS
<1>4. /\ mpc = "loop" /\ "work" \in evts /\ "out" \notin evts
      /\ reliable => /\ received' = received \o new
                     /\ sent' = OnlyOf(sent, ToSet(sent) \ ToSet(workQ))
      /\ ~reliable => received' = received \o answers /\ sent' = sent
      /\ sentinels' = sentinels + SentinelsIn(workQ)
      /\ workQ' = <<>> /\ evts' = evts \ {"work"}
      /\ UNCHANGED pool
      /\ UNCHANGED <<reliable, rooted, inQ, outQ, wpc, hold, crashes, mpc, next, resends, nextOut, toSend, out, done>>
  BY <1>2, <1>3 DEF Receive, pool, caller, mode
<1>5. sent \in Seq(Inputs) /\ received \in Seq(Inputs) /\ workQ \in Seq(0 .. N)
  BY <1>1 DEF Types
<1>6. /\ new \in Seq(Inputs) /\ ToSet(new) = ToSet(sent) \cap ToSet(workQ)
  <2>1. IsFiniteSet(ToSet(sent) \cap ToSet(workQ)) /\ ToSet(sent) \cap ToSet(workQ) \in SUBSET Inputs
    BY <1>5, ToSetFinite, FS_Subset
  <2> QED
    BY <1>2, <2>1, SetToSeqLaws
<1>7. /\ answers \in Seq(Inputs) /\ ToSet(answers) = ToSet(workQ) \ {EndSentinel}
      /\ Once(workQ) => Once(answers)
  <2>1. PICK A : A = 0 .. N
    OBVIOUS
  <2>2. A \in SUBSET (0 .. N) /\ workQ \in Seq(A)
    BY <1>5, <2>1
  <2>3. /\ answers \in Seq(A \ {EndSentinel}) /\ ToSet(answers) = ToSet(workQ) \ {EndSentinel}
        /\ Once(workQ) => Once(answers)
    BY <1>3, <2>2, WithoutLaws
  <2>4. A \ {EndSentinel} = Inputs
    BY <2>1, AsyncAssumption DEF EndSentinel, Inputs
  <2> QED
    BY <2>3, <2>4
<1>8. /\ reliable => /\ received' \in Seq(Inputs)
                     /\ ToSet(received') = ToSet(received) \cup (ToSet(sent) \cap ToSet(workQ))
                     /\ sent' \in Seq(Inputs) /\ ToSet(sent') = ToSet(sent) \ ToSet(workQ)
  <2>1. /\ received \o new \in Seq(Inputs)
        /\ ToSet(received \o new) = ToSet(received) \cup ToSet(new)
    BY <1>5, <1>6, ConcatLaws
  <2>2. \A S : OnlyOf(sent, S) \in Seq(Inputs) /\ ToSet(OnlyOf(sent, S)) = ToSet(sent) \cap S
    BY <1>5, OnlyProps
  <2>3. ToSet(sent) \cap (ToSet(sent) \ ToSet(workQ)) = ToSet(sent) \ ToSet(workQ)
    OBVIOUS
  <2> QED
    BY <1>4, <1>6, <2>1, <2>2, <2>3
<1>9. ASSUME ~reliable
      PROVE  /\ received' \in Seq(Inputs) /\ sent' \in Seq(Inputs)
             /\ ToSet(received') = ToSet(received) \cup (ToSet(workQ) \ {EndSentinel})
             /\ Once(received')
  <2>1. /\ \A i \in Inputs : OnePlace(i)
        /\ Once(workQ) /\ Once(received)
    BY <1>1, <1>9 DEF PlacesOK
  <2>2. ToSet(received) \in SUBSET Inputs
    BY <1>5, ToSetFinite
  <2>3. \A x \in ToSet(received) \cap ToSet(answers) : x = EndSentinel
    BY <1>7, <2>1, <2>2 DEF OnePlace
  <2>4. /\ received \o answers \in Seq(Inputs)
        /\ ToSet(received \o answers) = ToSet(received) \cup ToSet(answers)
        /\ Once(received \o answers)
    BY <1>5, <1>7, <2>1, <2>3, ConcatLaws
  <2> QED
    BY <1>4, <1>5, <1>7, <1>9, <2>4
<1>10. SentinelsIn(workQ) \in Nat /\ SentinelsIn(workQ') = 0
  BY <1>4, <1>5, SentinelsLaws
<1>11. received' \in Seq(Inputs) /\ sent' \in Seq(Inputs)
  BY <1>8, <1>9
<1>12. Types'
  <2>1. workQ' \in Seq(0 .. N) /\ sentinels' \in Nat /\ evts' \subseteq {"out", "work", "in"}
    BY <1>1, <1>4, <1>10 DEF Types
  <2> QED
    BY <1>1, <1>4, <1>11, <2>1 DEF Types
<1>13. EventsOK'
  BY <1>1, <1>4 DEF EventsOK, CanSendNew, InputsRemain
<1>14. WorkersOK'
  <2>1. sentinels' + SentinelsIn(workQ') = Cardinality(Over)
    BY <1>1, <1>4, <1>10 DEF WorkersOK, Types
  <2> QED
    BY <1>1, <1>4, <2>1, PoolKept DEF WorkersOK
<1>15. CallerOK'
  BY <1>1, <1>4 DEF CallerOK
<1>16. Given' = Given
  BY <1>4 DEF Given
<1>17. ReliableOK'
  <2> SUFFICES ASSUME reliable PROVE ReliableOK'
    BY <1>4 DEF ReliableOK
  <2>1. 1 .. next - 1 \subseteq ToSet(sent') \cup ToSet(received') \cup (1 .. nextOut - 1)
    BY <1>1, <1>4, <1>8 DEF ReliableOK
  <2> QED
    BY <1>1, <1>4, <1>16, <2>1 DEF ReliableOK
<1>18. PlacesOK'
  <2> SUFFICES ASSUME ~reliable PROVE PlacesOK'
    BY <1>4 DEF PlacesOK
  <2>1. /\ \A i \in Inputs : OnePlace(i)
        /\ Once(inQ) /\ Once(Given)
        /\ \A u, v \in Busy : hold[u] = hold[v] => u = v
    BY <1>1 DEF PlacesOK
  <2>2. ASSUME NEW i \in Inputs
        PROVE  /\ i \in ToSet(received') <=> i \in ToSet(received) \/ i \in ToSet(workQ)
               /\ i \notin ToSet(workQ')
    <3>1. i # EndSentinel
      BY AsyncAssumption DEF Inputs, EndSentinel
    <3>2. ToSet(workQ') = {}
      BY <1>4 DEF ToSet
    <3> QED
      BY <1>9, <3>1, <3>2
  <2>3. ASSUME NEW i \in Inputs PROVE OnePlace(i)'
    BY <1>4, <1>16, <2>1, <2>2, PoolKept DEF OnePlace
  <2>4. Once(workQ')
    BY <1>4 DEF Once
  <2> QED
    BY <1>4, <1>9, <1>16, <2>1, <2>3, <2>4, PoolKept DEF PlacesOK
<1>19. UnreliableOK'
  BY <1>1, <1>4, PoolKept DEF UnreliableOK
<1> QED
  BY <1>12, <1>13, <1>14, <1>15, <1>17, <1>18, <1>19 DEF AsyncIInv

\* The next input is sent.
LEMMA SendStep ==
    ASSUME AsyncIInv, Send
    PROVE  AsyncIInv'
<1>1. /\ Types /\ EventsOK /\ WorkersOK /\ CallerOK /\ ReliableOK /\ PlacesOK /\ UnreliableOK
  BY DEF AsyncIInv
<1>2. /\ mpc = "loop" /\ evts' = {} /\ InputsRemain
      /\ inQ' = Append(inQ, next) /\ next' = next + 1
      /\ reliable => sent' = Append(sent, next)
      /\ ~reliable => sent' = sent
      /\ UNCHANGED pool
      /\ mpc' \in {"loop", "failed"} /\ (~reliable => mpc' = mpc)
      /\ UNCHANGED <<reliable, rooted, workQ, outQ, wpc, hold, crashes, received, nextOut, sentinels,
                     toSend, out, done>>
  BY DEF Send, Feed, FindNextResend, CanSendNew, pool, results, caller, mode
<1>3. /\ next \in Inputs /\ next \in 0 .. N /\ next # EndSentinel
      /\ inQ \in Seq(0 .. N) /\ sent \in Seq(Inputs)
  BY <1>1, <1>2, AsyncAssumption DEF InputsRemain, Inputs, Types, EndSentinel
<1>4. /\ inQ' \in Seq(0 .. N) /\ ToSet(inQ') = ToSet(inQ) \cup {next}
      /\ Once(inQ) /\ next \notin ToSet(inQ) => Once(inQ')
  <2>1. /\ Append(inQ, next) \in Seq(0 .. N) /\ ToSet(Append(inQ, next)) = ToSet(inQ) \cup {next}
        /\ Once(inQ) /\ next \notin ToSet(inQ) => Once(Append(inQ, next))
    BY <1>3, QueueAppend
  <2> QED
    BY <1>2, <2>1
<1>5. /\ sent' \in Seq(Inputs)
      /\ reliable => ToSet(sent') = ToSet(sent) \cup {next}
  <2>1. /\ Append(sent, next) \in Seq(Inputs)
        /\ ToSet(Append(sent, next)) = ToSet(sent) \cup {next}
    BY <1>3, AppendLaws
  <2> QED
    BY <1>2, <1>3, <2>1
<1>6. Types'
  <2>1. next' \in 1 .. N + 1
    BY <1>2, <1>3, AsyncAssumption DEF Inputs
  <2> QED
    BY <1>1, <1>2, <1>4, <1>5, <2>1 DEF Types
<1>7. EventsOK'
  BY <1>2 DEF EventsOK
<1>8. EndSentinel \notin ToSet(inQ')
  BY <1>1, <1>2, <1>3, <1>4 DEF WorkersOK
<1>9. WorkersOK'
  BY <1>1, <1>2, <1>8, PoolKept DEF WorkersOK
<1>10. CallerOK'
  BY <1>1, <1>2 DEF CallerOK
<1>11. Given' = Given
  BY <1>2 DEF Given
<1>12. 1 .. next' - 1 = (1 .. next - 1) \cup {next}
  BY <1>2, <1>3, AsyncAssumption DEF Inputs
<1>13. ReliableOK'
  <2> SUFFICES ASSUME reliable PROVE ReliableOK'
    BY <1>2 DEF ReliableOK
  <2>1. 1 .. next' - 1 \subseteq ToSet(sent') \cup ToSet(received) \cup (1 .. nextOut - 1)
    BY <1>1, <1>2, <1>5, <1>12 DEF ReliableOK
  <2> QED
    BY <1>1, <1>2, <1>11, <2>1 DEF ReliableOK
<1>14. PlacesOK'
  <2> SUFFICES ASSUME ~reliable PROVE PlacesOK'
    BY <1>2 DEF PlacesOK
  <2>1. /\ \A i \in Inputs : OnePlace(i)
        /\ Once(inQ) /\ Once(workQ) /\ Once(received) /\ Once(Given)
        /\ \A u, v \in Busy : hold[u] = hold[v] => u = v
    BY <1>1 DEF PlacesOK
  <2>2. ~(next < next)
    BY <1>3, AsyncAssumption DEF Inputs
  <2>3. next \notin ToSet(inQ) /\ OnePlace(next)
    BY <1>3, <2>1, <2>2 DEF OnePlace
  <2>4. ASSUME NEW i \in Inputs PROVE i < next' <=> i < next \/ i = next
    BY <1>2, <1>3, AsyncAssumption DEF Inputs
  <2>5. ASSUME NEW i \in Inputs PROVE OnePlace(i)'
    BY <1>2, <1>4, <1>11, <2>1, <2>2, <2>3, <2>4, PoolKept DEF OnePlace
  <2> QED
    BY <1>2, <1>4, <1>11, <2>1, <2>3, <2>5, PoolKept DEF PlacesOK
<1>15. UnreliableOK'
  <2> SUFFICES ASSUME ~reliable PROVE UnreliableOK'
    BY <1>2 DEF UnreliableOK
  <2>1. Ending \in SUBSET Workers
    BY DEF Ending
  <2>2. Ending = {}
    <3>1. Cardinality(Ending) = 0
      BY <1>1, <1>2 DEF WorkersOK, UnreliableOK
    <3>2. IsFiniteSet(Ending)
      BY <2>1, CrewFinite
    <3> QED
      BY <3>1, <3>2, FS_EmptySet
  <2>3. \A k \in DOMAIN inQ' : inQ'[k] # EndSentinel
    BY <1>8 DEF ToSet
  <2> QED
    BY <1>1, <1>2, <2>2, <2>3, PoolKept DEF UnreliableOK
<1> QED
  BY <1>6, <1>7, <1>9, <1>10, <1>13, <1>14, <1>15 DEF AsyncIInv

\* The oldest message is sent again.
LEMMA ResendStep ==
    ASSUME AsyncIInv, Resend
    PROVE  AsyncIInv'
<1>1. /\ Types /\ EventsOK /\ WorkersOK /\ CallerOK /\ ReliableOK /\ PlacesOK /\ UnreliableOK
  BY DEF AsyncIInv
<1>2. PICK x, t : x = Head(sent) /\ t = Tail(sent)
  OBVIOUS
<1>3. /\ mpc = "loop" /\ evts = {"in"} /\ evts' = {} /\ ~CanSendNew
      /\ inQ' = Append(inQ, x) /\ sent' = Append(t, x)
      /\ UNCHANGED pool
      /\ UNCHANGED <<reliable, rooted, workQ, outQ, wpc, hold, crashes, mpc, next, received, nextOut, sentinels,
                     toSend, out, done>>
  BY <1>2 DEF Resend, Feed, pool, results, caller, mode
<1>4. reliable /\ sent # <<>>
  BY <1>1, <1>3 DEF EventsOK
<1>5. x \in Inputs /\ t \in Seq(Inputs) /\ ToSet(sent) = {x} \cup ToSet(t)
  BY <1>1, <1>2, <1>4, TailLaws DEF Types
<1>6. sent' \in Seq(Inputs) /\ ToSet(sent') = ToSet(sent)
  <2>1. Append(t, x) \in Seq(Inputs) /\ ToSet(Append(t, x)) = ToSet(t) \cup {x}
    BY <1>5, AppendLaws
  <2> QED
    BY <1>3, <1>5, <2>1
<1>7. /\ inQ' \in Seq(0 .. N) /\ ToSet(inQ') = ToSet(inQ) \cup {x} /\ x # EndSentinel
  <2>1. x \in 0 .. N /\ inQ \in Seq(0 .. N) /\ x # EndSentinel
    BY <1>1, <1>5, AsyncAssumption DEF Types, Inputs, EndSentinel
  <2>2. /\ Append(inQ, x) \in Seq(0 .. N) /\ ToSet(Append(inQ, x)) = ToSet(inQ) \cup {x}
    BY <2>1, QueueAppend
  <2> QED
    BY <1>3, <2>1, <2>2
<1>8. Types'
  BY <1>1, <1>3, <1>6, <1>7 DEF Types
<1>9. EventsOK'
  BY <1>3 DEF EventsOK
<1>10. WorkersOK'
  BY <1>1, <1>3, <1>7, PoolKept DEF WorkersOK
<1>11. CallerOK'
  BY <1>1, <1>3 DEF CallerOK
<1>12. Given' = Given
  BY <1>3 DEF Given
<1>13. ReliableOK'
  BY <1>1, <1>3, <1>6, <1>12 DEF ReliableOK
<1>14. PlacesOK' /\ UnreliableOK'
  BY <1>3, <1>4 DEF PlacesOK, UnreliableOK
<1> QED
  BY <1>8, <1>9, <1>10, <1>11, <1>13, <1>14 DEF AsyncIInv

\* The master's loop is over.
LEMMA LeaveStep ==
    ASSUME AsyncIInv, Leave
    PROVE  AsyncIInv'
<1>1. /\ Types /\ EventsOK /\ WorkersOK /\ CallerOK /\ ReliableOK /\ PlacesOK /\ UnreliableOK
  BY DEF AsyncIInv
<1>2. /\ mpc = "loop" /\ evts = {} /\ ~Looping /\ mpc' = "rest"
      /\ UNCHANGED pool
      /\ UNCHANGED <<reliable, rooted, inQ, workQ, outQ, wpc, hold, crashes, evts, next, sent, resends, received,
                     nextOut, sentinels, toSend, owed, out, done>>
  BY DEF Leave, queues, pool, stream, results, cleanup, caller, mode
<1>3. Types'
  BY <1>1, <1>2 DEF Types
<1>4. EventsOK' /\ CallerOK'
  BY <1>1, <1>2 DEF EventsOK, CallerOK
<1>5. WorkersOK'
  BY <1>1, <1>2, PoolKept DEF WorkersOK
<1>6. Given' = Given /\ AllCrashed' = AllCrashed /\ InputsRemain' = InputsRemain
  BY <1>2 DEF Given, AllCrashed, InputsRemain
<1>7. AllEnded => AllCrashed /\ reliable
  BY <1>1, <1>2, EndedAll
<1>8. ReliableOK'
  <2> SUFFICES ASSUME reliable PROVE ReliableOK'
    BY <1>2 DEF ReliableOK
  <2>1. (~InputsRemain /\ sent = <<>>) \/ AllCrashed
    BY <1>2, <1>7 DEF Looping
  <2> QED
    BY <1>1, <1>2, <1>6, <2>1 DEF ReliableOK
<1>9. PlacesOK'
  <2>1. \A i \in Inputs : OnePlace(i) => OnePlace(i)'
    BY <1>2, <1>6, PoolKept DEF OnePlace
  <2> QED
    BY <1>1, <1>2, <1>6, <2>1, PoolKept DEF PlacesOK
<1>10. UnreliableOK'
  <2> SUFFICES ASSUME ~reliable PROVE UnreliableOK'
    BY <1>2 DEF UnreliableOK
  <2>1. ~InputsRemain /\ received = <<>>
    BY <1>2, <1>7 DEF Looping
  <2> QED
    BY <1>1, <1>2, <1>6, <2>1, PoolKept DEF UnreliableOK
<1> QED
  BY <1>3, <1>4, <1>5, <1>8, <1>9, <1>10 DEF AsyncIInv

\* The results left that are next are put out, and then none is.
LEMMA PutRestStep ==
    ASSUME AsyncIInv, PutRest
    PROVE  AsyncIInv'
<1>1. /\ Types /\ EventsOK /\ WorkersOK /\ CallerOK /\ ReliableOK /\ PlacesOK /\ UnreliableOK
  BY DEF AsyncIInv
<1>2. /\ mpc = "rest" /\ evts = {}
      /\ UNCHANGED pool
      /\ UNCHANGED <<reliable, rooted, inQ, workQ, wpc, hold, crashes, evts, next, sent, sentinels, out, done>>
  BY <1>1 DEF PutRest, EventsOK, pool, stream, caller, mode
<1>3. EventsOK'
  BY <1>2 DEF EventsOK
<1>4. received \in Seq(Inputs) /\ ToSet(received) \in SUBSET Inputs
  BY <1>1, ToSetFinite DEF Types
<1>5. CASE reliable /\ nextOut \in ToSet(received)
  <2>1. /\ outQ' = Append(outQ, nextOut) /\ received' = Without(received, nextOut)
        /\ nextOut' = nextOut + 1 /\ UNCHANGED <<mpc, toSend>>
    BY <1>5 DEF PutRest
  <2>2. nextOut \in Inputs
    BY <1>4, <1>5
  <2>3. /\ Given \in Seq(Inputs) /\ outQ' \in Seq(0 .. N) /\ EndSentinel \notin ToSet(outQ')
        /\ Given' = Append(Given, nextOut)
    BY <1>1, <1>2, <2>1, <2>2, PutsOut
  <2>4. received' \in Seq(Inputs) /\ ToSet(received') = ToSet(received) \ {nextOut}
    <3>1. Inputs \in SUBSET (0 .. N)
      BY DEF Inputs
    <3>2. /\ Without(received, nextOut) \in Seq(Inputs \ {nextOut})
          /\ ToSet(Without(received, nextOut)) = ToSet(received) \ {nextOut}
      BY <1>4, <3>1, WithoutLaws
    <3> QED
      BY <2>1, <3>2
  <2>5. Types'
    BY <1>1, <1>2, <2>1, <2>3, <2>4 DEF Types
  <2>6. WorkersOK' /\ CallerOK'
    BY <1>1, <1>2, <2>1, <2>3, PoolKept DEF WorkersOK, CallerOK
  <2>7. Given' = [k \in 1 .. nextOut' - 1 |-> k] /\ nextOut' \in 1 .. N + 1
    <3>1. nextOut - 1 \in Nat /\ nextOut = (nextOut - 1) + 1 /\ nextOut + 1 = (nextOut - 1) + 2
      BY <2>2, AsyncAssumption DEF Inputs
    <3>2. Append([k \in 1 .. nextOut - 1 |-> k], nextOut) = [k \in 1 .. (nextOut + 1) - 1 |-> k]
      BY <3>1, CountUp
    <3>3. Given = [k \in 1 .. nextOut - 1 |-> k]
      BY <1>1, <1>5 DEF ReliableOK
    <3> QED
      BY <2>1, <2>2, <2>3, <3>2, <3>3, AsyncAssumption DEF Inputs
  <2>8. 1 .. next - 1 \subseteq ToSet(sent) \cup ToSet(received') \cup (1 .. nextOut' - 1)
    <3>1. 1 .. nextOut' - 1 = (1 .. nextOut - 1) \cup {nextOut}
      BY <2>1, <2>2, AsyncAssumption DEF Inputs
    <3> QED
      BY <1>1, <1>2, <1>5, <2>4, <3>1 DEF ReliableOK
  <2>9. ReliableOK'
    <3>1. (~InputsRemain /\ sent = <<>>) \/ AllCrashed
      BY <1>1, <1>2, <1>5 DEF ReliableOK
    <3>2. AllCrashed' = AllCrashed /\ InputsRemain' = InputsRemain
      BY <1>2 DEF AllCrashed, InputsRemain
    <3> QED
      BY <1>2, <2>1, <2>7, <2>8, <3>1, <3>2 DEF ReliableOK
  <2>10. PlacesOK' /\ UnreliableOK'
    BY <1>2, <1>5 DEF PlacesOK, UnreliableOK
  <2> QED
    BY <1>3, <2>5, <2>6, <2>9, <2>10 DEF AsyncIInv
<1>6. CASE ~(reliable /\ nextOut \in ToSet(received))
  <2>1. /\ mpc' = "clean" /\ toSend' = Cardinality(Workers) - sentinels
        /\ received' = <<>> /\ UNCHANGED <<outQ, nextOut>>
    BY <1>6 DEF PutRest
  <2>2. Types'
    <3>1. toSend' \in 0 .. Cardinality(Workers)
      BY <1>1, <2>1, SentinelsBound
    <3> QED
      BY <1>1, <1>2, <2>1, <3>1 DEF Types
  <2>3. WorkersOK' /\ CallerOK'
    BY <1>1, <1>2, <2>1, PoolKept DEF WorkersOK, CallerOK
  <2>4. Given' = Given /\ AllCrashed' = AllCrashed /\ InputsRemain' = InputsRemain
    BY <1>2, <2>1 DEF Given, AllCrashed, InputsRemain
  <2>5. ReliableOK'
    <3> SUFFICES ASSUME reliable PROVE ReliableOK'
      BY <1>2 DEF ReliableOK
    <3>1. /\ nextOut \in 1 .. N + 1
          /\ 1 .. next - 1 \subseteq ToSet(sent) \cup ToSet(received) \cup (1 .. nextOut - 1)
          /\ (~InputsRemain /\ sent = <<>>) \/ AllCrashed
      BY <1>1, <1>2 DEF ReliableOK
    <3>2. ASSUME ~InputsRemain, sent = <<>>, nextOut # N + 1
          PROVE  FALSE
      <4>1. next - 1 = N /\ nextOut \in 1 .. next - 1 /\ nextOut \notin 1 .. nextOut - 1
        BY <1>1, <3>1, <3>2, AsyncAssumption DEF InputsRemain, Types
      <4>2. ToSet(sent) = {}
        BY <3>2 DEF ToSet
      <4> QED
        BY <1>6, <3>1, <4>1, <4>2
    <3>3. nextOut = N + 1 \/ AllCrashed
      BY <3>1, <3>2
    <3> QED
      BY <1>1, <1>2, <2>1, <2>4, <3>1, <3>3 DEF ReliableOK
  <2>6. ASSUME ~reliable PROVE received' = received /\ ~InputsRemain
    BY <1>1, <1>2, <2>1, <2>6 DEF UnreliableOK
  <2>7. PlacesOK'
    <3> SUFFICES ASSUME ~reliable PROVE PlacesOK'
      BY <1>2 DEF PlacesOK
    <3>1. \A i \in Inputs : OnePlace(i) => OnePlace(i)'
      BY <1>2, <2>4, <2>6, PoolKept DEF OnePlace
    <3> QED
      BY <1>1, <1>2, <2>4, <2>6, <3>1, PoolKept DEF PlacesOK
  <2>8. UnreliableOK'
    BY <1>1, <1>2, <2>1, <2>4, <2>6, PoolKept DEF UnreliableOK
  <2> QED
    BY <1>3, <2>2, <2>3, <2>5, <2>7, <2>8 DEF AsyncIInv
<1> QED
  BY <1>5, <1>6

\* The clean-up takes what the workers still put.
LEMMA CleanGetStep ==
    ASSUME AsyncIInv, CleanGet
    PROVE  AsyncIInv'
<1>1. /\ Types /\ EventsOK /\ WorkersOK /\ CallerOK /\ ReliableOK /\ PlacesOK /\ UnreliableOK
  BY DEF AsyncIInv
<1>2. PICK x, q : x = Head(workQ) /\ q = Tail(workQ)
  OBVIOUS
<1>3. /\ mpc = "clean" /\ workQ # <<>> /\ workQ' = q
      /\ IF x = EndSentinel
         THEN sentinels' = sentinels + 1 /\ received' = received
         ELSE received' = Append(received, x) /\ sentinels' = sentinels
      /\ UNCHANGED pool
      /\ UNCHANGED <<reliable, rooted, inQ, outQ, wpc, hold, crashes, mpc, evts, next, sent, nextOut, toSend,
                     out, done>>
  BY <1>2 DEF CleanGet, pool, stream, caller, mode
<1>4. /\ x \in 0 .. N /\ q \in Seq(0 .. N) /\ ToSet(workQ) = {x} \cup ToSet(q)
      /\ Once(workQ) => Once(q) /\ (x = EndSentinel \/ x \notin ToSet(q))
  BY <1>1, <1>2, <1>3, TailLaws DEF Types
<1>5. ASSUME x # EndSentinel
      PROVE  /\ x \in Inputs /\ received' \in Seq(Inputs)
             /\ ToSet(received') = ToSet(received) \cup {x}
             /\ Once(received) /\ x \notin ToSet(received) => Once(received')
  <2>1. x \in Inputs /\ received \in Seq(Inputs)
    BY <1>1, <1>4, <1>5, AsyncAssumption DEF EndSentinel, Inputs, Types
  <2>2. /\ Append(received, x) \in Seq(Inputs) /\ ToSet(Append(received, x)) = ToSet(received) \cup {x}
        /\ Once(received) /\ x \notin ToSet(received) => Once(Append(received, x))
    BY <2>1, AppendLaws
  <2> QED
    BY <1>3, <1>5, <2>1, <2>2
<1>6. Types'
  <2>1. sentinels' \in Nat /\ received' \in Seq(Inputs)
    BY <1>1, <1>3, <1>5 DEF Types
  <2> QED
    BY <1>1, <1>3, <1>4, <2>1 DEF Types
<1>7. EventsOK' /\ CallerOK'
  BY <1>1, <1>3 DEF EventsOK, CallerOK
<1>8. WorkersOK'
  <2>1. SentinelsIn(workQ) = SentinelsIn(q) + IF x = EndSentinel THEN 1 ELSE 0
    BY <1>1, <1>2, <1>3, SentinelsLaws DEF Types
  <2>2. SentinelsIn(q) \in Nat /\ sentinels \in Nat
    BY <1>1, <1>4, SentinelsLaws DEF Types
  <2>3. sentinels + SentinelsIn(workQ) = Cardinality(Over)
    BY <1>1 DEF WorkersOK
  <2>4. sentinels' + SentinelsIn(workQ') = Cardinality(Over)
    BY <1>3, <2>1, <2>2, <2>3
  <2> QED
    BY <1>1, <1>3, <2>4, PoolKept DEF WorkersOK
<1>9. Given' = Given /\ AllCrashed' = AllCrashed /\ InputsRemain' = InputsRemain
  BY <1>3 DEF Given, AllCrashed, InputsRemain
<1>10. ReliableOK'
  BY <1>1, <1>3, <1>9 DEF ReliableOK
<1>11. PlacesOK'
  <2> SUFFICES ASSUME ~reliable PROVE PlacesOK'
    BY <1>3 DEF PlacesOK
  <2>1. /\ \A i \in Inputs : OnePlace(i)
        /\ Once(inQ) /\ Once(workQ) /\ Once(received) /\ Once(Given)
        /\ \A u, v \in Busy : hold[u] = hold[v] => u = v
    BY <1>1 DEF PlacesOK
  <2>2. ASSUME NEW i \in Inputs
        PROVE  /\ i \in ToSet(workQ) <=> i = x \/ i \in ToSet(q)
               /\ i \in ToSet(received') <=> i = x \/ i \in ToSet(received)
               /\ i = x => i \notin ToSet(q)
    <3>1. i # EndSentinel
      BY AsyncAssumption DEF Inputs, EndSentinel
    <3> QED
      BY <1>3, <1>4, <1>5, <2>1, <3>1
  <2>3. ASSUME NEW i \in Inputs PROVE OnePlace(i)'
    BY <1>3, <1>9, <2>1, <2>2, PoolKept DEF OnePlace
  <2>4. Once(received')
    <3>1. x # EndSentinel => x \notin ToSet(received)
      BY <1>4, <1>5, <2>1 DEF OnePlace
    <3> QED
      BY <1>3, <1>5, <2>1, <3>1
  <2> QED
    BY <1>3, <1>4, <1>9, <2>1, <2>3, <2>4, PoolKept DEF PlacesOK
<1>12. UnreliableOK'
  BY <1>1, <1>3, <1>9, PoolKept DEF UnreliableOK
<1> QED
  BY <1>6, <1>7, <1>8, <1>10, <1>11, <1>12 DEF AsyncIInv

\* The clean-up puts a sentinel behind everything that was sent.
LEMMA CleanPutStep ==
    ASSUME AsyncIInv, CleanPut
    PROVE  AsyncIInv'
<1>1. /\ Types /\ EventsOK /\ WorkersOK /\ CallerOK /\ ReliableOK /\ PlacesOK /\ UnreliableOK
  BY DEF AsyncIInv
<1>2. PICK q : q = Append(inQ, EndSentinel)
  OBVIOUS
<1>3. /\ mpc = "clean" /\ inQ' = q /\ toSend > 0 /\ toSend' = toSend - 1
      /\ UNCHANGED pool
      /\ UNCHANGED <<reliable, rooted, workQ, outQ, wpc, hold, crashes, mpc, evts, next, sent, received, nextOut,
                     sentinels, out, done>>
  BY <1>2 DEF CleanPut, pool, stream, results, caller, mode
<1>4. /\ q \in Seq(0 .. N) /\ ToSet(q) = ToSet(inQ) \cup {EndSentinel}
      /\ Once(inQ) => Once(q)
  <2>1. inQ \in Seq(0 .. N) /\ EndSentinel \in 0 .. N
    BY <1>1, AsyncAssumption DEF Types, EndSentinel
  <2>2. /\ Append(inQ, EndSentinel) \in Seq(0 .. N)
        /\ ToSet(Append(inQ, EndSentinel)) = ToSet(inQ) \cup {EndSentinel}
        /\ Once(inQ) => Once(Append(inQ, EndSentinel))
    BY <2>1, QueueAppend
  <2> QED
    BY <1>2, <2>2
<1>5. Types'
  <2>1. toSend' \in 0 .. Cardinality(Workers)
    BY <1>1, <1>3, AsyncAssumption, FS_CardinalityType DEF Types
  <2> QED
    BY <1>1, <1>3, <1>4, <2>1 DEF Types
<1>6. EventsOK' /\ CallerOK'
  BY <1>1, <1>3 DEF EventsOK, CallerOK
<1>7. WorkersOK'
  BY <1>1, <1>3, PoolKept DEF WorkersOK
<1>8. Given' = Given /\ AllCrashed' = AllCrashed /\ InputsRemain' = InputsRemain
  BY <1>3 DEF Given, AllCrashed, InputsRemain
<1>9. ReliableOK'
  BY <1>1, <1>3, <1>8 DEF ReliableOK
<1>10. PlacesOK'
  <2> SUFFICES ASSUME ~reliable PROVE PlacesOK'
    BY <1>3 DEF PlacesOK
  <2>1. ASSUME NEW i \in Inputs PROVE i \in ToSet(q) <=> i \in ToSet(inQ)
    BY <1>4, AsyncAssumption DEF Inputs, EndSentinel
  <2>2. \A i \in Inputs : OnePlace(i) => OnePlace(i)'
    BY <1>3, <1>8, <2>1, PoolKept DEF OnePlace
  <2> QED
    BY <1>1, <1>3, <1>4, <1>8, <2>2, PoolKept DEF PlacesOK
<1>11. UnreliableOK'
  <2> SUFFICES ASSUME ~reliable PROVE UnreliableOK'
    BY <1>3 DEF UnreliableOK
  <2>1. \A k, l \in DOMAIN inQ : k < l /\ inQ[k] = EndSentinel => inQ[l] = EndSentinel
    BY <1>1 DEF UnreliableOK
  <2>2. /\ Len(inQ) \in Nat /\ DOMAIN inQ = 1 .. Len(inQ) /\ DOMAIN q = 1 .. Len(inQ) + 1
        /\ q[Len(inQ) + 1] = EndSentinel /\ \A k \in 1 .. Len(inQ) : q[k] = inQ[k]
    BY <1>1, <1>2 DEF Types
  <2>3. \A k, l \in DOMAIN q : k < l /\ q[k] = EndSentinel => q[l] = EndSentinel
    BY <2>1, <2>2
  <2>4. Ending # {} => ToSet(q) \subseteq {EndSentinel}
    BY <1>1, <1>4 DEF UnreliableOK
  <2> QED
    BY <1>1, <1>3, <1>8, <2>3, <2>4, PoolKept DEF UnreliableOK
<1> QED
  BY <1>5, <1>6, <1>7, <1>9, <1>10, <1>11 DEF AsyncIInv

\* The clean-up is over, or fails.
LEMMA CleanedStep ==
    ASSUME AsyncIInv, Cleaned \/ GiveUp
    PROVE  AsyncIInv'
<1>1. /\ Types /\ EventsOK /\ WorkersOK /\ CallerOK /\ ReliableOK /\ PlacesOK /\ UnreliableOK
  BY DEF AsyncIInv
<1>2. /\ mpc = "clean" /\ mpc' \in {"last", "failed"}
      /\ mpc' = "last" => AllEnded /\ workQ = <<>> /\ received' = (IF reliable THEN <<>> ELSE received)
      /\ ~reliable => received' = received
      /\ received' \in {<<>>, received}
      /\ UNCHANGED pool
      /\ UNCHANGED <<reliable, rooted, inQ, workQ, outQ, wpc, hold, crashes, evts, next, sent, nextOut, sentinels,
                     toSend, out, done>>
  BY DEF Cleaned, GiveUp, queues, pool, stream, results, cleanup, caller, mode
<1>3. Types'
  <2>1. received' \in Seq(Inputs)
    <3>1. received \in Seq(Inputs) /\ <<>> \in Seq(Inputs)
      BY <1>1 DEF Types
    <3> QED
      BY <1>2, <3>1
  <2> QED
    BY <1>1, <1>2, <2>1 DEF Types
<1>4. EventsOK' /\ CallerOK'
  BY <1>1, <1>2 DEF EventsOK, CallerOK
<1>5. WorkersOK'
  BY <1>1, <1>2, PoolKept DEF WorkersOK
<1>6. Given' = Given /\ AllCrashed' = AllCrashed /\ InputsRemain' = InputsRemain
  BY <1>2 DEF Given, AllCrashed, InputsRemain
<1>7. ReliableOK'
  BY <1>1, <1>2, <1>6 DEF ReliableOK
<1>8. PlacesOK'
  <2> SUFFICES ASSUME ~reliable PROVE PlacesOK'
    BY <1>2 DEF PlacesOK
  <2>1. \A i \in Inputs : OnePlace(i) => OnePlace(i)'
    BY <1>2, <1>6, PoolKept DEF OnePlace
  <2> QED
    BY <1>1, <1>2, <1>6, <2>1, PoolKept DEF PlacesOK
<1>9. UnreliableOK'
  <2> SUFFICES ASSUME ~reliable PROVE UnreliableOK'
    BY <1>2 DEF UnreliableOK
  <2>1. mpc' = "last" => Over = Workers /\ ToSet(inQ) \subseteq {EndSentinel} /\ workQ = <<>>
    BY <1>1, <1>2, EndedAll DEF UnreliableOK
  <2> QED
    BY <1>1, <1>2, <1>6, <2>1, PoolKept DEF UnreliableOK
<1> QED
  BY <1>3, <1>4, <1>5, <1>7, <1>8, <1>9 DEF AsyncIInv

\* What the clean-up returned is put out, and the caller's sentinel.
LEMMA PutLastStep ==
    ASSUME AsyncIInv, PutLast
    PROVE  AsyncIInv'
<1>1. /\ Types /\ EventsOK /\ WorkersOK /\ CallerOK /\ ReliableOK /\ PlacesOK /\ UnreliableOK
  BY DEF AsyncIInv
<1>2. /\ mpc = "last"
      /\ UNCHANGED pool
      /\ UNCHANGED <<reliable, rooted, inQ, workQ, wpc, hold, crashes, evts, next, sent, nextOut, sentinels,
                     toSend, out, done>>
  BY DEF PutLast, pool, stream, cleanup, caller, mode
<1>3. AllCrashed' = AllCrashed /\ InputsRemain' = InputsRemain
  BY <1>2 DEF AllCrashed, InputsRemain
<1>4. CASE received # <<>>
  <2>1. PICK r, q : r = Head(received) /\ q = Tail(received)
    OBVIOUS
  <2>2. outQ' = Append(outQ, r) /\ received' = q /\ mpc' = mpc
    BY <1>4, <2>1 DEF PutLast
  <2>3. ~reliable
    BY <1>1, <1>2, <1>4 DEF ReliableOK
  <2>4. /\ r \in Inputs /\ q \in Seq(Inputs) /\ ToSet(received) = {r} \cup ToSet(q)
        /\ Once(received) => Once(q) /\ (r = EndSentinel \/ r \notin ToSet(q))
    BY <1>1, <1>4, <2>1, TailLaws DEF Types
  <2>5. /\ Given \in Seq(Inputs) /\ outQ' \in Seq(0 .. N) /\ EndSentinel \notin ToSet(outQ')
        /\ Given' = Append(Given, r)
    BY <1>1, <1>2, <2>2, <2>4, PutsOut
  <2>6. Types'
    BY <1>1, <1>2, <2>2, <2>4, <2>5 DEF Types
  <2>7. EventsOK' /\ CallerOK' /\ WorkersOK'
    BY <1>1, <1>2, <2>2, <2>5, PoolKept DEF EventsOK, CallerOK, WorkersOK
  <2>8. ReliableOK'
    BY <1>2, <2>3 DEF ReliableOK
  <2>9. PlacesOK'
    <3>1. Once(received) /\ r # EndSentinel
      BY <1>1, <2>3, <2>4, AsyncAssumption DEF PlacesOK, Inputs, EndSentinel
    <3>2. ToSet(received') = ToSet(received) \ {r} /\ r \in ToSet(received) /\ Once(received')
      BY <2>2, <2>4, <3>1
    <3>3. Busy' = Busy /\ UNCHANGED <<reliable, inQ, workQ, hold, next>>
      BY <1>2, PoolKept
    <3> QED
      BY <1>1, <2>3, <2>4, <2>5, <3>2, <3>3, Gives
  <2>10. UnreliableOK'
    BY <1>1, <1>2, <1>3, <2>2, PoolKept DEF UnreliableOK
  <2> QED
    BY <2>6, <2>7, <2>8, <2>9, <2>10 DEF AsyncIInv
<1>5. CASE received = <<>>
  <2>1. outQ' = Append(outQ, EndSentinel) /\ received' = received /\ mpc' = "ended"
    BY <1>5 DEF PutLast
  <2>2. outQ \in Seq(0 .. N) /\ out \in Seq(Inputs) /\ EndSentinel \in 0 .. N
    BY <1>1, AsyncAssumption DEF Types, EndSentinel
  <2>3. outQ' \in Seq(0 .. N) /\ EndSentinel \in ToSet(outQ')
    <3>1. /\ Append(outQ, EndSentinel) \in Seq(0 .. N)
          /\ ToSet(Append(outQ, EndSentinel)) = ToSet(outQ) \cup {EndSentinel}
      BY <2>2, QueueAppend
    <3> QED
      BY <2>1, <3>1
  <2>4. Given' = Given
    BY <1>2, <2>1, <2>2, GivenLaws DEF Given
  <2>5. Types'
    BY <1>1, <1>2, <2>1, <2>3 DEF Types
  <2>6. EventsOK' /\ CallerOK' /\ WorkersOK'
    BY <1>1, <1>2, <2>1, <2>3, PoolKept DEF EventsOK, CallerOK, WorkersOK
  <2>7. ReliableOK'
    BY <1>1, <1>2, <1>3, <1>5, <2>1, <2>4 DEF ReliableOK
  <2>8. PlacesOK'
    <3>1. \A i \in Inputs : OnePlace(i) => OnePlace(i)'
      BY <1>2, <2>1, <2>4, PoolKept DEF OnePlace
    <3> QED
      BY <1>1, <1>2, <2>1, <2>4, <3>1, PoolKept DEF PlacesOK
  <2>9. UnreliableOK'
    BY <1>1, <1>2, <1>3, <1>5, <2>1, PoolKept DEF UnreliableOK
  <2> QED
    BY <2>5, <2>6, <2>7, <2>8, <2>9 DEF AsyncIInv
<1> QED
  BY <1>4, <1>5

----------------------------------------------------------------------------
(* The inductive invariant: the caller, and the theorems. *)

LEMMA YieldStep ==
    ASSUME AsyncIInv, Yield
    PROVE  AsyncIInv'
<1>1. /\ Types /\ EventsOK /\ WorkersOK /\ CallerOK /\ ReliableOK /\ PlacesOK /\ UnreliableOK
  BY DEF AsyncIInv
<1>2. /\ ~done /\ outQ' = <<>> /\ out' = Given /\ done' = (EndSentinel \in ToSet(outQ))
      /\ UNCHANGED pool
      /\ UNCHANGED <<reliable, rooted, inQ, workQ, wpc, hold, crashes, mpc, evts, next, sent, received, nextOut,
                     sentinels, toSend>>
  BY DEF Yield, Given, pool, stream, results, cleanup, mode
<1>3. out \in Seq(Inputs) /\ outQ \in Seq(0 .. N) /\ <<>> \in Seq(0 .. N)
  BY <1>1 DEF Types
<1>4. Given \in Seq(Inputs)
  BY <1>3, GivenLaws DEF Given
<1>5. Given' = Given
  <2>1. \A o \in Seq(Inputs) : o \o Without(<<>>, EndSentinel) = o
    BY <1>3, GivenLaws
  <2> QED
    BY <1>2, <1>4, <2>1 DEF Given
<1>6. Types'
  BY <1>1, <1>2, <1>3, <1>4 DEF Types
<1>7. EventsOK'
  BY <1>1, <1>2, EventsKept
<1>8. WorkersOK'
  BY <1>1, <1>2, PoolKept DEF WorkersOK
<1>9. CallerOK'
  <2>1. ToSet(outQ') = {}
    BY <1>2 DEF ToSet
  <2> QED
    BY <1>1, <1>2, <2>1 DEF CallerOK
<1>10. AllCrashed' = AllCrashed /\ InputsRemain' = InputsRemain
  BY <1>2 DEF AllCrashed, InputsRemain
<1>11. ReliableOK'
  BY <1>1, <1>2, <1>5, <1>10 DEF ReliableOK
<1>12. PlacesOK'
  <2>1. \A i \in Inputs : OnePlace(i) => OnePlace(i)'
    BY <1>2, <1>5, PoolKept DEF OnePlace
  <2> QED
    BY <1>1, <1>2, <1>5, <2>1, PoolKept DEF PlacesOK
<1>13. UnreliableOK'
  BY <1>1, <1>2, <1>10, PoolKept DEF UnreliableOK
<1> QED
  BY <1>6, <1>7, <1>8, <1>9, <1>11, <1>12, <1>13 DEF AsyncIInv

LEMMA AsyncStutter == AsyncIInv /\ UNCHANGED vars => AsyncIInv'
<1> SUFFICES ASSUME AsyncIInv, UNCHANGED vars PROVE AsyncIInv'
  OBVIOUS
<1>1. /\ Types /\ EventsOK /\ WorkersOK /\ CallerOK /\ ReliableOK /\ PlacesOK /\ UnreliableOK
  BY DEF AsyncIInv
<1>2. /\ UNCHANGED <<reliable, rooted, inQ, workQ, outQ, wpc, hold, crashes, mpc, evts, next, sent, resends,
                     received, nextOut, sentinels, toSend, owed, out, done>>
      /\ UNCHANGED pool
  BY DEF vars, queues, pool, stream, results, cleanup, caller, mode
<1>3. Types'
  BY <1>1, <1>2 DEF Types
<1>4. WorkersOK' /\ PlacesOK' /\ UnreliableOK'
  BY <1>1, <1>2, PoolKept, CrewKept
<1> QED
  BY <1>1, <1>2, <1>3, <1>4, EventsKept, CallerKept, ReliableKept DEF AsyncIInv

LEMMA AsyncStep == AsyncIInv /\ [Next]_vars => AsyncIInv'
<1>1. ASSUME AsyncIInv, NEW w \in Workers, WorkerStep(w) PROVE AsyncIInv'
  BY <1>1, GetStep, CallStep, RaiseStep, PutStep DEF WorkerStep
<1>2. ASSUME AsyncIInv, MasterStep PROVE AsyncIInv'
  BY <1>2, PollStep, PutOutStep, ReceiveStep, SendStep, ResendStep, LeaveStep, PutRestStep,
     CleanGetStep, CleanPutStep, CleanedStep, PutLastStep DEF MasterStep
<1> QED
  BY <1>1, <1>2, CleanedStep, YieldStep, AsyncStutter DEF Next

LEMMA AsyncInvariant == Spec => []AsyncIInv
  BY AsyncInit, AsyncStep, PTL DEF Spec

\* Every variable keeps its type, whatever the number of inputs and of workers.
THEOREM AsyncTypesAlways == Spec => []TypeOK
<1>1. AsyncIInv => TypeOK
  <2> SUFFICES ASSUME AsyncIInv PROVE TypeOK
    OBVIOUS
  <2>1. Types /\ sentinels \in 0 .. Cardinality(Workers)
    BY SentinelsBound DEF AsyncIInv
  <2>2. \A w \in Workers : hold[w] \in 0 .. N
    BY <2>1 DEF Types
  <2> QED
    BY <2>1, <2>2 DEF Types, TypeOK, Inputs
<1> QED
  BY <1>1, AsyncInvariant, PTL

\* The reliable mode yields the results in the order of the inputs, however often a message
\* is sent again and answered late or twice, and neither mode yields a result twice
\* (_generate_results puts out by next_out and drops what is awaited no more).
THEOREM YieldsInOrderAlways == Spec => []YieldsInOrder
<1>1. AsyncIInv => YieldsInOrder
  <2> SUFFICES ASSUME AsyncIInv PROVE YieldsInOrder
    OBVIOUS
  <2>1. /\ Types /\ ReliableOK /\ PlacesOK
    BY DEF AsyncIInv
  <2>2. PICK r : r = Without(outQ, EndSentinel)
    OBVIOUS
  <2>3. out \in Seq(Inputs) /\ r \in Seq(Inputs) /\ Given = out \o r
    <3>1. outQ \in Seq(0 .. N) /\ out \in Seq(Inputs)
      BY <2>1 DEF Types
    <3>2. PICK A : A = 0 .. N
      OBVIOUS
    <3>3. r \in Seq(A \ {EndSentinel})
      BY <2>2, <3>1, <3>2, WithoutLaws
    <3>4. A \ {EndSentinel} = Inputs
      BY <3>2, AsyncAssumption DEF EndSentinel, Inputs
    <3> QED
      BY <2>2, <3>1, <3>3, <3>4 DEF Given
  <2>4. \A k \in DOMAIN out : k \in DOMAIN Given /\ Given[k] = out[k] /\ out[k] \in Inputs
    BY <2>3
  <2>5. CASE reliable
    <3>1. Given = [k \in 1 .. nextOut - 1 |-> k]
      BY <2>1, <2>5 DEF ReliableOK
    <3>2. \A k \in DOMAIN out : out[k] = k
      BY <2>4, <3>1
    <3> QED
      BY <3>2 DEF YieldsInOrder, IsInjective
  <2>6. CASE ~reliable
    <3>1. Once(Given)
      BY <2>1, <2>6 DEF PlacesOK
    <3>2. \A k \in DOMAIN out : Given[k] # EndSentinel
      BY <2>4, AsyncAssumption DEF Inputs, EndSentinel
    <3>3. \A k, l \in DOMAIN out : out[k] = out[l] => k = l
      BY <2>4, <3>1, <3>2 DEF Once
    <3> QED
      BY <2>6, <3>3 DEF YieldsInOrder, IsInjective
  <2> QED
    BY <2>1, <2>5, <2>6 DEF Types
<1> QED
  BY <1>1, AsyncInvariant, PTL

\* A caller whose loop ends by itself has a result of every input, unless every thread has
\* died of an exception (the clean-up, and what it returns to _generate_results_unreliable).
THEOREM EndMeansAllAlways == Spec => []EndMeansAll
<1>1. AsyncIInv => EndMeansAll
  <2> SUFFICES ASSUME AsyncIInv, done PROVE ToSet(out) = 1 .. N \/ (AllCrashed /\ reliable)
    BY DEF EndMeansAll, AllCrashed
  <2>1. /\ Types /\ WorkersOK /\ CallerOK /\ ReliableOK /\ PlacesOK /\ UnreliableOK
    BY DEF AsyncIInv
  <2>2. mpc = "ended" /\ outQ = <<>>
    BY <2>1 DEF CallerOK
  <2>3. out \in Seq(Inputs) /\ Given = out
    <3>1. out \in Seq(Inputs) /\ <<>> \in Seq(0 .. N)
      BY <2>1 DEF Types
    <3> QED
      BY <2>2, <3>1, GivenLaws DEF Given
  <2>4. CASE reliable /\ ~AllCrashed
    <3>1. out = [k \in 1 .. N |-> k]
      BY <2>1, <2>2, <2>3, <2>4, AsyncAssumption DEF ReliableOK
    <3> QED
      BY <3>1 DEF ToSet
  <2>5. CASE ~reliable
    <3>1. /\ ~InputsRemain /\ ToSet(inQ) \subseteq {EndSentinel} /\ workQ = <<>>
          /\ Over = Workers /\ received = <<>>
      BY <2>1, <2>2, <2>5 DEF UnreliableOK
    <3>2. Busy = {}
      BY <3>1 DEF Over, Busy
    <3>3. ASSUME NEW i \in Inputs PROVE i \in ToSet(out)
      <4>1. i < next /\ i # EndSentinel
        BY <2>1, <3>1, AsyncAssumption DEF InputsRemain, Inputs, Types, EndSentinel
      <4>2. OnePlace(i)
        BY <2>1, <2>5 DEF PlacesOK
      <4>3. i \notin ToSet(inQ) /\ i \notin ToSet(workQ) /\ i \notin ToSet(received)
        BY <3>1, <4>1 DEF ToSet
      <4> QED
        BY <2>3, <3>2, <4>1, <4>2, <4>3 DEF OnePlace
    <3>4. ToSet(out) \in SUBSET Inputs
      BY <2>3, ToSetFinite
    <3> QED
      BY <3>3, <3>4 DEF Inputs
  <2> QED
    BY <2>1, <2>4, <2>5 DEF Types
<1> QED
  BY <1>1, AsyncInvariant, PTL

----------------------------------------------------------------------------
(* Sequences, sets and functions, as frames and their places in streams need them. *)

\* Two sequences that agree are the same; and with two behind each other.
LEMMA SameSeq ==
    ASSUME NEW A, NEW B, NEW a \in Seq(A), NEW b \in Seq(B), Len(a) = Len(b), \A k \in 1 .. Len(a) : a[k] = b[k]
    PROVE  a = b
OBVIOUS

\* A sequence that agrees with two behind each other is their concatenation.
LEMMA SameConcat ==
    ASSUME NEW A, NEW a \in Seq(A), NEW b \in Seq(A), NEW c \in Seq(A), Len(c) = Len(a) + Len(b),
           \A k \in 1 .. Len(a) : c[k] = a[k],
           \A k \in 1 .. Len(b) : c[Len(a) + k] = b[k]
    PROVE  c = a \o b
<1> DEFINE d == a \o b
<1>1. /\ d \in Seq(A) /\ Len(d) = Len(a) + Len(b) /\ Len(a) \in Nat /\ Len(b) \in Nat
      /\ \A i \in 1 .. Len(a) + Len(b) : d[i] = IF i <= Len(a) THEN a[i] ELSE b[i - Len(a)]
  BY ConcatProperties
<1> HIDE DEF d
<1>2. \A i \in 1 .. Len(c) : c[i] = d[i]
  <2> SUFFICES ASSUME NEW i \in 1 .. Len(c) PROVE c[i] = d[i]
    OBVIOUS
  <2>1. CASE i <= Len(a)
    BY <1>1, <2>1
  <2>2. CASE ~ (i <= Len(a))
    <3>1. PICK k : k = i - Len(a)
      OBVIOUS
    <3>2. k \in 1 .. Len(b) /\ i = Len(a) + k
      BY <1>1, <2>2, <3>1
    <3>3. c[Len(a) + k] = b[k]
      BY <3>2
    <3> QED
      BY <1>1, <2>2, <3>1, <3>2, <3>3
  <2> QED
    BY <2>1, <2>2
<1> QED
  BY <1>1, <1>2, SameSeq DEF d

----------------------------------------------------------------------------
(* Sets of places, in order. *)

\* A set of numbers within bounds has a least and a greatest member.
LEMMA PlaceExtremes ==
    ASSUME NEW n \in Nat, NEW S \in SUBSET (1 .. n), S # {}
    PROVE  /\ \E i \in S : \A j \in S : i <= j
           /\ \E i \in S : \A j \in S : j <= i
<1> S \subseteq Nat
  OBVIOUS
<1>1. PICK x \in S : \A y \in S : <<y, x>> \notin OpToRel(<, Nat)
  BY NatLessThanWellFounded, WFMin
<1>2. \A y \in S : ~ (y < x)
  BY <1>1 DEF OpToRel
<1> DEFINE D == {n - i : i \in S}
<1>3. D \subseteq Nat /\ D # {}
  <2>1. \A i \in S : i \in 1 .. n /\ n - i \in Nat
    OBVIOUS
  <2> QED
    BY <2>1
<1>4. PICK z \in D : \A y \in D : <<y, z>> \notin OpToRel(<, Nat)
  BY <1>3, NatLessThanWellFounded, WFMin
<1>5. \A y \in D : ~ (y < z)
  BY <1>3, <1>4 DEF OpToRel
<1>6. PICK i \in S : z = n - i
  BY <1>4
<1>7. \A j \in S : ~ (n - j < n - i)
  BY <1>5, <1>6
<1> QED
  BY <1>2, <1>7

\* A property of every value of a function, from one place to the next.
LEMMA FromPlaceToPlace ==
    ASSUME NEW lo \in Int, NEW hi \in Int, NEW A, NEW g, g[lo] \in A[lo],
           \A k \in lo + 1 .. hi : g[k - 1] \in A[k - 1] => g[k] \in A[k]
    PROVE  \A k \in lo .. hi : g[k] \in A[k]
<1> SUFFICES ASSUME NEW k0 \in lo .. hi, g[k0] \notin A[k0] PROVE FALSE
  OBVIOUS
<1> DEFINE S == {m \in 1 .. hi - lo : g[lo + m] \notin A[lo + m]}
<1>1. k0 - lo \in S /\ hi - lo \in Nat /\ S \in SUBSET (1 .. hi - lo)
  <2>1. k0 # lo
    OBVIOUS
  <2>2. PICK m : m = k0 - lo
    OBVIOUS
  <2>3. m \in 1 .. hi - lo /\ lo + m = k0
    BY <2>1, <2>2
  <2>4. m \in S
    BY <2>3
  <2> QED
    BY <2>2, <2>3, <2>4
<1>2. PICK m \in S : \A l \in S : m <= l
  <2> HIDE DEF S
  <2>1. PICK size \in Nat : size = hi - lo
    BY <1>1
  <2> QED
    BY <1>1, <2>1, PlaceExtremes
<1>3. PICK k : k = lo + m
  OBVIOUS
<1>4. k \in lo + 1 .. hi /\ g[k] \notin A[k]
  BY <1>2, <1>3
<1>5. g[k - 1] \notin A[k - 1]
  BY <1>4
<1>6. m - 1 \notin S
  BY <1>1, <1>2
<1>7. m \in 1 .. hi - lo /\ k - 1 = lo + (m - 1)
  BY <1>2, <1>3
<1>8. m - 1 \notin 1 .. hi - lo
  BY <1>5, <1>6, <1>7
<1>9. k - 1 = lo
  BY <1>7, <1>8
<1> QED
  BY <1>5, <1>9

\* What is defined by recursion from one place to the next exists.
Defined(f, lo, hi, a, step, A) == /\ f = [k \in lo .. hi |-> IF k = lo THEN a ELSE step[k][f[k - 1]]]
                                  /\ \A k \in lo .. hi : f[k] \in A[k]

\* Step by step a function that is defined by recursion takes values of the sets given for them.
LEMMA Recursion ==
    ASSUME NEW lo \in Int, NEW hi \in Int, lo <= hi, NEW A, NEW a \in A[lo], NEW step,
           \A k \in lo + 1 .. hi : \A x \in A[k - 1] : step[k][x] \in A[k]
    PROVE  \E f : Defined(f, lo, hi, a, step, A)
<1> DEFINE Good(f, m) == /\ f = [k \in lo .. lo + m |-> IF k = lo THEN a ELSE step[k][f[k - 1]]]
                         /\ \A k \in lo .. lo + m : f[k] \in A[k]
           S == {m \in 1 .. hi - lo : ~ \E f : Good(f, m)}
<1>1. hi - lo \in Nat /\ S \in SUBSET (1 .. hi - lo)
  OBVIOUS
<1>2. \E f : Good(f, 0)
  <2> DEFINE f0 == [k \in lo .. lo + 0 |-> a]
  <2>1. Good(f0, 0)
    OBVIOUS
  <2> HIDE DEF Good, f0
  <2> QED
    BY <2>1
<1>3. S = {}
  <2> SUFFICES ASSUME S # {} PROVE FALSE
    OBVIOUS
  <2>1. PICK m \in S : \A l \in S : m <= l
    <3> HIDE DEF S
    <3>1. PICK size \in Nat : size = hi - lo
      BY <1>1
    <3> QED
      BY <1>1, <3>1, PlaceExtremes
  <2>2. m \in 1 .. hi - lo /\ ~ \E f : Good(f, m)
    BY <2>1
  <2>3. PICK l : l = m - 1
    OBVIOUS
  <2>4. l \in 0 .. hi - lo /\ m = l + 1 /\ l \notin S
    BY <1>1, <2>1, <2>2, <2>3
  <2>5. \E f : Good(f, l)
    <3>1. CASE l = 0
      BY <1>2, <3>1
    <3>2. CASE l # 0
      <4>1. l \in 1 .. hi - lo
        BY <2>4, <3>2
      <4> HIDE DEF Good
      <4> QED
        BY <2>4, <4>1
    <3> QED
      BY <3>1, <3>2
  <2>6. PICK f : Good(f, l)
    BY <2>5
  <2> DEFINE top == lo + m
             g == [k \in lo .. top |-> IF k = top THEN step[top][f[top - 1]] ELSE f[k]]
  <2>7. /\ top \in lo + 1 .. hi /\ top - 1 = lo + l /\ top - 1 \in lo .. lo + l
        /\ \A k \in lo .. top : k # top => k \in lo .. lo + l
        /\ \A k \in lo .. lo + l : k # top /\ k \in lo .. top /\ (k # lo => k - 1 \in lo .. lo + l)
        /\ lo # top
    BY <2>2, <2>4
  <2>8. /\ \A k \in lo .. lo + l : f[k] = (IF k = lo THEN a ELSE step[k][f[k - 1]])
        /\ \A k \in lo .. lo + l : f[k] \in A[k]
    <3>1. f = [k \in lo .. lo + l |-> IF k = lo THEN a ELSE step[k][f[k - 1]]]
      BY <2>6
    <3> QED
      BY <2>6, <3>1
  <2>9. step[top][f[top - 1]] \in A[top]
    BY <2>7, <2>8
  <2> HIDE DEF top
  <2>10. \A k \in lo .. lo + l : g[k] = f[k]
    BY <2>7
  <2>11. g[top] = step[top][f[top - 1]] /\ DOMAIN g = lo .. top /\ g = [k \in lo .. top |-> g[k]]
    <3>1. top \in lo .. top
      BY <2>7 DEF top
    <3> QED
      BY <3>1
  <2> HIDE DEF g
  <2>12. \A k \in lo .. top : g[k] \in A[k]
    BY <2>7, <2>8, <2>9, <2>10, <2>11
  <2>13. \A k \in lo .. top : g[k] = IF k = lo THEN a ELSE step[k][g[k - 1]]
    <3> SUFFICES ASSUME NEW k \in lo .. top PROVE g[k] = IF k = lo THEN a ELSE step[k][g[k - 1]]
      OBVIOUS
    <3>1. CASE k = top
      <4>1. g[top - 1] = f[top - 1]
        BY <2>7, <2>10
      <4> QED
        BY <2>7, <2>11, <3>1, <4>1
    <3>2. CASE k # top
      <4>1. k \in lo .. lo + l
        BY <2>7, <3>2
      <4>2. k # lo => g[k - 1] = f[k - 1]
        BY <2>7, <2>10, <4>1
      <4> QED
        BY <2>8, <2>10, <4>1, <4>2
    <3> QED
      BY <3>1, <3>2
  <2>14. g = [k \in lo .. top |-> IF k = lo THEN a ELSE step[k][g[k - 1]]]
    BY <2>11, <2>13
  <2>15. Good(g, m)
    BY <2>12, <2>14 DEF top
  <2> HIDE DEF Good
  <2> QED
    BY <2>2, <2>15
<1>4. \E f : Good(f, hi - lo)
  <2> HIDE DEF Good
  <2>1. CASE hi = lo
    BY <1>2, <2>1
  <2>2. CASE hi # lo
    <3>1. hi - lo \in 1 .. hi - lo
      BY <2>2
    <3> QED
      BY <1>3, <3>1
  <2> QED
    BY <2>1, <2>2
<1>5. lo + (hi - lo) = hi
  OBVIOUS
<1> QED
  BY <1>4, <1>5 DEF Defined

\* How many members a set has up to one of them tells the members apart, and their order.
LEMMA CountsUp ==
    ASSUME NEW n \in Nat, NEW S \in SUBSET (1 .. n), NEW x \in S, NEW y \in S, x < y
    PROVE  /\ Cardinality({j \in S : j <= x}) \in Nat
           /\ Cardinality({j \in S : j <= y}) \in Nat
           /\ Cardinality({j \in S : j <= x}) < Cardinality({j \in S : j <= y})
<1> DEFINE X == {j \in S : j <= x}
           Y == {j \in S : j <= y}
<1>1. IsFiniteSet(1 .. n)
  BY FS_Interval
<1>2. X \in SUBSET (1 .. n) /\ Y \in SUBSET (1 .. n) /\ X \in SUBSET Y
  <2>1. \A j \in S : j <= x => j <= y
    OBVIOUS
  <2> QED
    BY <2>1
<1>3. IsFiniteSet(X) /\ IsFiniteSet(Y)
  BY <1>1, <1>2, FS_Subset
<1>4. Cardinality(X) \in Nat /\ Cardinality(Y) \in Nat
  BY <1>3, FS_CardinalityType
<1>5. Cardinality(X) <= Cardinality(Y) /\ (Cardinality(Y) = Cardinality(X) => Y = X)
  BY <1>2, <1>3, FS_Subset
<1>6. y \in Y /\ y \notin X
  OBVIOUS
<1> QED
  BY <1>4, <1>5, <1>6

\* A sequence that rises and has just the members of a set is the set, in order.
LEMMA AscendingIs ==
    ASSUME NEW n \in Nat, NEW S \in SUBSET (1 .. n), NEW m \in Nat, NEW f \in [1 .. m -> S],
           \A i, j \in 1 .. m : i < j => f[i] < f[j],
           \A x \in S : \E i \in 1 .. m : f[i] = x
    PROVE  Cardinality(S) = m /\ Ascending(S) = f
<1>1. \A i, j \in 1 .. m : f[i] \in Nat /\ (f[i] <= f[j] <=> i <= j)
  <2>1. \A i \in 1 .. m : f[i] \in 1 .. n
    OBVIOUS
  <2> QED
    BY <2>1
<1>2. \A k \in 0 .. m : \A T : T = {f[i] : i \in 1 .. k} => Cardinality(T) = k
  <2> SUFFICES ASSUME NEW k \in 0 .. m, NEW T, T = {f[i] : i \in 1 .. k}
               PROVE  Cardinality(T) = k
    OBVIOUS
  <2> DEFINE g == [i \in 1 .. k |-> f[i]]
  <2>1. g \in Bijection(1 .. k, T)
    <3>1. g \in [1 .. k -> T] /\ \A t \in T : \E i \in 1 .. k : g[i] = t
      OBVIOUS
    <3>2. \A i, j \in 1 .. k : i # j => g[i] # g[j]
      BY <1>1
    <3> QED
      BY <3>1, <3>2 DEF Bijection, Injection, Surjection, IsInjective
  <2>2. ExistsBijection(1 .. k, T)
    BY <2>1 DEF ExistsBijection
  <2> QED
    BY <2>2, FS_CountingElements
<1>3. S = {f[i] : i \in 1 .. m}
  OBVIOUS
<1>4. Cardinality(S) = m
  BY <1>2, <1>3
<1>5. \A k \in 1 .. m : Cardinality({j \in S : j <= f[k]}) = k
  <2> SUFFICES ASSUME NEW k \in 1 .. m PROVE Cardinality({j \in S : j <= f[k]}) = k
    OBVIOUS
  <2>1. {j \in S : j <= f[k]} = {f[i] : i \in 1 .. k}
    BY <1>1, <1>3
  <2> QED
    BY <1>2, <2>1
<1>6. \A k \in 1 .. m : (CHOOSE i \in S : Cardinality({j \in S : j <= i}) = k) = f[k]
  <2> SUFFICES ASSUME NEW k \in 1 .. m
               PROVE  (CHOOSE i \in S : Cardinality({j \in S : j <= i}) = k) = f[k]
    OBVIOUS
  <2>1. \A i \in S : Cardinality({j \in S : j <= i}) = k => i = f[k]
    <3> SUFFICES ASSUME NEW i \in S, Cardinality({j \in S : j <= i}) = k PROVE i = f[k]
      OBVIOUS
    <3>1. PICK l \in 1 .. m : f[l] = i
      OBVIOUS
    <3> QED
      BY <1>5, <3>1
  <2>2. f[k] \in S /\ Cardinality({j \in S : j <= f[k]}) = k
    BY <1>5
  <2> QED
    BY <2>1, <2>2
<1> DEFINE sorted == [k \in 1 .. m |-> CHOOSE i \in S : Cardinality({j \in S : j <= i}) = k]
<1>7. sorted = f
  BY <1>6
<1>8. Ascending(S) = sorted
  <2> DEFINE inOrder(T) == [k \in 1 .. Cardinality(T) |-> CHOOSE i \in T : Cardinality({j \in T : j <= i}) = k]
  <2>1. inOrder(S) = sorted
    BY <1>4
  <2>2. {inOrder(T) : T \in {S}} = {inOrder(S)}
    OBVIOUS
  <2>3. Ascending(S) = CHOOSE s \in {inOrder(T) : T \in {S}} : TRUE
    BY DEF Ascending
  <2> HIDE DEF inOrder, sorted
  <2> QED
    BY <2>1, <2>2, <2>3
<1> QED
  BY <1>4, <1>7, <1>8

\* Every set of places has its sequence.
LEMMA AscendingFacts ==
    ASSUME NEW n \in Nat, NEW S \in SUBSET (1 .. n)
    PROVE  /\ Cardinality(S) \in 0 .. n
           /\ Ascending(S) \in [1 .. Cardinality(S) -> S]
           /\ \A i, j \in 1 .. Cardinality(S) : i < j <=> Ascending(S)[i] < Ascending(S)[j]
           /\ \A x \in S : \E i \in 1 .. Cardinality(S) : Ascending(S)[i] = x
<1> DEFINE c == Cardinality(S)
           Up(x) == Cardinality({j \in S : j <= x})
           sorted == [k \in 1 .. c |-> CHOOSE i \in S : Up(i) = k]
<1> S \subseteq Nat
  OBVIOUS
<1>1. IsFiniteSet(S) /\ c \in Nat /\ c <= n
  <2>1. IsFiniteSet(1 .. n) /\ Cardinality(1 .. n) = n
    BY FS_Interval
  <2>2. IsFiniteSet(S) /\ c <= n
    BY <2>1, FS_Subset
  <2> QED
    BY <2>2, FS_CardinalityType
<1>2. \A x \in S : Up(x) \in 1 .. c
  <2> SUFFICES ASSUME NEW x \in S PROVE Up(x) \in 1 .. c
    OBVIOUS
  <2>1. {j \in S : j <= x} \in SUBSET S /\ x \in {j \in S : j <= x}
    OBVIOUS
  <2>2. IsFiniteSet({j \in S : j <= x}) /\ Up(x) <= c
    BY <1>1, <2>1, FS_Subset
  <2>3. Up(x) \in Nat
    BY <2>2, FS_CardinalityType
  <2>4. Up(x) # 0
    BY <2>1, <2>2, FS_EmptySet
  <2> QED
    BY <1>1, <2>2, <2>3, <2>4
<1>3. \A x, y \in S : x < y => Up(x) < Up(y)
  BY CountsUp
<1>4. \A k \in 1 .. c : \E i \in S : Up(i) = k
  <2> SUFFICES ASSUME NEW k \in 1 .. c PROVE \E i \in S : Up(i) = k
    OBVIOUS
  <2> DEFINE T == {i \in S : Up(i) >= k}
  <2>1. T # {}
    <3>1. S # {}
      BY <1>1, FS_EmptySet
    <3>2. PICK i \in S : \A j \in S : j <= i
      BY <3>1, PlaceExtremes
    <3>3. {j \in S : j <= i} = S
      BY <3>2
    <3> QED
      BY <1>1, <3>2, <3>3
  <2>2. PICK i \in T : \A j \in T : i <= j
    <3>1. T \in SUBSET (1 .. n)
      OBVIOUS
    <3> HIDE DEF T
    <3> QED
      BY <2>1, <3>1, PlaceExtremes
  <2>3. CASE Up(i) = k
    BY <2>3
  <2>4. CASE Up(i) > k
    <3> DEFINE R == {j \in S : j < i}
    <3>1. R = {j \in S : j <= i} \ {i}
      <4>1. i \in S
        BY <2>2
      <4>2. \A j \in S : j < i <=> j <= i /\ j # i
        BY <4>1
      <4> QED
        BY <4>2
    <3>2. IsFiniteSet({j \in S : j <= i})
      <4>1. {j \in S : j <= i} \in SUBSET S
        OBVIOUS
      <4> QED
        BY <1>1, <4>1, FS_Subset
    <3>3. IsFiniteSet(R) /\ Cardinality(R) = Up(i) - 1
      BY <3>1, <3>2, FS_RemoveElement
    <3>4. R # {}
      BY <1>1, <1>2, <2>4, <3>3, FS_EmptySet
    <3>5. PICK l \in R : \A j \in R : j <= l
      <4>1. R \in SUBSET (1 .. n)
        OBVIOUS
      <4> HIDE DEF R
      <4> QED
        BY <3>4, <4>1, PlaceExtremes
    <3>6. {j \in S : j <= l} = R
      <4>1. i \in S /\ l \in S /\ l < i
        BY <2>2, <3>5
      <4>2. \A j \in S : j <= l => j < i
        BY <4>1
      <4>3. \A j \in S : j < i => j <= l
        BY <3>5
      <4> QED
        BY <4>2, <4>3
    <3>7. Up(l) = Up(i) - 1
      BY <3>3, <3>6
    <3>8. l \in T /\ l < i
      BY <1>2, <2>4, <3>5, <3>7
    <3> QED
      BY <2>2, <3>8
  <2> QED
    BY <1>2, <2>2, <2>3, <2>4
<1>5. \A k \in 1 .. c : sorted[k] \in S /\ Up(sorted[k]) = k
  BY <1>4
<1>6. sorted \in [1 .. c -> S]
  BY <1>5
<1>7. \A x, y \in S : Up(x) < Up(y) => x < y
  <2> SUFFICES ASSUME NEW x \in S, NEW y \in S, Up(x) < Up(y) PROVE x < y
    OBVIOUS
  <2>1. CASE x = y
    BY <1>2, <2>1
  <2>2. CASE y < x
    BY <1>2, <1>3, <2>2
  <2> QED
    BY <2>1, <2>2
<1> HIDE DEF Up, sorted
<1>8. \A i, j \in 1 .. c : i < j => sorted[i] < sorted[j]
  <2> SUFFICES ASSUME NEW i \in 1 .. c, NEW j \in 1 .. c, i < j PROVE sorted[i] < sorted[j]
    OBVIOUS
  <2>1. sorted[i] \in S /\ sorted[j] \in S /\ Up(sorted[i]) = i /\ Up(sorted[j]) = j
    BY <1>5
  <2>2. Up(sorted[i]) < Up(sorted[j])
    BY <2>1
  <2> QED
    BY <1>7, <2>1, <2>2
<1>9. \A x \in S : \E i \in 1 .. c : sorted[i] = x
  <2> SUFFICES ASSUME NEW x \in S PROVE \E i \in 1 .. c : sorted[i] = x
    OBVIOUS
  <2>1. Up(x) \in 1 .. c
    BY <1>2
  <2>2. PICK y : y = sorted[Up(x)]
    OBVIOUS
  <2>3. y \in S /\ Up(y) = Up(x)
    BY <1>5, <2>1, <2>2
  <2>4. Up(x) \in Nat
    BY <1>1, <2>1
  <2>5. ~ (y < x)
    <3>1. y < x => Up(y) < Up(x)
      BY <1>3, <2>3
    <3> QED
      BY <2>3, <2>4, <3>1
  <2>6. ~ (x < y)
    <3>1. x < y => Up(x) < Up(y)
      BY <1>3, <2>3
    <3> QED
      BY <2>3, <2>4, <3>1
  <2>7. y = x
    BY <2>3, <2>5, <2>6
  <2> QED
    BY <2>1, <2>2, <2>7
<1>10. Ascending(S) = sorted
  BY <1>1, <1>6, <1>8, <1>9, AscendingIs
<1>11. \A i, j \in 1 .. c : sorted[i] < sorted[j] => i < j
  <2>1. \A i \in 1 .. c : sorted[i] \in Nat
    BY <1>5
  <2> QED
    BY <1>8, <2>1
<1> QED
  BY <1>1, <1>6, <1>8, <1>9, <1>10, <1>11

\* What a sequence has at some of its places.
LEMMA OnlyFacts ==
    ASSUME NEW A, NEW x \in Seq(A), NEW S \in SUBSET (1 .. Len(x))
    PROVE  /\ Only(x, S) \in Seq(A) /\ Len(Only(x, S)) = Cardinality(S)
           /\ Cardinality(S) \in 0 .. Len(x)
           /\ Ascending(S) \in [1 .. Cardinality(S) -> S]
           /\ \A k \in 1 .. Cardinality(S) : Only(x, S)[k] = x[Ascending(S)[k]]
           /\ \A i \in S : \E k \in 1 .. Cardinality(S) : Only(x, S)[k] = x[i]
<1> DEFINE places == Ascending(S)
           c == Cardinality(S)
<1>1. /\ c \in 0 .. Len(x) /\ c \in Nat
      /\ places \in [1 .. c -> S]
      /\ \A i \in S : \E k \in 1 .. c : places[k] = i
  BY AscendingFacts
<1>2. Only(x, S) = [k \in 1 .. c |-> x[places[k]]]
  BY <1>1 DEF Only
<1> HIDE DEF places, c
<1>3. \A k \in 1 .. c : x[places[k]] \in A
  <2>1. \A k \in 1 .. c : places[k] \in 1 .. Len(x)
    BY <1>1
  <2> QED
    BY <2>1
<1>4. Only(x, S) \in Seq(A) /\ Len(Only(x, S)) = c
  BY <1>1, <1>2, <1>3
<1> QED
  BY <1>1, <1>2, <1>4 DEF places, c

\* The places of two sequences behind each other.
Joined(S, v, T) == S \cup {v + j : j \in T}

\* The members of a set and those of another put behind it, in ascending order.
LEMMA AscendingConcat ==
    ASSUME NEW v \in Nat, NEW w \in Nat, NEW S \in SUBSET (1 .. v), NEW T \in SUBSET (1 .. w)
    PROVE  /\ Joined(S, v, T) \in SUBSET (1 .. v + w)
           /\ Cardinality(S) \in Nat /\ Cardinality(T) \in Nat
           /\ Cardinality(Joined(S, v, T)) = Cardinality(S) + Cardinality(T)
           /\ \A k \in 1 .. Cardinality(S) : Ascending(Joined(S, v, T))[k] = Ascending(S)[k]
           /\ \A k \in 1 .. Cardinality(T) : Ascending(Joined(S, v, T))[Cardinality(S) + k] = v + Ascending(T)[k]
<1> DEFINE s == Cardinality(S)
           t == Cardinality(T)
           p == Ascending(S)
           q == Ascending(T)
           f == [k \in 1 .. s + t |-> IF k <= s THEN p[k] ELSE v + q[k - s]]
<1>1. /\ s \in Nat /\ p \in [1 .. s -> S]
      /\ \A i, j \in 1 .. s : i < j <=> p[i] < p[j]
      /\ \A i \in S : \E k \in 1 .. s : p[k] = i
  BY AscendingFacts
<1>2. /\ t \in Nat /\ q \in [1 .. t -> T]
      /\ \A i, j \in 1 .. t : i < j <=> q[i] < q[j]
      /\ \A i \in T : \E k \in 1 .. t : q[k] = i
  <2>1. t \in 0 .. w
    BY AscendingFacts
  <2>2. q \in [1 .. t -> T]
    BY AscendingFacts
  <2>3. \A i, j \in 1 .. t : i < j <=> q[i] < q[j]
    BY AscendingFacts
  <2>4. \A i \in T : \E k \in 1 .. t : q[k] = i
    BY AscendingFacts
  <2> QED
    BY <2>1, <2>2, <2>3, <2>4
<1> DEFINE U == Joined(S, v, T)
<1>u. \A i : i \in U <=> i \in S \/ \E j \in T : i = v + j
  BY DEF Joined
<1> HIDE DEF s, t, p, q, U
<1>3. S \subseteq 1 .. v /\ T \subseteq 1 .. w
  OBVIOUS
<1>4. U \in SUBSET (1 .. v + w)
  <2>1. \A j \in T : v + j \in 1 .. v + w
    BY <1>3
  <2>2. \A i \in S : i \in 1 .. v + w
    BY <1>3
  <2> QED
    BY <1>u, <2>1, <2>2, ZenonT(60)
<1>5. \A k \in 1 .. s : f[k] = p[k] /\ f[k] \in S
  BY <1>1, <1>2
<1>6. \A k \in s + 1 .. s + t : f[k] = v + q[k - s] /\ q[k - s] \in T /\ k - s \in 1 .. t
  BY <1>1, <1>2
<1>7. f \in [1 .. s + t -> U]
  <2>1. \A k \in 1 .. s + t : k \in 1 .. s \/ k \in s + 1 .. s + t
    BY <1>1, <1>2
  <2>2. \A k \in 1 .. s + t : f[k] \in U
    <3> HIDE DEF f
    <3> QED
      BY <1>u, <1>5, <1>6, <2>1
  <2> QED
    BY <2>2
<1> HIDE DEF f
<1>8. \A i, j \in 1 .. s + t : i < j => f[i] < f[j]
  <2> SUFFICES ASSUME NEW i \in 1 .. s + t, NEW j \in 1 .. s + t, i < j PROVE f[i] < f[j]
    OBVIOUS
  <2>1. CASE j <= s
    <3>1. i \in 1 .. s /\ j \in 1 .. s
      BY <1>1, <1>2, <2>1
    <3> QED
      BY <1>1, <1>5, <3>1
  <2>2. CASE i <= s /\ s < j
    <3>1. i \in 1 .. s /\ j \in s + 1 .. s + t
      BY <1>1, <1>2, <2>2
    <3>2. f[i] \in 1 .. v /\ q[j - s] \in 1 .. w
      BY <1>3, <1>5, <1>6, <3>1
    <3> QED
      BY <1>6, <3>1, <3>2
  <2>3. CASE s < i
    <3>1. i \in s + 1 .. s + t /\ j \in s + 1 .. s + t /\ i - s < j - s
      BY <1>1, <1>2, <2>3
    <3>2. q[i - s] < q[j - s] /\ q[i - s] \in 1 .. w /\ q[j - s] \in 1 .. w
      BY <1>2, <1>3, <1>6, <3>1
    <3> QED
      BY <1>6, <3>1, <3>2
  <2> QED
    BY <1>1, <1>2, <2>1, <2>2, <2>3
<1>9. \A u \in U : \E i \in 1 .. s + t : f[i] = u
  <2> SUFFICES ASSUME NEW u \in U PROVE \E i \in 1 .. s + t : f[i] = u
    OBVIOUS
  <2>1. CASE u \in S
    <3>1. PICK k \in 1 .. s : p[k] = u
      BY <1>1, <2>1
    <3>2. k \in 1 .. s + t
      BY <1>1, <1>2
    <3> QED
      BY <1>5, <3>1, <3>2
  <2>2. CASE u \notin S
    <3>1. PICK j \in T : u = v + j
      BY <1>u, <2>2
    <3>2. PICK k \in 1 .. t : q[k] = j
      BY <1>2
    <3>3. PICK i : i = s + k
      OBVIOUS
    <3>4. i \in s + 1 .. s + t /\ i - s = k /\ i \in 1 .. s + t
      BY <1>1, <1>2, <3>3
    <3>5. f[i] = v + q[i - s]
      BY <1>6, <3>4
    <3> QED
      BY <3>1, <3>2, <3>4, <3>5
  <2> QED
    BY <2>1, <2>2
<1>10. Cardinality(U) = s + t /\ Ascending(U) = f
  <2>1. PICK h \in Nat : h = v + w
    OBVIOUS
  <2>2. PICK m \in Nat : m = s + t
    BY <1>1, <1>2
  <2>3. /\ U \in SUBSET (1 .. h) /\ f \in [1 .. m -> U]
        /\ \A i, j \in 1 .. m : i < j => f[i] < f[j]
        /\ \A u \in U : \E i \in 1 .. m : f[i] = u
    BY <1>4, <1>7, <1>8, <1>9, <2>1, <2>2
  <2> QED
    BY <2>1, <2>2, <2>3, AscendingIs
<1>11. \A k \in 1 .. t : f[s + k] = v + q[k]
  <2> SUFFICES ASSUME NEW k \in 1 .. t PROVE f[s + k] = v + q[k]
    OBVIOUS
  <2>1. PICK i : i = s + k
    OBVIOUS
  <2>2. i \in s + 1 .. s + t /\ i - s = k
    BY <1>1, <1>2, <2>1
  <2>3. f[i] = v + q[i - s]
    BY <1>6, <2>2
  <2>4. f[i] = v + q[k]
    BY <2>2, <2>3
  <2> QED
    BY <2>1, <2>4, Zenon
<1> QED
  BY <1>1, <1>2, <1>4, <1>5, <1>10, <1>11 DEF s, t, p, q, U

----------------------------------------------------------------------------
(* The pictures of a stream, and the decoder. *)

\* The pictures of a stream are its first slices, in the order of the stream.
LEMMA PicturesFacts ==
    ASSUME NEW data \in Seq(Nals)
    PROVE  /\ FirstSlices(data) \in SUBSET (1 .. Len(data))
           /\ Pictures(data) \in Seq(Nals)
           /\ Len(Pictures(data)) = Cardinality(FirstSlices(data))
           /\ Ascending(FirstSlices(data)) \in [1 .. Len(Pictures(data)) -> FirstSlices(data)]
           /\ \A i, j \in 1 .. Len(Pictures(data)) :
                 i < j <=> Ascending(FirstSlices(data))[i] < Ascending(FirstSlices(data))[j]
           /\ \A x \in FirstSlices(data) :
                 \E i \in 1 .. Len(Pictures(data)) : Ascending(FirstSlices(data))[i] = x
           /\ \A k \in 1 .. Len(Pictures(data)) :
                 Pictures(data)[k] = data[Ascending(FirstSlices(data))[k]]
<1>1. FirstSlices(data) \in SUBSET (1 .. Len(data)) /\ Len(data) \in Nat
  BY DEF FirstSlices
<1> DEFINE first == FirstSlices(data)
<1> HIDE DEF first
<1>2. first \in SUBSET (1 .. Len(data))
  BY <1>1 DEF first
<1>3. /\ Only(data, first) \in Seq(Nals) /\ Len(Only(data, first)) = Cardinality(first)
      /\ Ascending(first) \in [1 .. Cardinality(first) -> first]
      /\ \A k \in 1 .. Cardinality(first) : Only(data, first)[k] = data[Ascending(first)[k]]
  BY <1>2, OnlyFacts
<1>4. /\ \A i, j \in 1 .. Cardinality(first) : i < j <=> Ascending(first)[i] < Ascending(first)[j]
      /\ \A x \in first : \E i \in 1 .. Cardinality(first) : Ascending(first)[i] = x
  BY <1>1, <1>2, AscendingFacts
<1>5. Pictures(data) = Only(data, first)
  BY DEF Pictures, first
<1> QED
  BY <1>1, <1>3, <1>4, <1>5 DEF first

\* The pictures of two streams behind each other are those of both.
LEMMA PicturesConcat ==
    ASSUME NEW x \in Seq(Nals), NEW y \in Seq(Nals)
    PROVE  /\ x \o y \in Seq(Nals) /\ Pictures(x \o y) = Pictures(x) \o Pictures(y)
           /\ Len(Pictures(x \o y)) = Len(Pictures(x)) + Len(Pictures(y))
           /\ \A k \in 1 .. Len(Pictures(x)) :
                 Ascending(FirstSlices(x \o y))[k] = Ascending(FirstSlices(x))[k]
           /\ \A k \in 1 .. Len(Pictures(y)) :
                 Ascending(FirstSlices(x \o y))[Len(Pictures(x)) + k] = Len(x) + Ascending(FirstSlices(y))[k]
<1> DEFINE S == FirstSlices(x)
           T == FirstSlices(y)
           U == FirstSlices(x \o y)
<1>1. /\ x \o y \in Seq(Nals) /\ Len(x \o y) = Len(x) + Len(y) /\ Len(x) \in Nat /\ Len(y) \in Nat
      /\ \A i \in 1 .. Len(x) + Len(y) : (x \o y)[i] = IF i <= Len(x) THEN x[i] ELSE y[i - Len(x)]
  BY ConcatProperties
<1>2. U = Joined(S, Len(x), T)
  <2>1. \A i \in 1 .. Len(x) : i \in U <=> i \in S
    <3> SUFFICES ASSUME NEW i \in 1 .. Len(x) PROVE i \in U <=> i \in S
      OBVIOUS
    <3>1. (x \o y)[i] = x[i] /\ i \in 1 .. Len(x \o y)
      BY <1>1
    <3> QED
      BY <1>1, <3>1 DEF FirstSlices
  <2>2. \A i \in 1 .. Len(x \o y) : ~ (i \in 1 .. Len(x)) => (i \in U <=> i - Len(x) \in T)
    <3> SUFFICES ASSUME NEW i \in 1 .. Len(x \o y), ~ (i \in 1 .. Len(x)) PROVE i \in U <=> i - Len(x) \in T
      OBVIOUS
    <3>1. PICK j : j = i - Len(x)
      OBVIOUS
    <3>2. j \in 1 .. Len(y) /\ ~ (i <= Len(x)) /\ (x \o y)[i] = y[j]
      BY <1>1, <3>1
    <3>3. i \in U <=> j \in T
      BY <1>1, <3>2 DEF FirstSlices
    <3> QED
      BY <3>1, <3>3
  <2>3. U \subseteq 1 .. Len(x \o y) /\ S \subseteq 1 .. Len(x) /\ T \subseteq 1 .. Len(y)
    BY <1>1 DEF FirstSlices
  <2> HIDE DEF S, T, U
  <2>4. PICK n \in Nat, l \in Nat : n = Len(x) /\ l = Len(y)
    BY <1>1
  <2>5. /\ \A i \in 1 .. n : i \in U <=> i \in S
        /\ \A i \in 1 .. n + l : ~ (i \in 1 .. n) => (i \in U <=> i - n \in T)
        /\ U \subseteq 1 .. n + l /\ S \subseteq 1 .. n /\ T \subseteq 1 .. l
    BY <1>1, <2>1, <2>2, <2>3, <2>4
  <2>6. \A j \in T : n + j \in U
    <3> SUFFICES ASSUME NEW j \in T PROVE n + j \in U
      OBVIOUS
    <3>1. PICK i : i = n + j
      OBVIOUS
    <3>2. i \in 1 .. n + l /\ ~ (i \in 1 .. n) /\ i - n = j
      BY <2>5, <3>1
    <3> QED
      BY <2>5, <3>1, <3>2
  <2>7. \A i \in U : i \in S \/ \E j \in T : i = n + j
    <3> SUFFICES ASSUME NEW i \in U, i \notin S PROVE \E j \in T : i = n + j
      OBVIOUS
    <3>1. PICK j : j = i - n
      OBVIOUS
    <3>2. i \in 1 .. n + l /\ ~ (i \in 1 .. n) /\ i = n + j
      BY <2>5, <3>1
    <3> QED
      BY <2>5, <3>1, <3>2
  <2>8. \A i \in S : i \in U
    BY <2>5
  <2> QED
    BY <2>4, <2>6, <2>7, <2>8 DEF Joined
<1>3. S \in SUBSET (1 .. Len(x)) /\ T \in SUBSET (1 .. Len(y))
  BY DEF FirstSlices
<1>4. /\ Len(Pictures(x)) = Cardinality(S) /\ Pictures(x) \in Seq(Nals)
      /\ \A k \in 1 .. Len(Pictures(x)) : Pictures(x)[k] = x[Ascending(S)[k]]
      /\ \A k \in 1 .. Len(Pictures(x)) : Ascending(S)[k] \in S
  BY <1>1, PicturesFacts
<1>5. /\ Len(Pictures(y)) = Cardinality(T) /\ Pictures(y) \in Seq(Nals)
      /\ \A k \in 1 .. Len(Pictures(y)) : Pictures(y)[k] = y[Ascending(T)[k]]
      /\ \A k \in 1 .. Len(Pictures(y)) : Ascending(T)[k] \in T
  BY <1>1, PicturesFacts
<1>6. /\ Len(Pictures(x \o y)) = Cardinality(U) /\ Pictures(x \o y) \in Seq(Nals)
      /\ \A k \in 1 .. Len(Pictures(x \o y)) : Pictures(x \o y)[k] = (x \o y)[Ascending(U)[k]]
  BY <1>1, PicturesFacts
<1> HIDE DEF S, T, U
<1>7. /\ Cardinality(S) \in Nat /\ Cardinality(T) \in Nat
      /\ Cardinality(U) = Cardinality(S) + Cardinality(T)
      /\ \A k \in 1 .. Cardinality(S) : Ascending(U)[k] = Ascending(S)[k]
      /\ \A k \in 1 .. Cardinality(T) : Ascending(U)[Cardinality(S) + k] = Len(x) + Ascending(T)[k]
  <2>1. PICK n \in Nat, l \in Nat : n = Len(x) /\ l = Len(y)
    BY <1>1
  <2>2. S \in SUBSET (1 .. n) /\ T \in SUBSET (1 .. l) /\ U = Joined(S, n, T)
    BY <1>2, <1>3, <2>1
  <2>3. Cardinality(S) \in Nat /\ Cardinality(T) \in Nat
    BY <2>2, AscendingConcat
  <2>4. Cardinality(Joined(S, n, T)) = Cardinality(S) + Cardinality(T)
    BY <2>2, AscendingConcat
  <2>5. \A k \in 1 .. Cardinality(S) : Ascending(Joined(S, n, T))[k] = Ascending(S)[k]
    BY <2>2, AscendingConcat
  <2>6. \A k \in 1 .. Cardinality(T) : Ascending(Joined(S, n, T))[Cardinality(S) + k] = n + Ascending(T)[k]
    BY <2>2, AscendingConcat
  <2> QED
    BY <2>1, <2>2, <2>3, <2>4, <2>5, <2>6
<1>8. \A k \in 1 .. Len(Pictures(x)) : Pictures(x \o y)[k] = Pictures(x)[k]
  <2> SUFFICES ASSUME NEW k \in 1 .. Len(Pictures(x)) PROVE Pictures(x \o y)[k] = Pictures(x)[k]
    OBVIOUS
  <2>1. k \in 1 .. Cardinality(S) /\ k \in 1 .. Len(Pictures(x \o y))
    BY <1>4, <1>6, <1>7
  <2>2. Ascending(S)[k] \in 1 .. Len(x) /\ Ascending(U)[k] = Ascending(S)[k]
    BY <1>3, <1>4, <1>7, <2>1
  <2>3. (x \o y)[Ascending(S)[k]] = x[Ascending(S)[k]]
    BY <1>1, <2>2
  <2> QED
    BY <1>4, <1>6, <2>1, <2>2, <2>3
<1>9. \A k \in 1 .. Len(Pictures(y)) : Pictures(x \o y)[Len(Pictures(x)) + k] = Pictures(y)[k]
  <2> SUFFICES ASSUME NEW k \in 1 .. Len(Pictures(y)) PROVE Pictures(x \o y)[Len(Pictures(x)) + k] = Pictures(y)[k]
    OBVIOUS
  <2>1. PICK i : i = Len(Pictures(x)) + k
    OBVIOUS
  <2>2. k \in 1 .. Cardinality(T) /\ i \in 1 .. Len(Pictures(x \o y)) /\ i = Cardinality(S) + k
    BY <1>4, <1>5, <1>6, <1>7, <2>1
  <2>3. Ascending(T)[k] \in 1 .. Len(y) /\ Ascending(U)[i] = Len(x) + Ascending(T)[k]
    BY <1>3, <1>5, <1>7, <2>2
  <2>4. PICK u : u = Len(x) + Ascending(T)[k]
    OBVIOUS
  <2>5. u \in 1 .. Len(x) + Len(y) /\ ~ (u <= Len(x)) /\ u - Len(x) = Ascending(T)[k]
    BY <1>1, <2>3, <2>4
  <2>6. (x \o y)[u] = y[Ascending(T)[k]]
    BY <1>1, <2>5
  <2> QED
    BY <1>5, <1>6, <2>1, <2>2, <2>3, <2>4, <2>6
<1>10. Pictures(x \o y) = Pictures(x) \o Pictures(y)
  <2>1. PICK a \in Seq(Nals), b \in Seq(Nals), c \in Seq(Nals) :
            a = Pictures(x) /\ b = Pictures(y) /\ c = Pictures(x \o y)
    BY <1>4, <1>5, <1>6
  <2>2. /\ Len(c) = Len(a) + Len(b)
        /\ \A k \in 1 .. Len(a) : c[k] = a[k]
        /\ \A k \in 1 .. Len(b) : c[Len(a) + k] = b[k]
    BY <1>4, <1>5, <1>6, <1>7, <1>8, <1>9, <2>1
  <2>3. c = a \o b
    BY <2>2, SameConcat
  <2> QED
    BY <2>1, <2>3
<1> QED
  BY <1>1, <1>4, <1>5, <1>6, <1>7, <1>10 DEF S, T, U

\* Data of the pictures from one to before the other.
PartOf(data, file, b, e) ==
    /\ data \in Seq(Nals) /\ Len(Pictures(data)) = e - b
    /\ \A k \in 1 .. e - b : Pictures(data)[k] = Pictures(file)[b + k - 1]

\* Of the part of a file from one picture on, up to another or the end.
LEMMA PicturesPart ==
    ASSUME NEW file \in Seq(Nals), NEW b \in 1 .. Len(Pictures(file)), NEW e \in b .. Len(Pictures(file)) + 1,
           NEW lo, lo = Ascending(FirstSlices(file))[b],
           NEW hi, hi = IF e = Len(Pictures(file)) + 1 THEN Len(file) + 1 ELSE Ascending(FirstSlices(file))[e]
    PROVE  PartOf(SubSeq(file, lo, hi - 1), file, b, e)
<1> DEFINE S == FirstSlices(file)
           at == Ascending(S)
           n == Len(Pictures(file))
           y == SubSeq(file, lo, hi - 1)
           T == FirstSlices(y)
           f == [k \in 1 .. e - b |-> at[b + k - 1] - lo + 1]
<1>1. /\ S \in SUBSET (1 .. Len(file)) /\ Len(file) \in Nat /\ n \in Nat
      /\ at \in [1 .. n -> S]
      /\ \A i, j \in 1 .. n : i < j <=> at[i] < at[j]
      /\ \A x \in S : \E i \in 1 .. n : at[i] = x
      /\ \A k \in 1 .. n : Pictures(file)[k] = file[at[k]]
  BY PicturesFacts
<1>2. b \in 1 .. n /\ e \in b .. n + 1 /\ lo = at[b] /\ hi = IF e = n + 1 THEN Len(file) + 1 ELSE at[e]
  OBVIOUS
<1>3. \A k : k \in S <=> k \in 1 .. Len(file) /\ IsSlice(file[k]) /\ file[k].first
  BY DEF FirstSlices
<1> HIDE DEF S, at, n, T, y
<1>4. /\ lo \in 1 .. Len(file) /\ hi \in lo .. Len(file) + 1
      /\ \A i \in 1 .. n : at[i] < hi <=> i < e
  <2>1. lo \in 1 .. Len(file)
    BY <1>1, <1>2
  <2>2. CASE e = n + 1
    <3>1. \A i \in 1 .. n : at[i] < Len(file) + 1 /\ i < e
      <4>1. \A i \in 1 .. n : at[i] \in 1 .. Len(file)
        BY <1>1
      <4> QED
        BY <1>1, <2>2, <4>1
    <3> QED
      BY <1>2, <2>1, <2>2, <3>1
  <2>3. CASE e # n + 1
    <3>1. e \in 1 .. n /\ hi = at[e] /\ ~ (e < b)
      BY <1>1, <1>2, <2>3
    <3>2. hi \in 1 .. Len(file)
      BY <1>1, <3>1
    <3>3. ~ (at[e] < at[b])
      BY <1>1, <1>2, <3>1
    <3>4. hi \in lo .. Len(file) + 1
      BY <1>2, <2>1, <3>1, <3>2, <3>3
    <3> QED
      BY <1>1, <2>1, <3>1, <3>4
  <2> QED
    BY <2>2, <2>3
<1>5. /\ y \in Seq(Nals) /\ Len(y) = hi - lo
      /\ \A i \in 1 .. hi - lo : y[i] = file[lo + i - 1]
  <2>1. \A i \in lo .. hi - 1 : file[i] \in Nals
    BY <1>1, <1>4
  <2>2. PICK h \in Int : h = hi - 1
    BY <1>4
  <2>3. y = SubSeq(file, lo, h) /\ lo \in Int /\ \A i \in lo .. h : file[i] \in Nals
    BY <1>4, <2>1, <2>2 DEF y
  <2>4. /\ SubSeq(file, lo, h) \in Seq(Nals)
        /\ Len(SubSeq(file, lo, h)) = IF lo <= h THEN h - lo + 1 ELSE 0
        /\ \A i \in 1 .. h - lo + 1 : SubSeq(file, lo, h)[i] = file[lo + i - 1]
    <3>1. SubSeq(file, lo, h) \in Seq(Nals)
      BY <2>2, <2>3, SubSeqProperties
    <3>2. Len(SubSeq(file, lo, h)) = IF lo <= h THEN h - lo + 1 ELSE 0
      BY <2>2, <2>3, SubSeqProperties
    <3>3. \A i \in 1 .. h - lo + 1 : SubSeq(file, lo, h)[i] = file[lo + i - 1]
      <4>1. lo \in Int /\ h \in Int /\ file \in Seq(Nals) /\ \A i \in lo .. h : file[i] \in Nals
        BY <2>2, <2>3
      <4> QED
        BY ONLY <4>1, SubSeqProperties
    <3> QED
      BY <3>1, <3>2, <3>3
  <2>5. h - lo + 1 = hi - lo /\ (~ (lo <= h) => hi - lo = 0)
    BY <1>4, <2>2, SMTT(40)
  <2> QED
    BY <2>3, <2>4, <2>5
<1>6. \A k : k \in T <=> k \in 1 .. Len(y) /\ IsSlice(y[k]) /\ y[k].first
  BY <1>5 DEF FirstSlices, T
<1>7. \A k \in 1 .. hi - lo : k \in T <=> lo + k - 1 \in S
  <2> SUFFICES ASSUME NEW k \in 1 .. hi - lo PROVE k \in T <=> lo + k - 1 \in S
    OBVIOUS
  <2>1. PICK i : i = lo + k - 1
    OBVIOUS
  <2>2. i \in 1 .. Len(file) /\ y[k] = file[i]
    BY <1>4, <1>5, <2>1, SMTT(40)
  <2>3. k \in T <=> i \in S
    BY <1>3, <1>6, <1>5, <2>2
  <2> QED
    BY <2>1, <2>3
<1>8. \A k \in 1 .. e - b : /\ b + k - 1 \in 1 .. n /\ at[b + k - 1] \in S
                            /\ f[k] = at[b + k - 1] - lo + 1 /\ f[k] \in 1 .. hi - lo /\ lo + f[k] - 1 = at[b + k - 1]
  <2> SUFFICES ASSUME NEW k \in 1 .. e - b
               PROVE  /\ b + k - 1 \in 1 .. n /\ at[b + k - 1] \in S
                      /\ f[k] = at[b + k - 1] - lo + 1 /\ f[k] \in 1 .. hi - lo /\ lo + f[k] - 1 = at[b + k - 1]
    OBVIOUS
  <2>1. PICK i : i = b + k - 1
    OBVIOUS
  <2>2. i \in 1 .. n /\ i < e /\ ~ (i < b)
    BY <1>1, <1>2, <2>1, SMTT(40)
  <2>3. at[i] \in S /\ at[i] \in 1 .. Len(file) /\ at[i] < hi /\ ~ (at[i] < at[b])
    BY <1>1, <1>2, <1>4, <2>2
  <2>4. f[k] = at[i] - lo + 1
    BY <2>1
  <2> HIDE DEF f
  <2>5. f[k] \in 1 .. hi - lo /\ lo + f[k] - 1 = at[i]
    BY <1>2, <1>4, <2>3, <2>4
  <2> QED
    BY <2>1, <2>2, <2>3, <2>4, <2>5
<1>9. DOMAIN f = 1 .. e - b /\ f \in [1 .. e - b -> {f[k] : k \in 1 .. e - b}]
  OBVIOUS
<1> HIDE DEF f
<1>10. \A k \in 1 .. e - b : f[k] \in T
  <2> SUFFICES ASSUME NEW k \in 1 .. e - b PROVE f[k] \in T
    OBVIOUS
  <2>1. f[k] \in 1 .. hi - lo /\ lo + f[k] - 1 \in S
    BY <1>8
  <2> QED
    BY <1>7, <2>1
<1>11. f \in [1 .. e - b -> T]
  BY <1>9, <1>10
<1>12. \A i, j \in 1 .. e - b : i < j => f[i] < f[j]
  <2> SUFFICES ASSUME NEW i \in 1 .. e - b, NEW j \in 1 .. e - b, i < j PROVE f[i] < f[j]
    OBVIOUS
  <2>1. PICK k, l : k = b + i - 1 /\ l = b + j - 1
    OBVIOUS
  <2>2. k \in 1 .. n /\ l \in 1 .. n /\ k < l
    BY <1>1, <1>2, <1>8, <2>1
  <2>3. at[k] < at[l] /\ at[k] \in 1 .. Len(file) /\ at[l] \in 1 .. Len(file)
    BY <1>1, <2>2
  <2>4. f[i] = at[k] - lo + 1 /\ f[j] = at[l] - lo + 1
    BY <1>8, <2>1
  <2> QED
    BY <1>4, <2>3, <2>4
<1>13. \A x \in T : \E i \in 1 .. e - b : f[i] = x
  <2> SUFFICES ASSUME NEW x \in T PROVE \E i \in 1 .. e - b : f[i] = x
    OBVIOUS
  <2>1. x \in 1 .. hi - lo
    BY <1>6, <1>5
  <2>2. PICK z : z = lo + x - 1
    OBVIOUS
  <2>3. z \in S /\ z < hi /\ ~ (z < lo) /\ x = z - lo + 1
    BY <1>4, <1>7, <2>1, <2>2
  <2>4. PICK i \in 1 .. n : at[i] = z
    BY <1>1, <2>3
  <2>5. i < e /\ ~ (i < b)
    BY <1>1, <1>2, <1>4, <2>3, <2>4
  <2>6. PICK k : k = i - b + 1
    OBVIOUS
  <2>7. k \in 1 .. e - b /\ b + k - 1 = i
    BY <1>1, <1>2, <2>4, <2>5, <2>6
  <2>8. f[k] = at[i] - lo + 1
    BY <1>8, <2>7
  <2> QED
    BY <2>3, <2>4, <2>7, <2>8
<1>14. e - b \in Nat
  BY <1>1, <1>2
<1>15. Cardinality(T) = e - b /\ Ascending(T) = f
  <2>1. PICK m \in Nat : m = e - b
    BY <1>14
  <2>2. PICK l \in Nat : l = Len(y)
    BY <1>5
  <2>3. /\ T \in SUBSET (1 .. l) /\ f \in [1 .. m -> T]
        /\ \A i, j \in 1 .. m : i < j => f[i] < f[j]
        /\ \A x \in T : \E i \in 1 .. m : f[i] = x
    BY <1>6, <1>11, <1>12, <1>13, <2>1, <2>2
  <2> QED
    BY <2>1, <2>2, <2>3, AscendingIs
<1>16. /\ Len(Pictures(y)) = Cardinality(T)
       /\ \A k \in 1 .. Len(Pictures(y)) : Pictures(y)[k] = y[Ascending(T)[k]]
  BY <1>5, PicturesFacts DEF T
<1>17. \A k \in 1 .. e - b : Pictures(y)[k] = Pictures(file)[b + k - 1]
  <2> SUFFICES ASSUME NEW k \in 1 .. e - b PROVE Pictures(y)[k] = Pictures(file)[b + k - 1]
    OBVIOUS
  <2>1. Pictures(y)[k] = y[f[k]]
    BY <1>15, <1>16
  <2>2. y[f[k]] = file[lo + f[k] - 1] /\ lo + f[k] - 1 = at[b + k - 1]
    BY <1>5, <1>8
  <2>3. b + k - 1 \in 1 .. n
    BY <1>8
  <2> QED
    BY <1>1, <2>1, <2>2, <2>3
<1> QED
  BY <1>5, <1>15, <1>16, <1>17 DEF y, PartOf

\* There are parameter sets in a stream.
HasSet(data) == \E i \in 1 .. Len(data) : data[i].type = "set"

\* The k-th picture comes out right.
RightAt(data, k) ==
    \E j \in 1 .. k : /\ Pictures(data)[j].slice = SLICE_I
                      /\ \E i \in 1 .. Ascending(FirstSlices(data))[j] - 1 : data[i].type = "set"
                      /\ \A m \in j + 1 .. k : Pictures(data)[m].frame = Pictures(data)[m - 1].frame + 1

\* The decoder puts out a frame for every picture, right or 0.
LEMMA DecodeFacts ==
    ASSUME NEW data \in Seq(Nals)
    PROVE  /\ Decode(data) \in Seq(Nat) /\ Len(Decode(data)) = Len(Pictures(data))
           /\ \A k \in 1 .. Len(Pictures(data)) :
                 Decode(data)[k] = IF RightAt(data, k) THEN Pictures(data)[k].frame ELSE 0
<1>1. /\ Pictures(data) \in Seq(Nals) /\ Len(Pictures(data)) \in Nat
      /\ DOMAIN Ascending(FirstSlices(data)) = 1 .. Len(Pictures(data))
  BY PicturesFacts
<1>2. Decode(data) = [k \in 1 .. Len(Pictures(data)) |-> IF RightAt(data, k) THEN Pictures(data)[k].frame ELSE 0]
  <2>1. Decode(data) = [k \in DOMAIN Ascending(FirstSlices(data)) |->
                           IF RightAt(data, k) THEN Pictures(data)[k].frame ELSE 0]
    BY Zenon DEF Decode, RightAt
  <2> QED
    BY <1>1, <2>1
<1>3. \A k \in 1 .. Len(Pictures(data)) : (IF RightAt(data, k) THEN Pictures(data)[k].frame ELSE 0) \in Nat
  <2>1. PICK p \in Seq(Nals) : p = Pictures(data)
    BY <1>1
  <2>2. \A k \in 1 .. Len(p) : p[k].frame \in Nat
    <3>1. \A k \in 1 .. Len(p) : p[k] \in Nals
      OBVIOUS
    <3>2. \A nal \in Nals : nal.frame \in Nat
      BY DEF Nals
    <3> QED
      BY <3>1, <3>2
  <2> QED
    BY <2>1, <2>2
<1> QED
  BY <1>1, <1>2, <1>3

\* More pictures behind a stream that has parameter sets: if they begin with an I picture and
\* nothing is missing, they come out right, and what came out before stays.
LEMMA DecodeAppend ==
    ASSUME NEW x \in Seq(Nals), NEW y \in Seq(Nals), Consecutive(Pictures(y)),
           Pictures(y) # <<>> => HasSet(x) /\ Pictures(y)[1].slice = SLICE_I
    PROVE  /\ Len(Decode(x \o y)) = Len(Decode(x)) + Len(Pictures(y))
           /\ \A k \in 1 .. Len(Decode(x)) : Decode(x \o y)[k] = Decode(x)[k]
           /\ \A k \in 1 .. Len(Pictures(y)) : Decode(x \o y)[Len(Decode(x)) + k] = Pictures(y)[k].frame
<1> DEFINE z == x \o y
           n == Len(Pictures(x))
           l == Len(Pictures(y))
           at == Ascending(FirstSlices(x))
           bt == Ascending(FirstSlices(y))
           ct == Ascending(FirstSlices(z))
<1>1. /\ z \in Seq(Nals) /\ Len(z) = Len(x) + Len(y) /\ Len(x) \in Nat /\ Len(y) \in Nat
      /\ \A i \in 1 .. Len(x) + Len(y) : z[i] = IF i <= Len(x) THEN x[i] ELSE y[i - Len(x)]
  BY ConcatProperties
<1>2. /\ Pictures(z) = Pictures(x) \o Pictures(y) /\ Len(Pictures(z)) = n + l
      /\ \A k \in 1 .. n : ct[k] = at[k]
      /\ \A k \in 1 .. l : ct[n + k] = Len(x) + bt[k]
  BY PicturesConcat
<1>3. /\ Pictures(x) \in Seq(Nals) /\ Pictures(y) \in Seq(Nals) /\ n \in Nat /\ l \in Nat
      /\ \A k \in 1 .. n : at[k] \in 1 .. Len(x)
      /\ \A k \in 1 .. l : bt[k] \in 1 .. Len(y)
  <2>1. FirstSlices(x) \in SUBSET (1 .. Len(x)) /\ at \in [1 .. n -> FirstSlices(x)] /\ Pictures(x) \in Seq(Nals)
    BY PicturesFacts
  <2>2. FirstSlices(y) \in SUBSET (1 .. Len(y)) /\ bt \in [1 .. l -> FirstSlices(y)] /\ Pictures(y) \in Seq(Nals)
    BY PicturesFacts
  <2>3. \A k \in 1 .. n : at[k] \in 1 .. Len(x)
    BY <2>1
  <2>4. \A k \in 1 .. l : bt[k] \in 1 .. Len(y)
    BY <2>2
  <2> QED
    BY <2>1, <2>2, <2>3, <2>4
<1>4. \A k \in 1 .. n + l : Pictures(z)[k] = IF k <= n THEN Pictures(x)[k] ELSE Pictures(y)[k - n]
  <2>1. PICK a \in Seq(Nals), b \in Seq(Nals) : a = Pictures(x) /\ b = Pictures(y)
    BY <1>3
  <2>2. \A k \in 1 .. Len(a) + Len(b) : (a \o b)[k] = IF k <= Len(a) THEN a[k] ELSE b[k - Len(a)]
    BY ConcatProperties
  <2> QED
    BY <1>2, <2>1, <2>2
<1>5. /\ Len(Decode(z)) = n + l /\ Len(Decode(x)) = n
      /\ \A k \in 1 .. n + l : Decode(z)[k] = IF RightAt(z, k) THEN Pictures(z)[k].frame ELSE 0
      /\ \A k \in 1 .. n : Decode(x)[k] = IF RightAt(x, k) THEN Pictures(x)[k].frame ELSE 0
  BY <1>1, <1>2, DecodeFacts
<1>6. \A m \in 2 .. l : Pictures(y)[m].frame = Pictures(y)[m - 1].frame + 1
  BY DEF Consecutive
<1>7. l # 0 => Pictures(y) # <<>>
  BY <1>3
<1>8. \A k : RightAt(z, k) <=> \E j \in 1 .. k :
                 /\ Pictures(z)[j].slice = SLICE_I
                 /\ \E i \in 1 .. ct[j] - 1 : z[i].type = "set"
                 /\ \A m \in j + 1 .. k : Pictures(z)[m].frame = Pictures(z)[m - 1].frame + 1
  BY DEF RightAt
<1>9. \A k : RightAt(x, k) <=> \E j \in 1 .. k :
                 /\ Pictures(x)[j].slice = SLICE_I
                 /\ \E i \in 1 .. at[j] - 1 : x[i].type = "set"
                 /\ \A m \in j + 1 .. k : Pictures(x)[m].frame = Pictures(x)[m - 1].frame + 1
  BY DEF RightAt
<1>10. HasSet(x) => \E i \in 1 .. Len(x) : x[i].type = "set"
  BY DEF HasSet
<1> HIDE DEF z, n, l, at, bt, ct
<1>11. ASSUME NEW k \in 1 .. n PROVE RightAt(z, k) <=> RightAt(x, k)
  <2>1. \A j \in 1 .. k : Pictures(z)[j] = Pictures(x)[j] /\ ct[j] = at[j] /\ at[j] \in 1 .. Len(x)
    <3>1. \A j \in 1 .. k : j \in 1 .. n /\ j \in 1 .. n + l /\ j <= n
      BY <1>3
    <3> QED
      BY <1>2, <1>3, <1>4, <3>1
  <2>2. \A i \in 1 .. Len(x) : z[i] = x[i]
    BY <1>1
  <2>3. \A j \in 1 .. k : \A i \in 1 .. at[j] - 1 : z[i] = x[i]
    BY <1>1, <2>1, <2>2
  <2>4. \A j \in 1 .. k : \A m \in j + 1 .. k : Pictures(z)[m] = Pictures(x)[m] /\ Pictures(z)[m - 1] = Pictures(x)[m - 1]
    <3>1. \A j \in 1 .. k : \A m \in j + 1 .. k : m \in 1 .. k /\ m - 1 \in 1 .. k
      OBVIOUS
    <3> QED
      BY <2>1, <3>1
  <2>5. ASSUME NEW j \in 1 .. k
        PROVE  /\ Pictures(z)[j].slice = SLICE_I <=> Pictures(x)[j].slice = SLICE_I
               /\ (\E i \in 1 .. ct[j] - 1 : z[i].type = "set") <=> (\E i \in 1 .. at[j] - 1 : x[i].type = "set")
               /\ (\A m \in j + 1 .. k : Pictures(z)[m].frame = Pictures(z)[m - 1].frame + 1)
                  <=> (\A m \in j + 1 .. k : Pictures(x)[m].frame = Pictures(x)[m - 1].frame + 1)
    <3>1. (\E i \in 1 .. ct[j] - 1 : z[i].type = "set") <=> (\E i \in 1 .. at[j] - 1 : x[i].type = "set")
      BY <2>1, <2>3
    <3>2. (\A m \in j + 1 .. k : Pictures(z)[m].frame = Pictures(z)[m - 1].frame + 1)
             <=> (\A m \in j + 1 .. k : Pictures(x)[m].frame = Pictures(x)[m - 1].frame + 1)
      BY <2>4
    <3> QED
      BY <2>1, <3>1, <3>2
  <2> QED
    BY <1>8, <1>9, <2>5, Zenon
<1>12. ASSUME NEW k \in 1 .. l PROVE RightAt(z, n + k)
  <2>1. PICK q : q = n + k
    OBVIOUS
  <2>2. PICK j : j = n + 1
    OBVIOUS
  <2>3. /\ q \in 1 .. n + l /\ j \in 1 .. q /\ j \in 1 .. n + l /\ ~ (j <= n) /\ j - n = 1 /\ 1 \in 1 .. l
        /\ l # 0
    BY <1>3, <2>1, <2>2
  <2>4. Pictures(z)[j].slice = SLICE_I
    BY <1>4, <1>7, <2>3
  <2>5. ct[j] = Len(x) + bt[1] /\ bt[1] \in 1 .. Len(y)
    BY <1>2, <1>3, <2>2, <2>3
  <2>6. PICK i \in 1 .. Len(x) : x[i].type = "set"
    BY <1>7, <1>10, <2>3
  <2>7. i \in 1 .. ct[j] - 1 /\ z[i].type = "set"
    BY <1>1, <2>5, <2>6
  <2>8. ASSUME NEW m \in j + 1 .. q PROVE Pictures(z)[m].frame = Pictures(z)[m - 1].frame + 1
    <3>1. PICK h : h = m - n
      OBVIOUS
    <3>2. /\ h \in 2 .. l /\ m \in 1 .. n + l /\ ~ (m <= n) /\ m - 1 \in 1 .. n + l /\ ~ (m - 1 <= n)
          /\ (m - 1) - n = h - 1
      BY <1>3, <2>1, <2>2, <3>1
    <3>3. Pictures(z)[m] = Pictures(y)[h] /\ Pictures(z)[m - 1] = Pictures(y)[h - 1]
      BY <1>4, <3>1, <3>2
    <3> QED
      BY <1>6, <3>2, <3>3
  <2>9. RightAt(z, q)
    BY <1>8, <2>3, <2>4, <2>7, <2>8
  <2> QED
    BY <2>1, <2>9
<1>13. ASSUME NEW k \in 1 .. n PROVE Decode(z)[k] = Decode(x)[k]
  <2>1. k \in 1 .. n + l /\ k <= n
    BY <1>3
  <2> QED
    BY <1>4, <1>5, <1>11, <2>1
<1>14. ASSUME NEW k \in 1 .. l PROVE Decode(z)[n + k] = Pictures(y)[k].frame
  <2>1. PICK q : q = n + k
    OBVIOUS
  <2>2. q \in 1 .. n + l /\ ~ (q <= n) /\ q - n = k
    BY <1>3, <2>1
  <2>4. RightAt(z, q)
    BY <1>12, <2>1
  <2>3. Decode(z)[q] = Pictures(y)[k].frame
    BY <1>4, <1>5, <2>2, <2>4
  <2> QED
    BY <2>1, <2>3
<1> QED
  BY <1>5, <1>13, <1>14 DEF z, l

----------------------------------------------------------------------------
(* The index of a file. *)

\* The values that tell slice types apart are different.
LEMMA NalFacts ==
    ASSUME NEW nal \in Nals
    PROVE  /\ nal.slice \in {SLICE_P, SLICE_I} /\ nal.frame \in Nat /\ nal.first \in BOOLEAN
           /\ nal.type \in {"set", "slice", "idr", "other"}
           /\ SLICE_P # NoSlice /\ SLICE_I # NoSlice /\ SLICE_P # SLICE_I
           /\ SLICE_P # EndOfFile /\ SLICE_I # EndOfFile
BY DEF Nals, SLICE_P, SLICE_I, NoSlice, EndOfFile

\* The slice type is read right, and of the first slices of pictures only.
LEMMA SliceTypeRight ==
    ASSUME NEW nal \in Nals, NEW typ \in {"hevc", "h264"}
    PROVE  SliceType(nal, typ) = IF IsSlice(nal) /\ nal.first THEN nal.slice ELSE NoSlice
<1>1. CASE IsSlice(nal)
  <2>1. nal.type \in {"slice", "idr"} /\ nal.first \in BOOLEAN /\ nal.slice \in {SLICE_P, SLICE_I}
    <3>1. nal.type \in {"slice", "idr"}
      BY <1>1 DEF IsSlice
    <3> QED
      BY <3>1, NalFacts
  <2>2. Parsed[typ, nal.type, nal.first, nal.slice] = IF nal.first THEN nal.slice ELSE NoSlice
    <3>1. PICK kind \in {"slice", "idr"}, begins \in BOOLEAN, slice \in {SLICE_P, SLICE_I} :
                 kind = nal.type /\ begins = nal.first /\ slice = nal.slice
      BY <2>1
    <3>2. Parsed[typ, kind, begins, slice] = IF begins THEN slice ELSE NoSlice
      BY <3>1, HeadersAssumption, ZenonT(30)
    <3> QED
      BY <3>1, <3>2, Zenon
  <2> QED
    BY <1>1, <2>2, Zenon DEF SliceType
<1>2. CASE ~ IsSlice(nal)
  BY <1>2 DEF SliceType
<1> QED
  BY <1>1, <1>2

\* An entry for every picture, and one for the end.
LEMMA IndexedFacts ==
    ASSUME NEW file \in Seq(Nals), NEW typ \in {"hevc", "h264"}
    PROVE  /\ Indexed(file, typ) = Entry(Indexed(file, typ).index, Only(file, {i \in DOMAIN file : file[i].type = "set"}), <<>>)
           /\ Indexed(file, typ).index \in Seq([slice : Int, offset : Nat])
           /\ Len(Indexed(file, typ).index) = Len(Pictures(file)) + 1
           /\ \A k \in 1 .. Len(Pictures(file)) :
                 /\ Indexed(file, typ).index[k].slice = Pictures(file)[k].slice
                 /\ Indexed(file, typ).index[k].offset = Ascending(FirstSlices(file))[k]
           /\ Indexed(file, typ).index[Len(Pictures(file)) + 1] = [slice |-> EndOfFile, offset |-> Len(file) + 1]
<1> DEFINE n == Len(Pictures(file))
           at == Ascending(FirstSlices(file))
           types == [i \in DOMAIN file |-> SliceType(file[i], typ)]
           list == [k \in 1 .. n |-> [slice |-> types[at[k]], offset |-> at[k]]]
           end == [slice |-> EndOfFile, offset |-> Len(file) + 1]
           prefix == Only(file, {i \in DOMAIN file : file[i].type = "set"})
<1>1. /\ DOMAIN at = 1 .. n /\ n \in Nat /\ Len(file) \in Nat
      /\ \A k \in 1 .. n : at[k] \in 1 .. Len(file) /\ at[k] \in FirstSlices(file) /\ Pictures(file)[k] = file[at[k]]
  <2>1. /\ FirstSlices(file) \in SUBSET (1 .. Len(file)) /\ at \in [1 .. n -> FirstSlices(file)] /\ n \in Nat
        /\ \A k \in 1 .. n : Pictures(file)[k] = file[at[k]]
    BY PicturesFacts
  <2> QED
    BY <2>1
<1>2. \A i \in DOMAIN file : types[i] = IF IsSlice(file[i]) /\ file[i].first THEN file[i].slice ELSE NoSlice
  <2>1. \A i \in DOMAIN file : file[i] \in Nals
    OBVIOUS
  <2> QED
    BY <2>1, SliceTypeRight
<1>3. \A i \in DOMAIN file : file[i].slice # NoSlice
  <2>1. \A i \in DOMAIN file : file[i] \in Nals
    OBVIOUS
  <2> QED
    BY <2>1, NalFacts DEF SLICE_P, SLICE_I, NoSlice
<1> HIDE DEF types
<1>4. {i \in DOMAIN file : types[i] # NoSlice} = FirstSlices(file)
  BY <1>2, <1>3 DEF FirstSlices
<1>5. Vidindex(file, typ) = [index |-> Append([k \in DOMAIN at |-> [slice |-> types[at[k]], offset |-> at[k]]], end),
                             prefix |-> prefix]
  <2>1. Vidindex(file, typ) =
           LET fs == Ascending({i \in DOMAIN file : types[i] # NoSlice})
           IN  [index |-> Append([k \in DOMAIN fs |-> [slice |-> types[fs[k]], offset |-> fs[k]]], end),
                prefix |-> prefix]
    BY Zenon DEF Vidindex, types
  <2> QED
    BY <1>4, <2>1
<1>6. \A k \in 1 .. n : types[at[k]] = Pictures(file)[k].slice /\ Pictures(file)[k].slice \in {SLICE_P, SLICE_I}
  <2> SUFFICES ASSUME NEW k \in 1 .. n PROVE types[at[k]] = Pictures(file)[k].slice /\ Pictures(file)[k].slice \in {SLICE_P, SLICE_I}
    OBVIOUS
  <2>1. at[k] \in DOMAIN file /\ IsSlice(file[at[k]]) /\ file[at[k]].first /\ file[at[k]] \in Nals
    BY <1>1 DEF FirstSlices
  <2> QED
    BY <1>1, <1>2, <2>1, NalFacts
<1> HIDE DEF at, n, end, prefix
<1>7. list \in Seq([slice : Int, offset : Nat]) /\ Len(list) = n
  <2>1. \A k \in 1 .. n : [slice |-> types[at[k]], offset |-> at[k]] \in [slice : Int, offset : Nat]
    <3> SUFFICES ASSUME NEW k \in 1 .. n
                 PROVE  [slice |-> types[at[k]], offset |-> at[k]] \in [slice : Int, offset : Nat]
      OBVIOUS
    <3>1. types[at[k]] \in {SLICE_P, SLICE_I}
      BY <1>6
    <3>2. types[at[k]] \in Int
      BY <3>1 DEF SLICE_P, SLICE_I
    <3>3. at[k] \in Nat
      BY <1>1
    <3> QED
      BY <3>2, <3>3
  <2> QED
    BY <1>1, <2>1
<1>8. end \in [slice : Int, offset : Nat]
  BY <1>1 DEF end, EndOfFile
<1>9. /\ Append(list, end) \in Seq([slice : Int, offset : Nat]) /\ Len(Append(list, end)) = n + 1
      /\ \A k \in 1 .. n : Append(list, end)[k] = list[k]
      /\ Append(list, end)[n + 1] = end
  <2> HIDE DEF list
  <2> QED
    BY <1>7, <1>8, <1>1
<1>10. Indexed(file, typ) = Entry(Append(list, end), prefix, <<>>)
  <2>1. Vidindex(file, typ) = [index |-> Append(list, end), prefix |-> prefix]
    BY <1>1, <1>5
  <2> HIDE DEF list
  <2>2. Vidindex(file, typ).index = Append(list, end)
    BY <2>1
  <2>3. Vidindex(file, typ).prefix = prefix
    BY <2>1
  <2>4. Indexed(file, typ) = Entry(Vidindex(file, typ).index, Vidindex(file, typ).prefix, <<>>)
    BY DEF Indexed
  <2> QED
    BY <2>2, <2>3, <2>4
<1>11. Indexed(file, typ).index = Append(list, end)
  <2> HIDE DEF list
  <2> QED
    BY <1>10 DEF Entry
<1>12. \A k \in 1 .. n : list[k].slice = Pictures(file)[k].slice /\ list[k].offset = at[k]
  BY <1>6
<1> HIDE DEF list
<1> QED
  BY <1>9, <1>10, <1>11, <1>12 DEF at, n, end, prefix

\* The prefix is no picture.
LEMMA PrefixFacts ==
    ASSUME NEW file \in Seq(Nals), NEW prefix, prefix = Only(file, {i \in DOMAIN file : file[i].type = "set"})
    PROVE  /\ prefix \in Seq(Nals) /\ Pictures(prefix) = <<>> /\ Len(Pictures(prefix)) = 0
           /\ prefix # <<>> => HasSet(prefix)
           /\ HasSet(file) => prefix # <<>>
<1> DEFINE S == {i \in DOMAIN file : file[i].type = "set"}
<1>1. S \in SUBSET (1 .. Len(file)) /\ \A i \in S : file[i].type = "set"
  OBVIOUS
<1>2. HasSet(file) => S # {}
  BY DEF HasSet
<1> HIDE DEF S
<1>3. /\ Only(file, S) \in Seq(Nals) /\ Len(Only(file, S)) = Cardinality(S)
      /\ Cardinality(S) \in 0 .. Len(file)
      /\ Ascending(S) \in [1 .. Cardinality(S) -> S]
      /\ \A k \in 1 .. Cardinality(S) : Only(file, S)[k] = file[Ascending(S)[k]]
      /\ \A i \in S : \E k \in 1 .. Cardinality(S) : Only(file, S)[k] = file[i]
  BY <1>1, OnlyFacts
<1>4. prefix = Only(file, S)
  BY DEF S
<1>5. prefix \in Seq(Nals) /\ \A k \in 1 .. Len(prefix) : prefix[k].type = "set"
  <2>1. \A k \in 1 .. Cardinality(S) : Ascending(S)[k] \in S
    BY <1>3
  <2>2. \A k \in 1 .. Cardinality(S) : Only(file, S)[k].type = "set"
    BY <1>1, <1>3, <2>1
  <2> QED
    BY <1>3, <1>4, <2>2
<1>6. FirstSlices(prefix) = {}
  BY <1>5 DEF FirstSlices, IsSlice
<1>7. Len(Pictures(prefix)) = 0 /\ Pictures(prefix) \in Seq(Nals)
  BY <1>5, <1>6, PicturesFacts, FS_EmptySet
<1>8. prefix # <<>> => HasSet(prefix)
  <2>1. prefix # <<>> => 1 \in 1 .. Len(prefix)
    BY <1>5
  <2> QED
    BY <1>5, <2>1 DEF HasSet
<1>9. HasSet(file) => prefix # <<>>
  BY <1>2, <1>3, <1>4
<1> QED
  BY <1>5, <1>7, <1>8, <1>9

----------------------------------------------------------------------------
(* Groups of pictures. *)

\* The group around a frame goes from an I-frame, or the first, to the next, or the end.
LEMMA LookupFacts ==
    ASSUME NEW index, Len(index) \in Nat, NEW num \in 1 .. Len(index), NEW gop, gop = LookupGop(index, num)
    PROVE  /\ gop = [b |-> gop.b, e |-> gop.e]
           /\ gop.b \in 1 .. num /\ (gop.b = 1 \/ index[gop.b].slice = SLICE_I)
           /\ \A c \in gop.b + 1 .. num : index[c].slice # SLICE_I
           /\ gop.e \in num + 1 .. (IF num < Len(index) THEN Len(index) ELSE num + 1)
           /\ gop.e = (IF num < Len(index) THEN Len(index) ELSE num + 1) \/ index[gop.e].slice = SLICE_I
           /\ \A c \in num + 1 .. gop.e - 1 : index[c].slice # SLICE_I
<1> DEFINE back == {b \in 1 .. num : b = 1 \/ index[b].slice = SLICE_I}
           end == IF num < Len(index) THEN Len(index) ELSE num + 1
           forth == {e \in num + 1 .. end : e = end \/ index[e].slice = SLICE_I}
           b0 == CHOOSE b \in back : \A c \in back : c <= b
           e0 == CHOOSE e \in forth : \A c \in forth : e <= c
<1>1. gop = [b |-> b0, e |-> e0]
  BY Zenon DEF LookupGop
<1>2. end \in Nat /\ end \in num + 1 .. end
  OBVIOUS
<1>3. b0 \in back /\ \A c \in back : c <= b0
  <2>1. back \in SUBSET (1 .. num) /\ back # {} /\ num \in Nat
    OBVIOUS
  <2> HIDE DEF back
  <2> QED
    BY <2>1, PlaceExtremes
<1>4. e0 \in forth /\ \A c \in forth : e0 <= c
  <2>1. end \in forth
    BY <1>2
  <2>2. forth \in SUBSET (1 .. end)
    BY <1>2
  <2> HIDE DEF forth, end
  <2>3. \E e \in forth : \A c \in forth : e <= c
    BY <1>2, <2>1, <2>2, PlaceExtremes
  <2> QED
    BY <2>3
<1> HIDE DEF b0, e0
<1>5. gop.b = b0 /\ gop.e = e0
  BY <1>1
<1>6. \A c \in b0 + 1 .. num : index[c].slice # SLICE_I
  <2> SUFFICES ASSUME NEW c \in b0 + 1 .. num, index[c].slice = SLICE_I PROVE FALSE
    OBVIOUS
  <2>1. b0 \in 1 .. num
    BY <1>3
  <2>2. c \in back /\ ~ (c <= b0)
    BY <2>1
  <2> QED
    BY <1>3, <2>2
<1>7. \A c \in num + 1 .. e0 - 1 : index[c].slice # SLICE_I
  <2> SUFFICES ASSUME NEW c \in num + 1 .. e0 - 1, index[c].slice = SLICE_I PROVE FALSE
    OBVIOUS
  <2>1. e0 \in num + 1 .. end
    BY <1>4
  <2> HIDE DEF end
  <2>2. c \in num + 1 .. end /\ ~ (e0 <= c)
    BY <1>2, <2>1
  <2>3. c \in forth
    BY <2>2
  <2> QED
    BY <1>4, <2>2, <2>3
<1> QED
  BY <1>1, <1>3, <1>4, <1>5, <1>6, <1>7

\* What is put before the first group of a file that begins inside of one.
Continued(data, frames_before, file) ==
    /\ data \in Seq(Nals) /\ data # <<>>
    /\ Len(Pictures(data)) = frames_before /\ frames_before # 0
    /\ Pictures(data)[1].slice = SLICE_I /\ Consecutive(Pictures(data))
    /\ Pictures(file)[1].frame = Pictures(data)[frames_before].frame + 1

\* An index is right for a file.
Tabled(index_entry, file) ==
    /\ DOMAIN index_entry.index = 1 .. Len(index_entry.index)
    /\ Len(index_entry.index) \in {Len(Pictures(file)), Len(Pictures(file)) + 1}
    /\ \A k \in 1 .. Len(Pictures(file)) : index_entry.index[k].slice = Pictures(file)[k].slice
    /\ Len(index_entry.index) = Len(Pictures(file)) + 1 => index_entry.index[Len(Pictures(file)) + 1].slice = EndOfFile
    /\ Len(index_entry.index) = Len(Pictures(file)) => Starts(file)
    /\ index_entry.global_prefix \in Seq(Nals) /\ HasSet(index_entry.global_prefix)
    /\ Pictures(index_entry.global_prefix) = <<>>
    /\ \A b \in 1 .. Len(Pictures(file)), e \in 1 .. Len(Pictures(file)) + 1 :
          b < e => PartOf(GopData(file, index_entry, [b |-> b, e |-> e]), file, b, e)
    /\ Starts(file) \/ Continued(index_entry.prefix_frame_data, index_entry.num_prefix_frames, file)

\* What an encoder writes: pictures, numbered, and in groups that fit into the cache.
LEMMA EncodedFacts ==
    ASSUME NEW file, Encoded(file)
    PROVE  /\ file \in Seq(Nals) /\ Pictures(file) \in Seq(Nals) /\ Len(Pictures(file)) \in Nat \ {0}
           /\ \A k \in 1 .. Len(Pictures(file)) : /\ Pictures(file)[k].slice \in {SLICE_P, SLICE_I}
                                                  /\ Pictures(file)[k].frame \in Nat
           /\ \A k \in 2 .. Len(Pictures(file)) : Pictures(file)[k].frame = Pictures(file)[k - 1].frame + 1
           /\ \A k \in 1 .. Len(Pictures(file)) - CacheSize :
                 \E i \in k + 1 .. k + CacheSize : Pictures(file)[i].slice = SLICE_I
<1>1. file \in Seq(Nals) /\ Pictures(file) # <<>>
  BY DEF Encoded
<1>2. PICK p \in Seq(Nals) : p = Pictures(file)
  BY <1>1, PicturesFacts
<1>3. Len(p) \in Nat \ {0} /\ \A k \in 1 .. Len(p) : p[k] \in Nals
  BY <1>1, <1>2
<1>4. \A k \in 1 .. Len(p) : p[k].slice \in {SLICE_P, SLICE_I} /\ p[k].frame \in Nat
  BY <1>3, NalFacts
<1> QED
  BY <1>1, <1>2, <1>3, <1>4 DEF Encoded, Consecutive, GroupsOf

\* The frames that an index counts are the pictures of its file.
LEMMA CountIs ==
    ASSUME NEW file, Encoded(file), NEW entry_, Tabled(entry_, file)
    PROVE  FrameCount(entry_) = Len(Pictures(file))
<1> DEFINE n == Len(Pictures(file))
<1>1. n \in Nat \ {0} /\ Pictures(file)[n].slice # EndOfFile
  BY EncodedFacts DEF SLICE_P, SLICE_I, EndOfFile
<1>2. /\ Len(entry_.index) \in {n, n + 1} /\ entry_.index[n].slice = Pictures(file)[n].slice
      /\ Len(entry_.index) = n + 1 => entry_.index[n + 1].slice = EndOfFile
  BY <1>1 DEF Tabled
<1> HIDE DEF n
<1>3. Last(entry_.index) = entry_.index[Len(entry_.index)]
  BY DEF Last
<1>4. CASE Len(entry_.index) = n
  BY <1>1, <1>2, <1>3, <1>4 DEF FrameCount, n
<1>5. CASE Len(entry_.index) = n + 1
  <2>1. Last(entry_.index).slice = EndOfFile
    BY <1>2, <1>3, <1>5
  <2> QED
    BY <1>1, <1>5, <2>1 DEF FrameCount, n
<1> QED
  BY <1>2, <1>4, <1>5

\* The frames of a group; and it begins with an I-frame, or what is put before it does.
LEMMA GroupPlaces ==
    ASSUME NEW file, Encoded(file), NEW entry_, Tabled(entry_, file), NEW num \in 1 .. Len(Pictures(file)),
           NEW gop, gop = LookupGop(entry_.index, num)
    PROVE  /\ gop = [b |-> gop.b, e |-> gop.e]
           /\ gop.b \in 1 .. num /\ gop.e \in num + 1 .. Len(Pictures(file)) + 1
           /\ gop.e - gop.b <= CacheSize
           /\ gop.b = 1 \/ Pictures(file)[gop.b].slice = SLICE_I
           /\ \A c \in gop.b + 1 .. num : Pictures(file)[c].slice # SLICE_I
           /\ gop.e <= Len(Pictures(file)) =>
                 \/ Pictures(file)[gop.e].slice = SLICE_I
                 \/ gop.e = Len(Pictures(file)) /\ Len(entry_.index) = Len(Pictures(file))
           /\ num < FirstIFrame(entry_.index) => gop.b = 1 /\ Pictures(file)[1].slice # SLICE_I
           /\ ~ (num < FirstIFrame(entry_.index)) => Pictures(file)[gop.b].slice = SLICE_I
<1> DEFINE n == Len(Pictures(file))
           index == entry_.index
           first == FirstIFrame(index)
<1>1. /\ n \in Nat \ {0} /\ CacheSize \in Nat \ {0}
      /\ \A k \in 1 .. n - CacheSize : \E i \in k + 1 .. k + CacheSize : Pictures(file)[i].slice = SLICE_I
  BY EncodedFacts, FrameReaderAssumption
<1>2. /\ Len(index) \in {n, n + 1}
      /\ \A k \in 1 .. n : index[k].slice = Pictures(file)[k].slice
      /\ Len(index) = n => Pictures(file)[1].slice = SLICE_I
      /\ Len(index) = n + 1 => index[n + 1].slice = EndOfFile
  BY DEF Tabled, Starts
<1>3. Len(index) \in Nat /\ num \in 1 .. n /\ num \in 1 .. Len(index)
  BY <1>1, <1>2
<1>4. first = CHOOSE i \in DOMAIN index : /\ index[i].slice = SLICE_I \/ i = Len(index)
                                         /\ \A j \in 1 .. i - 1 : index[j].slice # SLICE_I
  BY DEF FirstIFrame
<1>5. SLICE_I # EndOfFile
  BY DEF SLICE_I, EndOfFile
<1>d. DOMAIN index = 1 .. Len(index)
  BY DEF Tabled
<1> HIDE DEF n, index, first
<1>6. /\ gop = [b |-> gop.b, e |-> gop.e]
      /\ gop.b \in 1 .. num /\ (gop.b = 1 \/ index[gop.b].slice = SLICE_I)
      /\ \A c \in gop.b + 1 .. num : index[c].slice # SLICE_I
      /\ gop.e \in num + 1 .. (IF num < Len(index) THEN Len(index) ELSE num + 1)
      /\ gop.e = (IF num < Len(index) THEN Len(index) ELSE num + 1) \/ index[gop.e].slice = SLICE_I
      /\ \A c \in num + 1 .. gop.e - 1 : index[c].slice # SLICE_I
  BY <1>3, LookupFacts DEF index
<1>7. gop.b \in 1 .. n /\ gop.e \in num + 1 .. n + 1
  BY <1>1, <1>2, <1>3, <1>6
<1>8. gop.e - gop.b <= CacheSize
  <2> SUFFICES ASSUME gop.e - gop.b > CacheSize PROVE FALSE
    BY <1>1, <1>6, <1>7
  <2>1. gop.b \in 1 .. n - CacheSize
    BY <1>1, <1>7
  <2>2. PICK i \in gop.b + 1 .. gop.b + CacheSize : Pictures(file)[i].slice = SLICE_I
    BY <1>1, <2>1
  <2>3. i \in 1 .. n /\ index[i].slice = SLICE_I /\ i < gop.e
    BY <1>1, <1>2, <1>7, <2>1, <2>2, SMTT(40)
  <2>4. i \in gop.b + 1 .. num \/ i \in num + 1 .. gop.e - 1
    BY <1>3, <1>7, <2>2, <2>3
  <2> QED
    BY <1>6, <2>3, <2>4
<1>9. gop.e <= n => \/ Pictures(file)[gop.e].slice = SLICE_I
                    \/ gop.e = n /\ Len(index) = n
  <2> SUFFICES ASSUME gop.e <= n PROVE \/ Pictures(file)[gop.e].slice = SLICE_I
                                       \/ gop.e = n /\ Len(index) = n
    OBVIOUS
  <2>1. gop.e \in 1 .. n /\ num < n
    BY <1>1, <1>3, <1>7
  <2>2. num < Len(index)
    BY <1>1, <1>2, <2>1
  <2>3. gop.e = Len(index) \/ index[gop.e].slice = SLICE_I
    BY <1>6, <2>2
  <2> QED
    BY <1>1, <1>2, <2>1, <2>3
<1>10. /\ first \in 1 .. Len(index) /\ (index[first].slice = SLICE_I \/ first = Len(index))
       /\ \A j \in 1 .. first - 1 : index[j].slice # SLICE_I
  <2> DEFINE P(i) == /\ index[i].slice = SLICE_I \/ i = Len(index)
                     /\ \A j \in 1 .. i - 1 : index[j].slice # SLICE_I
             S == {i \in 1 .. Len(index) : index[i].slice = SLICE_I \/ i = Len(index)}
  <2>1. Len(index) \in S /\ S \in SUBSET (1 .. Len(index))
    BY <1>3
  <2>2. PICK i \in S : \A j \in S : i <= j
    <3> HIDE DEF S
    <3> QED
      BY <1>3, <2>1, PlaceExtremes
  <2>3. P(i)
    <3>1. ASSUME NEW j \in 1 .. i - 1, index[j].slice = SLICE_I PROVE FALSE
      <4>1. j \in S /\ ~ (i <= j)
        BY <1>3, <3>1
      <4> QED
        BY <2>2, <4>1
    <3> QED
      BY <3>1
  <2>4. i \in DOMAIN index
    BY <1>d
  <2>5. first = CHOOSE j \in DOMAIN index : P(j)
    BY <1>4
  <2> HIDE DEF P, S
  <2>6. first \in DOMAIN index /\ P(first)
    BY <2>3, <2>4, <2>5
  <2> QED
    BY <1>d, <2>6 DEF P
<1>11. num < first => gop.b = 1 /\ Pictures(file)[1].slice # SLICE_I
  <2> SUFFICES ASSUME num < first PROVE gop.b = 1 /\ Pictures(file)[1].slice # SLICE_I
    OBVIOUS
  <2>1. \A j \in 1 .. num : index[j].slice # SLICE_I
    BY <1>3, <1>10
  <2>2. gop.b = 1
    BY <1>6, <2>1
  <2>3. index[1].slice # SLICE_I
    BY <1>3, <2>1
  <2> QED
    BY <1>1, <1>2, <2>2, <2>3
<1>12. ~ (num < first) => Pictures(file)[gop.b].slice = SLICE_I
  <2> SUFFICES ASSUME ~ (num < first), Pictures(file)[gop.b].slice # SLICE_I PROVE FALSE
    OBVIOUS
  <2>1. gop.b = 1 /\ index[1].slice # SLICE_I
    BY <1>2, <1>6, <1>7
  <2>2. Len(index) = n + 1
    BY <1>1, <1>2, <2>1
  <2>3. index[first].slice = SLICE_I /\ first # 1
    <3>1. first <= num /\ num < Len(index) /\ first \in 1 .. Len(index)
      BY <1>1, <1>3, <1>10, <2>2
    <3>2. index[first].slice = SLICE_I
      BY <1>10, <3>1
    <3> QED
      BY <2>1, <3>2
  <2>4. first \in gop.b + 1 .. num
    BY <1>3, <1>10, <2>1, <2>3
  <2> QED
    BY <1>6, <2>3, <2>4
<1> QED
  <2>1. num < FirstIFrame(entry_.index) <=> num < first
    BY DEF first, index
  <2>2. gop = [b |-> gop.b, e |-> gop.e]
    BY <1>6
  <2>3. gop.b \in 1 .. num /\ gop.e \in num + 1 .. Len(Pictures(file)) + 1
    BY <1>6, <1>7 DEF n
  <2>4. gop.b = 1 \/ Pictures(file)[gop.b].slice = SLICE_I
    BY <1>2, <1>6, <1>7
  <2>5. \A c \in gop.b + 1 .. num : Pictures(file)[c].slice # SLICE_I
    <3>1. \A c \in gop.b + 1 .. num : c \in 1 .. n
      BY <1>1, <1>3, <1>7
    <3> QED
      BY <1>2, <1>6, <3>1
  <2>6. gop.e <= Len(Pictures(file)) =>
           Pictures(file)[gop.e].slice = SLICE_I \/ (gop.e = Len(Pictures(file)) /\ Len(entry_.index) = Len(Pictures(file)))
    BY <1>9 DEF n, index
  <2>7. num < FirstIFrame(entry_.index) => gop.b = 1 /\ Pictures(file)[1].slice # SLICE_I
    BY <1>11, <2>1
  <2>8. ~ (num < FirstIFrame(entry_.index)) => Pictures(file)[gop.b].slice = SLICE_I
    BY <1>12, <2>1
  <2> HIDE DEF n, index
  <2> QED
    BY <1>8, <2>2, <2>3, <2>4, <2>5, <2>6, <2>7, <2>8

\* Nothing is in an empty stream.
LEMMA NoPictures ==
    /\ <<>> \in Seq(Nals) /\ Pictures(<<>>) = <<>> /\ Len(Pictures(<<>>)) = 0
    /\ Decode(<<>>) = <<>>
<1>1. FirstSlices(<<>>) = {}
  BY DEF FirstSlices
<1>2. Len(Pictures(<<>>)) = 0 /\ Pictures(<<>>) \in Seq(Nals)
  <2>1. <<>> \in Seq(Nals)
    OBVIOUS
  <2>2. Pictures(<<>>) \in Seq(Nals) /\ Len(Pictures(<<>>)) = Cardinality(FirstSlices(<<>>))
    BY <2>1, PicturesFacts
  <2> QED
    BY <1>1, <2>2, FS_EmptySet
<1>3. Decode(<<>>) \in Seq(Nat) /\ Len(Decode(<<>>)) = 0
  BY <1>2, DecodeFacts
<1> QED
  BY <1>2, <1>3

\* After some frames, pictures of a file come out of a decoder, right.
ComesOut(data, before, pictures, b, count) ==
    \A k \in 1 .. count : Decode(data)[before + k] = pictures[b + k - 1].frame

\* What a group of pictures is decoded to, behind any stream: what has to be skipped, and its frames.
LEMMA GroupRight ==
    ASSUME NEW file, Encoded(file), NEW entry_, Tabled(entry_, file), NEW num \in 1 .. Len(Pictures(file)),
           NEW x \in Seq(Nals), NEW gop, gop = GetGop(file, entry_, num)
    PROVE  /\ gop.frame_b = LookupGop(entry_.index, num).b
           /\ gop.num_frames = LookupGop(entry_.index, num).e - LookupGop(entry_.index, num).b
           /\ gop.skip_frames \in Nat
           /\ gop.skip_frames # 0 => Pictures(file)[1].slice # SLICE_I /\ gop.frame_b = 1
           /\ ~ (num < FirstIFrame(entry_.index) /\ entry_.prefix_frame_data = <<>>)
           /\ gop.rawdat \in Seq(Nals)
           /\ Len(Decode(x \o gop.rawdat)) = Len(Decode(x)) + gop.skip_frames + gop.num_frames
           /\ \A k \in 1 .. Len(Decode(x)) : Decode(x \o gop.rawdat)[k] = Decode(x)[k]
           /\ ComesOut(x \o gop.rawdat, Len(Decode(x)) + gop.skip_frames, Pictures(file), gop.frame_b, gop.num_frames)
<1> DEFINE look == LookupGop(entry_.index, num)
           early == num < FirstIFrame(entry_.index)
           b == look.b
           e == look.e
           p == entry_.global_prefix
           P == IF early THEN entry_.prefix_frame_data ELSE <<>>
           D == GopData(file, entry_, look)
           v == P \o D
           skip == IF early THEN entry_.num_prefix_frames ELSE 0
           q == Pictures(file)
<1>1. /\ gop.frame_b = b /\ gop.num_frames = e - b /\ gop.skip_frames = skip /\ gop.rawdat = (p \o P) \o D
  BY DEF GetGop
<1>2. /\ look = [b |-> b, e |-> e] /\ b \in 1 .. num /\ e \in num + 1 .. Len(q) + 1
      /\ early => b = 1 /\ q[1].slice # SLICE_I
      /\ ~ early => q[b].slice = SLICE_I
  BY GroupPlaces
<1>3. /\ Len(q) \in Nat /\ num \in 1 .. Len(q) /\ q \in Seq(Nals)
      /\ \A k \in 2 .. Len(q) : q[k].frame = q[k - 1].frame + 1
  BY EncodedFacts
<1>4. D \in Seq(Nals) /\ Len(Pictures(D)) = e - b /\ \A k \in 1 .. e - b : Pictures(D)[k] = q[b + k - 1]
  <2>1. b \in 1 .. Len(q) /\ e \in 1 .. Len(q) + 1 /\ b < e
    BY <1>2, <1>3
  <2>2. PartOf(GopData(file, entry_, [b |-> b, e |-> e]), file, b, e)
    BY <2>1 DEF Tabled
  <2>3. PartOf(D, file, b, e)
    BY <1>2, <2>2
  <2> QED
    BY <2>3 DEF PartOf
<1>5. early => Continued(entry_.prefix_frame_data, entry_.num_prefix_frames, file)
  BY <1>2 DEF Tabled, Starts
<1>6. p \in Seq(Nals) /\ HasSet(p) /\ Pictures(p) = <<>> /\ Len(Pictures(p)) = 0
  BY DEF Tabled
<1> HIDE DEF D, p, q, early, b, e, look
<1>7. /\ P \in Seq(Nals) /\ Len(Pictures(P)) = skip /\ skip \in Nat
      /\ skip # 0 => early
      /\ early => P # <<>> /\ skip # 0 /\ Pictures(P)[1].slice = SLICE_I
                  /\ Consecutive(Pictures(P)) /\ q[1].frame = Pictures(P)[skip].frame + 1
  <2>1. CASE early
    <3>1. P \in Seq(Nals) /\ Len(Pictures(P)) = skip /\ skip # 0
      BY <1>5, <2>1 DEF Continued
    <3>2. Pictures(P) \in Seq(Nals)
      BY <3>1, PicturesFacts
    <3> QED
      BY <1>5, <2>1, <3>1, <3>2 DEF Continued, q
  <2>2. CASE ~ early
    BY <2>2, NoPictures
  <2> QED
    BY <2>1, <2>2
<1> HIDE DEF P, skip
<1>8. /\ v \in Seq(Nals) /\ Pictures(v) = Pictures(P) \o Pictures(D)
      /\ Len(Pictures(v)) = skip + (e - b) /\ Pictures(P) \in Seq(Nals) /\ Pictures(D) \in Seq(Nals)
  <2>1. v \in Seq(Nals) /\ Pictures(v) = Pictures(P) \o Pictures(D) /\ Len(Pictures(v)) = Len(Pictures(P)) + Len(Pictures(D))
    BY <1>4, <1>7, PicturesConcat
  <2>2. Pictures(P) \in Seq(Nals)
    BY <1>7, PicturesFacts
  <2>3. Pictures(D) \in Seq(Nals)
    BY <1>4, PicturesFacts
  <2> QED
    BY <1>4, <1>7, <2>1, <2>2, <2>3
<1>9. \A k \in 1 .. skip + (e - b) : Pictures(v)[k] = IF k <= skip THEN Pictures(P)[k] ELSE q[b + (k - skip) - 1]
  <2>1. PICK r \in Seq(Nals), s \in Seq(Nals) : r = Pictures(P) /\ s = Pictures(D)
    BY <1>8
  <2>2. \A k \in 1 .. Len(r) + Len(s) : (r \o s)[k] = IF k <= Len(r) THEN r[k] ELSE s[k - Len(r)]
    BY ConcatProperties
  <2>3. \A k \in 1 .. skip + (e - b) : Pictures(v)[k] = IF k <= skip THEN Pictures(P)[k] ELSE Pictures(D)[k - skip]
    BY <1>4, <1>7, <1>8, <2>1, <2>2
  <2>4. \A k \in 1 .. skip + (e - b) : ~ (k <= skip) => Pictures(D)[k - skip] = q[b + (k - skip) - 1]
    <3> SUFFICES ASSUME NEW k \in 1 .. skip + (e - b), ~ (k <= skip) PROVE Pictures(D)[k - skip] = q[b + (k - skip) - 1]
      OBVIOUS
    <3>1. k - skip \in 1 .. e - b
      BY <1>2, <1>3, <1>7
    <3> QED
      BY <1>4, <3>1
  <2> QED
    BY <2>3, <2>4
<1>10. b \in 1 .. Len(q) /\ e \in b + 1 .. Len(q) + 1 /\ e - b \in Nat
  BY <1>2, <1>3
<1> HIDE DEF v
<1>11. Pictures(v)[1].slice = SLICE_I
  <2>1. CASE early
    <3>1. 1 \in 1 .. skip + (e - b) /\ 1 <= skip
      BY <1>7, <1>10, <2>1
    <3> QED
      BY <1>7, <1>9, <2>1, <3>1
  <2>2. CASE ~ early
    <3>1. skip = 0
      BY <1>7, <2>2
    <3>2. 1 \in 1 .. skip + (e - b) /\ ~ (1 <= skip) /\ b + (1 - skip) - 1 = b
      BY <1>10, <3>1
    <3>3. Pictures(v)[1] = q[b]
      BY <1>9, <3>2
    <3> QED
      BY <1>2, <2>2, <3>3
  <2> QED
    BY <2>1, <2>2
<1>12. Consecutive(Pictures(v))
  <2> SUFFICES ASSUME NEW m \in 2 .. skip + (e - b) PROVE Pictures(v)[m].frame = Pictures(v)[m - 1].frame + 1
    BY <1>8 DEF Consecutive
  <2>1. m \in 1 .. skip + (e - b) /\ m - 1 \in 1 .. skip + (e - b)
    BY <1>7, <1>10
  <2>2. CASE m <= skip
    <3>1. early /\ m \in 2 .. Len(Pictures(P))
      BY <1>7, <1>10, <2>2
    <3>2. Pictures(P)[m].frame = Pictures(P)[m - 1].frame + 1
      BY <1>7, <3>1 DEF Consecutive
    <3> QED
      BY <1>7, <1>9, <2>1, <2>2, <3>2
  <2>3. CASE m = skip + 1
    <3>1. early /\ b = 1
      BY <1>2, <1>7, <2>3
    <3>2. b + (m - skip) - 1 = 1 /\ ~ (m <= skip) /\ m - 1 = skip
      BY <1>7, <2>3, <3>1
    <3> QED
      BY <1>7, <1>9, <2>1, <3>1, <3>2
  <2>4. CASE m > skip + 1
    <3>1. PICK k : k = b + (m - skip) - 1
      OBVIOUS
    <3>2. k \in 2 .. Len(q) /\ b + ((m - 1) - skip) - 1 = k - 1 /\ ~ (m <= skip) /\ ~ (m - 1 <= skip)
      BY <1>3, <1>7, <1>10, <2>4, <3>1
    <3>3. Pictures(v)[m] = q[k] /\ Pictures(v)[m - 1] = q[k - 1]
      BY <1>9, <2>1, <3>1, <3>2
    <3> QED
      BY <1>3, <3>2, <3>3
  <2> QED
    BY <1>7, <2>2, <2>3, <2>4
<1> DEFINE u == x \o p
           raw == (p \o P) \o D
<1>13. raw \in Seq(Nals) /\ x \o raw = u \o v /\ u \in Seq(Nals)
  <2>1. u \in Seq(Nals) /\ p \o P \in Seq(Nals) /\ raw \in Seq(Nals) /\ v \in Seq(Nals)
    BY <1>4, <1>6, <1>7, <1>8, ConcatProperties
  <2>2. raw = p \o v
    BY <1>4, <1>6, <1>7, ConcatAssociative, SMTT(40) DEF v
  <2>3. (x \o p) \o v = x \o (p \o v)
    <3>1. v \in Seq(Nals)
      BY <1>8
    <3> HIDE DEF v
    <3> QED
      BY <1>6, <3>1, ConcatAssociative
  <2> QED
    BY <2>1, <2>2, <2>3
<1>14. HasSet(u)
  <2>1. PICK i \in 1 .. Len(p) : p[i].type = "set"
    BY <1>6 DEF HasSet
  <2>2. /\ Len(u) = Len(x) + Len(p) /\ Len(x) \in Nat /\ Len(p) \in Nat
        /\ \A j \in 1 .. Len(x) + Len(p) : u[j] = IF j <= Len(x) THEN x[j] ELSE p[j - Len(x)]
    BY <1>6, ConcatProperties
  <2>3. PICK j : j = Len(x) + i
    OBVIOUS
  <2>4. j \in 1 .. Len(u) /\ ~ (j <= Len(x)) /\ j - Len(x) = i
    BY <2>2, <2>3
  <2>5. u[j].type = "set"
    BY <2>1, <2>2, <2>4
  <2> HIDE DEF u
  <2> QED
    BY <2>4, <2>5 DEF HasSet
<1>15. Len(Decode(u)) = Len(Decode(x)) /\ \A k \in 1 .. Len(Decode(x)) : Decode(u)[k] = Decode(x)[k]
  <2>1. Consecutive(Pictures(p))
    BY <1>6 DEF Consecutive
  <2>2. Len(Decode(x)) \in Nat
    BY DecodeFacts
  <2>3. Len(Decode(u)) = Len(Decode(x)) + Len(Pictures(p))
    BY <1>6, <2>1, DecodeAppend
  <2>4. \A k \in 1 .. Len(Decode(x)) : Decode(u)[k] = Decode(x)[k]
    BY <1>6, <2>1, DecodeAppend
  <2> QED
    BY <1>6, <2>2, <2>3, <2>4
<1> HIDE DEF u, raw
<1>16. Len(Decode(u \o v)) = Len(Decode(u)) + Len(Pictures(v))
  BY <1>8, <1>11, <1>12, <1>13, <1>14, DecodeAppend
<1>17. \A k \in 1 .. Len(Decode(u)) : Decode(u \o v)[k] = Decode(u)[k]
  BY <1>8, <1>11, <1>12, <1>13, <1>14, DecodeAppend
<1>18. \A k \in 1 .. Len(Pictures(v)) : Decode(u \o v)[Len(Decode(u)) + k] = Pictures(v)[k].frame
  BY <1>8, <1>11, <1>12, <1>13, <1>14, DecodeAppend
<1>19. Len(Decode(x)) \in Nat
  BY DecodeFacts
<1>20. ComesOut(x \o raw, Len(Decode(x)) + skip, q, b, e - b)
  <2> SUFFICES ASSUME NEW k \in 1 .. e - b PROVE Decode(x \o raw)[Len(Decode(x)) + skip + k] = q[b + k - 1].frame
    BY DEF ComesOut
  <2>1. PICK i : i = skip + k
    OBVIOUS
  <2>2. i \in 1 .. Len(Pictures(v)) /\ i \in 1 .. skip + (e - b) /\ ~ (i <= skip) /\ i - skip = k
    BY <1>7, <1>8, <1>10, <2>1
  <2>3. Decode(u \o v)[Len(Decode(u)) + i] = q[b + k - 1].frame
    BY <1>9, <1>18, <2>2
  <2>4. Len(Decode(u)) + i = Len(Decode(x)) + skip + k
    BY <1>7, <1>15, <1>19, <2>1
  <2> QED
    BY <1>13, <2>3, <2>4
<1>21. Len(Decode(x \o raw)) = Len(Decode(x)) + skip + (e - b)
  BY <1>7, <1>8, <1>10, <1>13, <1>15, <1>16, <1>19
<1>22. \A k \in 1 .. Len(Decode(x)) : Decode(x \o raw)[k] = Decode(x)[k]
  BY <1>13, <1>15, <1>17
<1>23. gop.rawdat = raw
  BY <1>1 DEF raw
<1>24. ~ (num < FirstIFrame(entry_.index) /\ entry_.prefix_frame_data = <<>>)
  BY <1>7 DEF P, early
<1>25. gop.skip_frames # 0 => Pictures(file)[1].slice # SLICE_I /\ gop.frame_b = 1
  BY <1>1, <1>2, <1>7 DEF q
<1>26. gop.frame_b = LookupGop(entry_.index, num).b
  BY <1>1 DEF b, look
<1>27. gop.num_frames = LookupGop(entry_.index, num).e - LookupGop(entry_.index, num).b
  BY <1>1 DEF b, e, look
<1> QED
  BY <1>1, <1>7, <1>13, <1>20, <1>21, <1>22, <1>23, <1>24, <1>25, <1>26, <1>27 DEF q

\* A group that a reader decodes is all of its frames, right, and no more than the cache holds.
LEMMA DecodeGopRight ==
    ASSUME NEW file, Encoded(file), NEW entry_, Tabled(entry_, file), NEW num \in 1 .. Len(Pictures(file)),
           NEW gop, gop = GetGop(file, entry_, num)
    PROVE  /\ DecodeGop(gop) \in Seq(Nat) /\ DecodeGop(gop) # Raises
           /\ ~ (num < FirstIFrame(entry_.index) /\ entry_.prefix_frame_data = <<>>)
           /\ Len(DecodeGop(gop)) \in 1 .. CacheSize
           /\ gop.frame_b \in 1 .. num /\ num < gop.frame_b + Len(DecodeGop(gop))
           /\ gop.frame_b + Len(DecodeGop(gop)) <= Len(Pictures(file)) + 1
           /\ \A k \in 1 .. Len(DecodeGop(gop)) :
                 DecodeGop(gop)[k] = Pictures(file)[gop.frame_b + k - 1].frame
<1> DEFINE look == LookupGop(entry_.index, num)
           n == Len(Pictures(file))
           raw == gop.rawdat
           skip == gop.skip_frames
           all == Decode(raw)
           ret == DecodeGop(gop)
           sub == SubSeq(all, skip + 1, Len(all))
<1>1. n \in Nat /\ CacheSize \in Nat
  BY EncodedFacts, FrameReaderAssumption
<1>2. look.b \in 1 .. num /\ look.e \in num + 1 .. n + 1 /\ look.e - look.b <= CacheSize
  BY GroupPlaces
<1>3. <<>> \in Seq(Nals) /\ Len(Decode(<<>>)) = 0
  BY NoPictures
<1>p. PICK x \in Seq(Nals) : x = <<>>
  BY <1>3
<1>4. /\ gop.frame_b = look.b /\ gop.num_frames = look.e - look.b
      /\ skip \in Nat /\ raw \in Seq(Nals)
      /\ ~ (num < FirstIFrame(entry_.index) /\ entry_.prefix_frame_data = <<>>)
  <2>1. gop.frame_b = LookupGop(entry_.index, num).b
    BY GroupRight
  <2>2. gop.num_frames = LookupGop(entry_.index, num).e - LookupGop(entry_.index, num).b
    BY GroupRight
  <2>3. gop.skip_frames \in Nat
    BY GroupRight
  <2>4. gop.rawdat \in Seq(Nals)
    BY GroupRight
  <2>5. ~ (num < FirstIFrame(entry_.index) /\ entry_.prefix_frame_data = <<>>)
    BY GroupRight
  <2> QED
    BY <2>1, <2>2, <2>3, <2>4, <2>5
<1>5. Len(Decode(<<>> \o raw)) = 0 + skip + gop.num_frames
  <2>1. Len(Decode(x \o gop.rawdat)) = Len(Decode(x)) + gop.skip_frames + gop.num_frames
    BY GroupRight
  <2> QED
    BY <1>3, <1>p, <2>1
<1>6. \A k \in 1 .. gop.num_frames : Decode(<<>> \o raw)[0 + skip + k] = Pictures(file)[gop.frame_b + k - 1].frame
  <2>1. ComesOut(x \o gop.rawdat, Len(Decode(x)) + gop.skip_frames, Pictures(file), gop.frame_b, gop.num_frames)
    BY GroupRight
  <2> QED
    BY <1>3, <1>p, <2>1 DEF ComesOut
<1> HIDE DEF raw, n, look, skip
<1>7. <<>> \o raw = raw
  BY <1>4, ConcatEmptySeq
<1>8. all \in Seq(Nat)
  BY <1>4, DecodeFacts
<1>9. gop.num_frames \in 1 .. CacheSize
  BY <1>1, <1>2, <1>4
<1>10. Len(all) = skip + gop.num_frames
  BY <1>4, <1>5, <1>7, <1>9
<1> HIDE DEF all
<1>11. /\ sub \in Seq(Nat) /\ Len(sub) = gop.num_frames
       /\ \A k \in 1 .. gop.num_frames : sub[k] = all[skip + 1 + k - 1]
  <2>1. PICK lo \in Int, hi \in Int : lo = skip + 1 /\ hi = Len(all)
    BY <1>4, <1>8
  <2>2. \A i \in lo .. hi : all[i] \in Nat
    BY <1>4, <1>8, <2>1
  <2>3. /\ SubSeq(all, lo, hi) \in Seq(Nat)
        /\ Len(SubSeq(all, lo, hi)) = IF lo <= hi THEN hi - lo + 1 ELSE 0
        /\ \A i \in 1 .. hi - lo + 1 : SubSeq(all, lo, hi)[i] = all[lo + i - 1]
    BY <2>2, SubSeqProperties
  <2>4. hi - lo + 1 = gop.num_frames /\ lo <= hi
    BY <1>1, <1>4, <1>9, <1>10, <2>1
  <2> QED
    BY <2>1, <2>3, <2>4
<1>12. ret = sub
  BY <1>11 DEF DecodeGop, Skip, all, raw, skip
<1> HIDE DEF ret, sub
<1>13. \A k \in 1 .. gop.num_frames : ret[k] = Pictures(file)[gop.frame_b + k - 1].frame
  <2> SUFFICES ASSUME NEW k \in 1 .. gop.num_frames PROVE ret[k] = Pictures(file)[gop.frame_b + k - 1].frame
    OBVIOUS
  <2>1. skip + 1 + k - 1 = 0 + skip + k
    BY <1>4
  <2>2. ret[k] = Decode(<<>> \o raw)[0 + skip + k]
    BY <1>7, <1>11, <1>12, <2>1 DEF all
  <2> QED
    BY <1>6, <2>2
<1>14. ret # Raises
  BY <1>1, <1>9, <1>11, <1>12 DEF Raises
<1>15. Len(ret) = gop.num_frames
  BY <1>11, <1>12
<1>16. num < gop.frame_b + Len(ret) /\ gop.frame_b + Len(ret) <= n + 1 /\ gop.frame_b \in 1 .. num
  BY <1>1, <1>2, <1>4, <1>15
<1> QED
  BY <1>4, <1>9, <1>11, <1>12, <1>13, <1>14, <1>15, <1>16 DEF ret, n

----------------------------------------------------------------------------
(* The indexes that are computed are right. *)

\* Between two offsets of a stream.
LEMMA SpanPart ==
    ASSUME NEW file, Encoded(file), NEW typ \in {"hevc", "h264"}, NEW entry_,
           entry_.index = Indexed(file, typ).index, entry_.sizes = <<>>,
           NEW b \in 1 .. Len(Pictures(file)), NEW e \in 1 .. Len(Pictures(file)) + 1, b < e
    PROVE  /\ PartOf(GopData(file, entry_, [b |-> b, e |-> e]), file, b, e)
           /\ GopData(file, entry_, [b |-> b, e |-> e]) = SubSeq(file, entry_.index[b].offset, entry_.index[e].offset - 1)
<1> DEFINE n == Len(Pictures(file))
           at == Ascending(FirstSlices(file))
           lo == entry_.index[b].offset
           hi == entry_.index[e].offset
<1>1. file \in Seq(Nals) /\ n \in Nat \ {0}
  BY EncodedFacts
<1>2. /\ \A k \in 1 .. n : Indexed(file, typ).index[k].offset = at[k]
      /\ Indexed(file, typ).index[n + 1].offset = Len(file) + 1
  <2>1. \A k \in 1 .. n : Indexed(file, typ).index[k].offset = at[k]
    BY <1>1, IndexedFacts
  <2>2. Indexed(file, typ).index[n + 1] = [slice |-> EndOfFile, offset |-> Len(file) + 1]
    BY <1>1, IndexedFacts
  <2> QED
    BY <2>1, <2>2
<1>3. GopData(file, entry_, [b |-> b, e |-> e]) = SubSeq(file, lo, hi - 1)
  BY DEF GopData
<1> HIDE DEF n, at
<1>4. lo = at[b] /\ hi = IF e = n + 1 THEN Len(file) + 1 ELSE at[e]
  BY <1>1, <1>2 DEF n
<1>5. e \in b .. n + 1 /\ b \in 1 .. n
  BY <1>1 DEF n
<1> HIDE DEF lo, hi
<1>6. PartOf(SubSeq(file, lo, hi - 1), file, b, e)
  BY <1>1, <1>4, <1>5, PicturesPart DEF n, at
<1> QED
  BY <1>3, <1>6 DEF lo, hi

\* An index computed of a stream by vidindex is right for its file.
LEMMA IndexedTabled ==
    ASSUME NEW file, Encoded(file), NEW typ \in {"hevc", "h264"}, NEW entry_,
           entry_.index = Indexed(file, typ).index, entry_.sizes = <<>>,
           entry_.global_prefix \in Seq(Nals), HasSet(entry_.global_prefix), Pictures(entry_.global_prefix) = <<>>,
           Starts(file) \/ Continued(entry_.prefix_frame_data, entry_.num_prefix_frames, file)
    PROVE  Tabled(entry_, file)
<1>1. file \in Seq(Nals) /\ Len(Pictures(file)) \in Nat \ {0}
  BY EncodedFacts
<1>2. \A b \in 1 .. Len(Pictures(file)), e \in 1 .. Len(Pictures(file)) + 1 :
        b < e => PartOf(GopData(file, entry_, [b |-> b, e |-> e]), file, b, e)
  BY SpanPart
<1>3. entry_.index \in Seq([slice : Int, offset : Nat]) /\ Len(entry_.index) = Len(Pictures(file)) + 1
  BY <1>1, IndexedFacts
<1>4. \A k \in 1 .. Len(Pictures(file)) : entry_.index[k].slice = Pictures(file)[k].slice
  <2>1. \A k \in 1 .. Len(Pictures(file)) : Indexed(file, typ).index[k].slice = Pictures(file)[k].slice
    BY <1>1, IndexedFacts
  <2> QED
    BY <2>1
<1>5. entry_.index[Len(Pictures(file)) + 1].slice = EndOfFile
  <2>1. Indexed(file, typ).index[Len(Pictures(file)) + 1] = [slice |-> EndOfFile, offset |-> Len(file) + 1]
    BY <1>1, IndexedFacts
  <2> QED
    BY <2>1
<1>6. Len(entry_.index) # Len(Pictures(file)) /\ DOMAIN entry_.index = 1 .. Len(entry_.index)
  BY <1>1, <1>3
<1> QED
  BY <1>2, <1>3, <1>4, <1>5, <1>6 DEF Tabled

\* So is the index of a file of an HEVC route.
LEMMA HevcTabled ==
    ASSUME NEW r \in Routes, r.typ = "hevc", NEW s \in DOMAIN r.files
    PROVE  /\ Encoded(r.files[s])
           /\ Tabled(Indexed(r.files[s], "hevc"), r.files[s])
           /\ Indexed(r.files[s], "hevc").sizes = <<>>
<1> DEFINE file == r.files[s]
           prefix == Only(file, {i \in DOMAIN file : file[i].type = "set"})
<1>1. Encoded(file) /\ Starts(file) /\ \E i \in DOMAIN file : file[i].type = "set"
  BY RoutesAssumption DEF IsHevc
<1> HIDE DEF file
<1>2. file \in Seq(Nals)
  BY <1>1, EncodedFacts
<1>3. HasSet(file)
  BY <1>1, <1>2 DEF HasSet
<1>4. prefix \in Seq(Nals) /\ Pictures(prefix) = <<>> /\ HasSet(prefix)
  BY <1>2, <1>3, PrefixFacts
<1> HIDE DEF prefix
<1>5. Indexed(file, "hevc") = Entry(Indexed(file, "hevc").index, prefix, <<>>)
  BY <1>2, IndexedFacts DEF prefix
<1>6. PICK f : f = Indexed(file, "hevc")
  OBVIOUS
<1>7. f.global_prefix = prefix /\ f.sizes = <<>>
  BY <1>5, <1>6 DEF Entry
<1>8. Tabled(f, file)
  BY <1>1, <1>4, <1>6, <1>7, IndexedTabled
<1> QED
  BY <1>1, <1>6, <1>7, <1>8 DEF file

\* The index of a file of a route, before or after it was made self-contained.
OwnIndex(entry_, file) ==
    /\ entry_ = [index |-> entry_.index, global_prefix |-> entry_.global_prefix, sizes |-> entry_.sizes,
                 prefix_frame_data |-> entry_.prefix_frame_data, num_prefix_frames |-> entry_.num_prefix_frames]
    /\ entry_.index = Indexed(file, "h264").index /\ entry_.sizes = <<>>
    /\ entry_.global_prefix \in Seq(Nals) /\ Pictures(entry_.global_prefix) = <<>>
    /\ entry_.global_prefix # <<>> => HasSet(entry_.global_prefix)

\* What index_stream makes of a file is its own index.
LEMMA IndexedOwn ==
    ASSUME NEW file, Encoded(file)
    PROVE  OwnIndex(Indexed(file, "h264"), file)
<1> DEFINE prefix == Only(file, {i \in DOMAIN file : file[i].type = "set"})
<1>1. file \in Seq(Nals)
  BY EncodedFacts
<1>2. prefix \in Seq(Nals) /\ Pictures(prefix) = <<>> /\ (prefix # <<>> => HasSet(prefix))
  BY <1>1, PrefixFacts
<1> HIDE DEF prefix
<1>3. Indexed(file, "h264") = Entry(Indexed(file, "h264").index, prefix, <<>>)
  BY <1>1, IndexedFacts DEF prefix
<1>4. PICK f : f = Indexed(file, "h264")
  OBVIOUS
<1>5. f = [index |-> f.index, global_prefix |-> prefix, sizes |-> <<>>, prefix_frame_data |-> <<>>, num_prefix_frames |-> 0]
  BY <1>3, <1>4 DEF Entry
<1>6. f.global_prefix = prefix /\ f.sizes = <<>> /\ f.prefix_frame_data = <<>> /\ f.num_prefix_frames = 0
  BY <1>5
<1>7. OwnIndex(f, file)
  BY <1>2, <1>4, <1>5, <1>6 DEF OwnIndex
<1> QED
  BY <1>4, <1>7

\* What is put before a file that begins inside of a group is the rest of that group.
LEMMA PartialContinued ==
    ASSUME NEW file, Encoded(file), NEW past, Encoded(past), ~ Starts(past),
           NEW index, index = Indexed(file, "h264").index, LastIFrame(index) # 0,
           Pictures(past)[1].frame = Last(Pictures(file)).frame + 1,
           NEW partial, partial = Partial(file, index, Indexed(past, "h264").index)
    PROVE  Continued(partial.data, partial.frames, past)
<1> DEFINE n == Len(Pictures(file))
           q == Pictures(file)
           b == LastIFrame(index)
           at == {c \in DOMAIN index : index[c].slice = SLICE_I}
           first == Ascending(FirstSlices(file))
<1>1. file \in Seq(Nals) /\ n \in Nat \ {0} /\ q \in Seq(Nals)
  BY EncodedFacts
<1>2. index \in Seq([slice : Int, offset : Nat]) /\ Len(index) = n + 1 /\ DOMAIN index = 1 .. n + 1
  <2>1. Indexed(file, "h264").index \in Seq([slice : Int, offset : Nat])
    BY <1>1, IndexedFacts
  <2>2. Len(Indexed(file, "h264").index) = n + 1
    BY <1>1, IndexedFacts
  <2> QED
    BY <2>1, <2>2
<1>3. \A k \in 1 .. n : index[k].slice = q[k].slice /\ index[k].offset = first[k]
  <2>1. \A k \in 1 .. n : Indexed(file, "h264").index[k].slice = q[k].slice
    BY <1>1, IndexedFacts
  <2>2. \A k \in 1 .. n : Indexed(file, "h264").index[k].offset = first[k]
    BY <1>1, IndexedFacts
  <2> QED
    BY <2>1, <2>2
<1>4. index[n + 1].slice # SLICE_I
  <2>1. Indexed(file, "h264").index[n + 1] = [slice |-> EndOfFile, offset |-> Len(file) + 1]
    BY <1>1, IndexedFacts
  <2> QED
    BY <2>1 DEF EndOfFile, SLICE_I
<1>5. b \in at
  <2>1. b = CHOOSE c \in at \cup {0} : \A d \in at : d <= c
    BY DEF LastIFrame
  <2>2. at \in SUBSET (1 .. n + 1) /\ n + 1 \in Nat
    BY <1>1, <1>2
  <2> HIDE DEF at, b
  <2>3. CASE at = {}
    <3>1. b = 0
      BY <2>1, <2>3
    <3> QED
      BY <3>1 DEF b
  <2>4. CASE at # {}
    <3>1. \E c \in at : \A d \in at : d <= c
      <4>1. PICK size \in Nat : size = n + 1
        BY <2>2
      <4> QED
        BY <2>2, <2>4, <4>1, PlaceExtremes
    <3>2. b \in at \cup {0}
      BY <2>1, <3>1
    <3> QED
      BY <3>2 DEF b
  <2> QED
    BY <2>3, <2>4
<1>6. b \in 1 .. n /\ q[b].slice = SLICE_I
  <2>1. b \in 1 .. n + 1 /\ index[b].slice = SLICE_I
    BY <1>2, <1>5
  <2> HIDE DEF b
  <2>2. b # n + 1
    BY <1>4, <2>1
  <2> QED
    BY <1>1, <1>3, <2>1, <2>2
<1>7. Pictures(past)[1].slice # SLICE_I /\ Len(Pictures(past)) \in Nat \ {0} /\ past \in Seq(Nals)
  BY EncodedFacts DEF Starts
<1>8. Indexed(past, "h264").index[1].slice # SLICE_I
  <2>1. 1 \in 1 .. Len(Pictures(past))
    BY <1>7
  <2>2. Indexed(past, "h264").index[1].slice = Pictures(past)[1].slice
    BY <1>7, <2>1, IndexedFacts
  <2> QED
    BY <1>7, <2>2
<1>9. partial = [data |-> Skip(file, index[b].offset - 1), frames |-> Len(index) - b]
  BY <1>8 DEF Partial, Whole
<1> HIDE DEF b, at, q, n
<1> DEFINE lo == first[b]
           hi == Len(file) + 1
           data == SubSeq(file, lo, hi - 1)
           size == n + 1 - b
<1>10. lo \in 1 .. Len(file) /\ Len(file) \in Nat
  <2>1. FirstSlices(file) \in SUBSET (1 .. Len(file)) /\ first \in [1 .. n -> FirstSlices(file)]
    BY <1>1, PicturesFacts DEF n
  <2> QED
    BY <1>1, <1>6, <2>1
<1> HIDE DEF first
<1>11. partial.data = data /\ partial.frames = size
  <2>1. partial.data = SubSeq(file, (lo - 1) + 1, Len(file))
    BY <1>3, <1>6, <1>9 DEF Skip
  <2>2. (lo - 1) + 1 = lo /\ hi - 1 = Len(file)
    BY <1>10
  <2>3. partial.frames = n + 1 - b
    <3>1. partial.frames = Len(index) - b
      BY <1>9
    <3> QED
      BY <1>1, <1>2, <1>6, <3>1, SMTT(40)
  <2> HIDE DEF lo
  <2> QED
    BY <2>1, <2>2, <2>3
<1>12. PartOf(data, file, b, n + 1)
  <2>1. b \in 1 .. n /\ n + 1 \in b .. n + 1
    BY <1>1, <1>6
  <2>2. PICK e : e = n + 1
    OBVIOUS
  <2>3. hi = IF e = n + 1 THEN Len(file) + 1 ELSE first[e]
    BY <2>2
  <2> HIDE DEF lo, hi
  <2>4. PartOf(SubSeq(file, lo, hi - 1), file, b, e)
    BY <1>1, <2>1, <2>2, <2>3, PicturesPart DEF n, first, lo
  <2> QED
    BY <2>2, <2>4
<1>13. /\ data \in Seq(Nals) /\ Len(Pictures(data)) = size
       /\ \A k \in 1 .. size : Pictures(data)[k] = q[b + k - 1]
  <2> HIDE DEF data
  <2>1. (n + 1) - b = size
    BY <1>1, <1>6
  <2> HIDE DEF size
  <2> QED
    BY <1>12, <2>1 DEF PartOf, q
<1> HIDE DEF data, lo, hi
<1>14. size \in Nat \ {0} /\ b + 1 - 1 = b /\ b + size - 1 = n
  BY <1>1, <1>6
<1>15. Pictures(data)[1].slice = SLICE_I /\ Pictures(data)[size] = q[n]
  <2>1. 1 \in 1 .. size /\ size \in 1 .. size
    BY <1>14
  <2> HIDE DEF size
  <2>2. Pictures(data)[1] = q[b] /\ Pictures(data)[size] = q[n]
    BY <1>13, <1>14, <2>1
  <2> QED
    BY <1>6, <2>2
<1>16. Consecutive(Pictures(data))
  <2> SUFFICES ASSUME NEW m \in 2 .. size PROVE Pictures(data)[m].frame = Pictures(data)[m - 1].frame + 1
    BY <1>13 DEF Consecutive
  <2>1. PICK k : k = b + m - 1
    OBVIOUS
  <2>2. m \in 1 .. size /\ m - 1 \in 1 .. size /\ k \in 2 .. n /\ b + (m - 1) - 1 = k - 1
    <3>1. b \in 1 .. n /\ n \in Nat /\ m \in 2 .. n + 1 - b
      BY <1>1, <1>6
    <3>2. k \in 2 .. n
      BY <2>1, <3>1
    <3> QED
      BY <2>1, <3>1, <3>2
  <2>3. Pictures(data)[m] = q[k] /\ Pictures(data)[m - 1] = q[k - 1]
    BY <1>13, <2>1, <2>2
  <2>4. q[k].frame = q[k - 1].frame + 1
    BY <2>2, EncodedFacts DEF q, n
  <2> QED
    BY <2>3, <2>4
<1>17. data # <<>>
  BY <1>13, <1>14, NoPictures
<1>18. Last(q) = q[n]
  BY DEF Last, n, q
<1>19. Pictures(past)[1].frame = Pictures(data)[size].frame + 1
  BY <1>15, <1>18 DEF q
<1> HIDE DEF size
<1> QED
  BY <1>11, <1>13, <1>14, <1>15, <1>16, <1>17, <1>19 DEF Continued

\* What is made of the indexes of a route is right for each of its files.
LEMMA PstreamTabled ==
    ASSUME NEW r \in Routes, r.typ = "h264", NEW own, \A i \in DOMAIN r.files : OwnIndex(own[i], r.files[i]),
           NEW made, made = IndexPstream(r.files, own), made # Raises, NEW s \in DOMAIN r.files
    PROVE  /\ DOMAIN made = DOMAIN r.files
           /\ Encoded(r.files[s]) /\ OwnIndex(made[s], r.files[s]) /\ Tabled(made[s], r.files[s])
<1> DEFINE files == r.files
           noGop(i) == LastIFrame(own[i].index) = 0 /\ ~ Whole(own[i + 1].index)
           before(i) == IF i = 1 THEN [data |-> <<>>, frames |-> 0]
                        ELSE Partial(files[i - 1], own[i - 1].index, own[i].index)
           a == own[s]
           p == own[1].global_prefix
           before_ == before(s)
           b == [a EXCEPT !.global_prefix = p, !.prefix_frame_data = before_.data, !.num_prefix_frames = before_.frames]
<1>1. /\ Len(files) \in Nat /\ DOMAIN files = 1 .. Len(files) /\ \A i \in DOMAIN files : Encoded(files[i])
      /\ Starts(files[1])
      /\ \A i \in DOMAIN files \ {1} : Pictures(files[i])[1].frame = Last(Pictures(files[i - 1])).frame + 1
  BY RoutesAssumption DEF IsH264
<1>2. s \in 1 .. Len(files) /\ 1 \in 1 .. Len(files)
  BY <1>1
<1>3. made = IF \/ own[1].global_prefix = <<>>
                \/ NumIFrames(own[1].index) <= 1 /\ Predecompress = Raises
                \/ \E i \in 1 .. Len(files) - 1 : noGop(i)
             THEN Raises
             ELSE [i \in DOMAIN files |->
                     [own[i] EXCEPT !.global_prefix = own[1].global_prefix,
                                    !.prefix_frame_data = before(i).data, !.num_prefix_frames = before(i).frames]]
  BY Zenon DEF IndexPstream
<1>4. /\ own[1].global_prefix # <<>> /\ \A i \in 1 .. Len(files) - 1 : ~ noGop(i)
      /\ made = [i \in DOMAIN files |->
                     [own[i] EXCEPT !.global_prefix = own[1].global_prefix,
                                    !.prefix_frame_data = before(i).data, !.num_prefix_frames = before(i).frames]]
  <2> HIDE DEF noGop, before, files
  <2> QED
    BY <1>3, Zenon
<1>5. DOMAIN made = DOMAIN files /\ made[s] = b
  <2> HIDE DEF before
  <2> QED
    BY <1>4
<1>6. /\ a = [index |-> a.index, global_prefix |-> a.global_prefix, sizes |-> a.sizes,
              prefix_frame_data |-> a.prefix_frame_data, num_prefix_frames |-> a.num_prefix_frames]
      /\ a.index = Indexed(files[s], "h264").index /\ a.sizes = <<>>
  BY <1>1, <1>2 DEF OwnIndex
<1>7. p \in Seq(Nals) /\ Pictures(p) = <<>> /\ HasSet(p)
  BY <1>1, <1>2, <1>4 DEF OwnIndex
<1> HIDE DEF a, p, before_
<1>8. /\ b = [index |-> a.index, global_prefix |-> p, sizes |-> a.sizes,
              prefix_frame_data |-> before_.data, num_prefix_frames |-> before_.frames]
      /\ b.index = a.index /\ b.global_prefix = p /\ b.sizes = a.sizes
      /\ b.prefix_frame_data = before_.data /\ b.num_prefix_frames = before_.frames
  <2>1. PICK c, d, e, f, g : /\ a = [index |-> c, global_prefix |-> d, sizes |-> e, prefix_frame_data |-> f,
                                     num_prefix_frames |-> g]
                             /\ c = a.index /\ e = a.sizes
    BY <1>6
  <2>2. PICK data, fs : data = before_.data /\ fs = before_.frames
    OBVIOUS
  <2>3. b = [index |-> c, global_prefix |-> p, sizes |-> e, prefix_frame_data |-> data, num_prefix_frames |-> fs]
    <3>1. PICK x : x = [a EXCEPT !.global_prefix = p]
      OBVIOUS
    <3>2. PICK y : y = [x EXCEPT !.prefix_frame_data = data]
      OBVIOUS
    <3>3. x = [index |-> c, global_prefix |-> p, sizes |-> e, prefix_frame_data |-> f, num_prefix_frames |-> g]
      BY <2>1, <3>1
    <3>4. y = [index |-> c, global_prefix |-> p, sizes |-> e, prefix_frame_data |-> data, num_prefix_frames |-> g]
      BY <3>2, <3>3
    <3>5. b = [y EXCEPT !.num_prefix_frames = fs]
      BY <2>2, <3>1, <3>2
    <3> HIDE DEF b
    <3> QED
      BY <3>4, <3>5
  <2> HIDE DEF b
  <2>4. /\ b.index = c /\ b.global_prefix = p /\ b.sizes = e
        /\ b.prefix_frame_data = data /\ b.num_prefix_frames = fs
    BY <2>3
  <2> QED
    BY <2>1, <2>2, <2>3, <2>4
<1> HIDE DEF b
<1>9. OwnIndex(b, files[s])
  BY <1>6, <1>7, <1>8 DEF OwnIndex
<1>10. Starts(files[s]) \/ Continued(before_.data, before_.frames, files[s])
  <2> SUFFICES ASSUME ~ Starts(files[s]) PROVE Continued(before_.data, before_.frames, files[s])
    OBVIOUS
  <2>1. PICK t : t = s - 1
    OBVIOUS
  <2>2. s # 1 /\ s \in DOMAIN files /\ t \in 1 .. Len(files) - 1 /\ t \in DOMAIN files /\ t + 1 = s
    BY <1>1, <1>2, <2>1
  <2>3. OwnIndex(own[t], files[t]) /\ OwnIndex(own[s], files[s]) /\ Encoded(files[t]) /\ Encoded(files[s])
    BY <1>1, <2>2
  <2>4. before_ = Partial(files[t], own[t].index, own[s].index)
    BY <2>1, <2>2 DEF before_
  <2>5. own[t].index = Indexed(files[t], "h264").index /\ own[s].index = Indexed(files[s], "h264").index
    BY <2>3 DEF OwnIndex
  <2>6. ~ Whole(own[s].index)
    <3>1. Len(Pictures(files[s])) \in Nat \ {0} /\ files[s] \in Seq(Nals)
      BY <2>3, EncodedFacts
    <3>2. 1 \in 1 .. Len(Pictures(files[s]))
      BY <3>1
    <3>3. Indexed(files[s], "h264").index[1].slice = Pictures(files[s])[1].slice
      BY <3>1, <3>2, IndexedFacts
    <3> QED
      BY <2>5, <3>3 DEF Whole, Starts
  <2>7. LastIFrame(own[t].index) # 0
    BY <1>4, <2>2, <2>6
  <2>8. Pictures(files[s])[1].frame = Last(Pictures(files[t])).frame + 1
    BY <1>1, <2>1, <2>2
  <2> HIDE DEF files
  <2>9. PICK f, g : f = files[t] /\ g = files[s]
    OBVIOUS
  <2>10. Continued(before_.data, before_.frames, g)
    BY <2>3, <2>4, <2>5, <2>7, <2>8, <2>9, PartialContinued
  <2> QED
    BY <2>9, <2>10
<1>11. Tabled(b, files[s])
  <2>1. PICK f : f = files[s]
    OBVIOUS
  <2>2. Encoded(f) /\ b.index = Indexed(f, "h264").index /\ b.sizes = <<>>
    BY <1>1, <1>6, <1>8, <2>1
  <2>3. b.global_prefix \in Seq(Nals) /\ HasSet(b.global_prefix) /\ Pictures(b.global_prefix) = <<>>
    BY <1>7, <1>8
  <2>4. Starts(f) \/ Continued(b.prefix_frame_data, b.num_prefix_frames, f)
    BY <1>8, <1>10, <2>1
  <2>5. Tabled(b, f)
    BY <2>2, <2>3, <2>4, IndexedTabled
  <2> QED
    BY <2>1, <2>5
<1> QED
  BY <1>1, <1>5, <1>9, <1>11

\* Records of an index that differ in what is made of a route alone become the same.
LEMMA MadeSame ==
    ASSUME NEW a, NEW b, NEW p, NEW data, NEW fs, a.index = b.index, a.sizes = b.sizes,
           a = [index |-> a.index, global_prefix |-> a.global_prefix, sizes |-> a.sizes,
                prefix_frame_data |-> a.prefix_frame_data, num_prefix_frames |-> a.num_prefix_frames],
           b = [index |-> b.index, global_prefix |-> b.global_prefix, sizes |-> b.sizes,
                prefix_frame_data |-> b.prefix_frame_data, num_prefix_frames |-> b.num_prefix_frames],
           NEW u, u = [a EXCEPT !.global_prefix = p, !.prefix_frame_data = data, !.num_prefix_frames = fs],
           NEW v, v = [b EXCEPT !.global_prefix = p, !.prefix_frame_data = data, !.num_prefix_frames = fs]
    PROVE  u = v /\ u.global_prefix = p
<1>1. PICK c, d, e, f, g : a = [index |-> c, global_prefix |-> d, sizes |-> e, prefix_frame_data |-> f,
                               num_prefix_frames |-> g] /\ c = a.index /\ e = a.sizes
  OBVIOUS
<1>2. PICK d2, f2, g2 : b = [index |-> c, global_prefix |-> d2, sizes |-> e, prefix_frame_data |-> f2,
                             num_prefix_frames |-> g2]
  BY <1>1
<1>3. PICK r : r = [index |-> c, global_prefix |-> p, sizes |-> e, prefix_frame_data |-> data, num_prefix_frames |-> fs]
  OBVIOUS
<1>4. u = r
  <2>1. PICK x : x = [a EXCEPT !.global_prefix = p]
    OBVIOUS
  <2>2. PICK y : y = [x EXCEPT !.prefix_frame_data = data]
    OBVIOUS
  <2>3. x = [index |-> c, global_prefix |-> p, sizes |-> e, prefix_frame_data |-> f, num_prefix_frames |-> g]
    BY ONLY <1>1, <2>1
  <2>4. y = [index |-> c, global_prefix |-> p, sizes |-> e, prefix_frame_data |-> data, num_prefix_frames |-> g]
    BY ONLY <2>2, <2>3
  <2>5. [y EXCEPT !.num_prefix_frames = fs] = r
    BY ONLY <1>3, <2>4
  <2>6. u = [y EXCEPT !.num_prefix_frames = fs]
    BY <2>1, <2>2, Zenon
  <2> QED BY ONLY <2>5, <2>6, Zenon
<1>5. v = r
  <2>1. PICK x : x = [b EXCEPT !.global_prefix = p]
    OBVIOUS
  <2>2. PICK y : y = [x EXCEPT !.prefix_frame_data = data]
    OBVIOUS
  <2>3. x = [index |-> c, global_prefix |-> p, sizes |-> e, prefix_frame_data |-> f2, num_prefix_frames |-> g2]
    BY ONLY <1>2, <2>1
  <2>4. y = [index |-> c, global_prefix |-> p, sizes |-> e, prefix_frame_data |-> data, num_prefix_frames |-> g2]
    BY ONLY <2>2, <2>3
  <2>5. [y EXCEPT !.num_prefix_frames = fs] = r
    BY ONLY <1>3, <2>4
  <2>6. v = [y EXCEPT !.num_prefix_frames = fs]
    BY <2>1, <2>2, Zenon
  <2> QED BY ONLY <2>5, <2>6, Zenon
<1>6. r.global_prefix = p
  BY ONLY <1>3
<1> QED BY ONLY <1>4, <1>5, <1>6, Zenon

\* What is made of a route does not depend on which of its indexes have been made before.
LEMMA PstreamSame ==
    ASSUME NEW files, Len(files) \in Nat, DOMAIN files = 1 .. Len(files), 1 \in DOMAIN files, NEW own, NEW fresh,
           \A i \in DOMAIN files : OwnIndex(own[i], files[i]), \A i \in DOMAIN files : OwnIndex(fresh[i], files[i]),
           own[1].global_prefix = fresh[1].global_prefix, NEW made, made = IndexPstream(files, own), made # Raises
    PROVE  /\ made = IndexPstream(files, fresh)
           /\ \A s \in DOMAIN files : made[s].global_prefix = own[1].global_prefix
<1> DEFINE noGop(o, i) == LastIFrame(o[i].index) = 0 /\ ~ Whole(o[i + 1].index)
           before(o, i) == IF i = 1 THEN [data |-> <<>>, frames |-> 0]
                           ELSE Partial(files[i - 1], o[i - 1].index, o[i].index)
           makes(o, i) == [o[i] EXCEPT !.global_prefix = o[1].global_prefix,
                                       !.prefix_frame_data = before(o, i).data, !.num_prefix_frames = before(o, i).frames]
           fails(o) == \/ o[1].global_prefix = <<>>
                       \/ NumIFrames(o[1].index) <= 1 /\ Predecompress = Raises
                       \/ \E i \in 1 .. Len(files) - 1 : noGop(o, i)
<1>1. IndexPstream(files, own) = IF fails(own) THEN Raises ELSE [i \in DOMAIN files |-> makes(own, i)]
  BY Zenon DEF IndexPstream
<1>2. IndexPstream(files, fresh) = IF fails(fresh) THEN Raises ELSE [i \in DOMAIN files |-> makes(fresh, i)]
  BY Zenon DEF IndexPstream
<1>3. \A i \in DOMAIN files : own[i].index = fresh[i].index /\ own[i].sizes = fresh[i].sizes
  BY DEF OwnIndex
<1>4. fails(own) <=> fails(fresh)
  <2>1. \A i \in 1 .. Len(files) - 1 : noGop(own, i) <=> noGop(fresh, i)
    BY <1>3
  <2> HIDE DEF noGop
  <2> QED BY <1>3, <2>1
<1>5. ASSUME NEW i \in DOMAIN files
      PROVE  before(own, i) = before(fresh, i)
  <2>1. i # 1 => i - 1 \in DOMAIN files
    OBVIOUS
  <2> QED BY <1>3, <2>1
<1>6. ASSUME NEW i \in DOMAIN files
      PROVE  makes(own, i) = makes(fresh, i) /\ makes(own, i).global_prefix = own[1].global_prefix
  <2>1. PICK data, fs : data = before(own, i).data /\ fs = before(own, i).frames
    OBVIOUS
  <2>2. data = before(fresh, i).data /\ fs = before(fresh, i).frames
    BY <1>5, <2>1
  <2> HIDE DEF before
  <2>3. PICK a, b, p : a = own[i] /\ b = fresh[i] /\ p = own[1].global_prefix
    OBVIOUS
  <2>4. /\ a = [index |-> a.index, global_prefix |-> a.global_prefix, sizes |-> a.sizes,
                prefix_frame_data |-> a.prefix_frame_data, num_prefix_frames |-> a.num_prefix_frames]
        /\ b = [index |-> b.index, global_prefix |-> b.global_prefix, sizes |-> b.sizes,
                prefix_frame_data |-> b.prefix_frame_data, num_prefix_frames |-> b.num_prefix_frames]
    BY <2>3 DEF OwnIndex
  <2>5. a.index = b.index /\ a.sizes = b.sizes
    BY <1>3, <2>3
  <2>6. PICK u, v : /\ u = [a EXCEPT !.global_prefix = p, !.prefix_frame_data = data, !.num_prefix_frames = fs]
                    /\ v = [b EXCEPT !.global_prefix = p, !.prefix_frame_data = data, !.num_prefix_frames = fs]
    OBVIOUS
  <2>7. makes(own, i) = u
    BY ONLY <2>1, <2>3, <2>6, Zenon
  <2>8. makes(fresh, i) = v
    <3>1. fresh[1].global_prefix = p
      BY <2>3
    <3> QED BY ONLY <2>2, <2>3, <2>6, <3>1, Zenon
  <2>10. u = v /\ u.global_prefix = p
    BY ONLY <2>4, <2>5, <2>6, MadeSame, ZenonT(30)
  <2> HIDE DEF makes
  <2>9. makes(own, i) = makes(fresh, i) /\ makes(own, i).global_prefix = p
    BY ONLY <2>7, <2>8, <2>10, Zenon
  <2> QED BY <2>3, <2>9, Zenon
<1> HIDE DEF makes, fails
<1>7. ~ fails(own) /\ made = [i \in DOMAIN files |-> makes(own, i)]
  BY <1>1, Zenon
<1>8. made = [i \in DOMAIN files |-> makes(fresh, i)]
  BY <1>6, <1>7
<1>9. made = IndexPstream(files, fresh)
  BY <1>2, <1>4, <1>7, <1>8, Zenon
<1> QED BY <1>6, <1>7, <1>9

\* One more picture.
LEMMA PartAppend ==
    ASSUME NEW file, NEW b \in Int, NEW k \in Int, b <= k, NEW x, PartOf(x, file, b, k),
           NEW d \in Seq(Nals), Pictures(d) = <<Pictures(file)[k]>>
    PROVE  PartOf(x \o d, file, b, k + 1)
<1>1. /\ x \in Seq(Nals) /\ Len(Pictures(x)) = k - b
      /\ \A j \in 1 .. k - b : Pictures(x)[j] = Pictures(file)[b + j - 1]
  BY DEF PartOf
<1>2. x \o d \in Seq(Nals) /\ Pictures(x \o d) = Pictures(x) \o Pictures(d)
  BY <1>1, PicturesConcat
<1>3. PICK p \in Seq(Nals), q \in Seq(Nals) : p = Pictures(x) /\ q = Pictures(d)
  BY <1>1, PicturesFacts
<1>4. Len(q) = 1 /\ q[1] = Pictures(file)[k]
  BY <1>3
<1>5. /\ p \o q \in Seq(Nals) /\ Len(p \o q) = (k - b) + 1
      /\ \A j \in 1 .. (k - b) + 1 : (p \o q)[j] = IF j <= k - b THEN p[j] ELSE q[j - (k - b)]
  <2>1. /\ p \o q \in Seq(Nals) /\ Len(p \o q) = Len(p) + Len(q)
        /\ \A j \in 1 .. Len(p) + Len(q) : (p \o q)[j] = IF j <= Len(p) THEN p[j] ELSE q[j - Len(p)]
    BY ConcatProperties
  <2> QED
    BY <1>1, <1>3, <1>4, <2>1
<1>6. (k + 1) - b = (k - b) + 1
  OBVIOUS
<1>7. \A j \in 1 .. (k - b) + 1 : (p \o q)[j] = Pictures(file)[b + j - 1]
  <2> SUFFICES ASSUME NEW j \in 1 .. (k - b) + 1 PROVE (p \o q)[j] = Pictures(file)[b + j - 1]
    OBVIOUS
  <2>1. CASE j <= k - b
    <3>1. j \in 1 .. k - b
      BY <2>1
    <3> QED
      BY <1>1, <1>3, <1>5, <2>1, <3>1
  <2>2. CASE ~ (j <= k - b)
    <3>1. j - (k - b) = 1 /\ b + j - 1 = k
      BY <2>2
    <3> QED
      BY <1>4, <1>5, <2>2, <3>1
  <2> QED
    BY <2>1, <2>2
<1> QED
  BY <1>2, <1>3, <1>5, <1>6, <1>7 DEF PartOf

\* An index computed of the boxes of an MP4 file is right for it.
LEMMA Mp4Tabled ==
    ASSUME NEW r \in Routes, r.typ = "mp4", NEW s \in DOMAIN r.files
    PROVE  /\ Encoded(r.files[s])
           /\ Tabled(Mp4Index(r.boxes, <<ParameterSet>>), r.files[s])
           /\ Len(Mp4Index(r.boxes, <<ParameterSet>>).index) = Len(Pictures(r.files[s]))
<1> DEFINE file == r.files[1]
           n == Len(Pictures(file))
           h == Mp4Index(r.boxes, <<ParameterSet>>)
<1>1. /\ s = 1 /\ Encoded(file) /\ Starts(file)
      /\ r.boxes.sizes \in Seq(Nat) /\ Len(r.boxes.sizes) = n
      /\ \A k \in DOMAIN r.boxes.sizes :
            /\ h.index[k].slice = Pictures(file)[k].slice /\ h.index[k].offset \in Nat \ {0}
            /\ Sample(file, h, k) \in Seq(Nals) /\ Pictures(Sample(file, h, k)) = <<Pictures(file)[k]>>
  <2>1. Encoded(r.files[s]) /\ IsMp4(r) /\ DOMAIN r.files = 1 .. Len(r.files)
    BY RoutesAssumption
  <2>2. s = 1
    BY <2>1 DEF IsMp4
  <2> QED
    BY <2>1, <2>2 DEF IsMp4
<1>2. n \in Nat \ {0} /\ DOMAIN r.boxes.sizes = 1 .. n
  BY <1>1, EncodedFacts
<1>3. h.sizes = r.boxes.sizes /\ h.global_prefix = <<ParameterSet>> /\ DOMAIN h.index = 1 .. n /\ Len(h.index) = n
  <2>1. PICK offsets : h = Entry([k \in DOMAIN r.boxes.sizes |->
                  [slice |-> IF r.boxes.depends[k] THEN SLICE_P ELSE SLICE_I, offset |-> offsets[k]]],
              <<ParameterSet>>, r.boxes.sizes)
    BY DEF Mp4Index
  <2>2. PICK index : index = [k \in 1 .. n |->
                  [slice |-> IF r.boxes.depends[k] THEN SLICE_P ELSE SLICE_I, offset |-> offsets[k]]]
    OBVIOUS
  <2>3. DOMAIN index = 1 .. n /\ Len(index) = n
    BY <1>2, <2>2
  <2>4. h = Entry(index, <<ParameterSet>>, r.boxes.sizes)
    BY <1>2, <2>1, <2>2
  <2> HIDE DEF h
  <2>5. h.index = index /\ h.global_prefix = <<ParameterSet>> /\ h.sizes = r.boxes.sizes
    BY <2>4 DEF Entry
  <2> QED
    BY <2>3, <2>5
<1>4. /\ <<ParameterSet>> \in Seq(Nals) /\ HasSet(<<ParameterSet>>) /\ Pictures(<<ParameterSet>>) = <<>>
  <2>1. PICK x : x = <<ParameterSet>>
    OBVIOUS
  <2>2. ParameterSet \in Nals /\ ParameterSet.type = "set"
    BY DEF ParameterSet, Nal, Nals, SLICE_P
  <2>3. x \in Seq(Nals) /\ Len(x) = 1 /\ x[1].type = "set"
    BY <2>1, <2>2
  <2>4. FirstSlices(x) = {}
    BY <2>3 DEF FirstSlices, IsSlice
  <2>5. Pictures(x) \in Seq(Nals) /\ Len(Pictures(x)) = Cardinality(FirstSlices(x))
    BY <2>3, PicturesFacts
  <2>6. Pictures(x) = <<>>
    BY <2>4, <2>5, FS_EmptySet
  <2>7. HasSet(x)
    BY <2>3 DEF HasSet
  <2> QED
    BY <2>1, <2>3, <2>6, <2>7
<1> HIDE DEF h
<1>5. ASSUME NEW b \in 1 .. n, NEW e \in 1 .. n + 1, b < e
      PROVE  PartOf(GopData(file, h, [b |-> b, e |-> e]), file, b, e)
  <2> DEFINE sample(k) == SubSeq(file, h.index[k].offset, h.index[k].offset + h.sizes[k] - 1)
             A == [k \in b - 1 .. e - 1 |-> {x \in Seq(Nals) : PartOf(x, file, b, k + 1)}]
             step == [k \in b .. e - 1 |-> [x \in A[k - 1] |-> x \o sample(k)]]
             none == <<>>
             samples == CHOOSE f : f = [k \in b - 1 .. e - 1 |-> IF k < b THEN none ELSE f[k - 1] \o sample(k)]
  <2>1. GopData(file, h, [b |-> b, e |-> e]) = samples[e - 1]
    <3>1. h.sizes # <<>>
      BY <1>1, <1>2, <1>3
    <3>2. PICK look : look = [b |-> b, e |-> e]
      OBVIOUS
    <3>3. look.b = b /\ look.e = e
      BY <3>2
    <3>4. GopData(file, h, look) =
             IF h.sizes = <<>> THEN SubSeq(file, h.index[look.b].offset, h.index[look.e].offset - 1)
             ELSE (CHOOSE f : f = [k \in look.b - 1 .. look.e - 1 |-> IF k < look.b THEN <<>> ELSE f[k - 1] \o sample(k)])[look.e - 1]
      BY Zenon DEF GopData
    <3>5. GopData(file, h, look) = samples[e - 1]
      BY <3>1, <3>3, <3>4, Zenon
    <3> QED
      BY <3>2, <3>5
  <2>2. \A k \in b .. e - 1 : sample(k) \in Seq(Nals) /\ Pictures(sample(k)) = <<Pictures(file)[k]>>
    <3>1. \A k \in b .. e - 1 : k \in 1 .. n
      BY <1>2
    <3>2. \A k \in 1 .. n : Sample(file, h, k) \in Seq(Nals) /\ Pictures(Sample(file, h, k)) = <<Pictures(file)[k]>>
      BY <1>1, <1>2
    <3>3. \A k \in 1 .. n : sample(k) = Sample(file, h, k)
      BY DEF Sample
    <3> HIDE DEF sample
    <3> QED
      BY <3>1, <3>2, <3>3
  <2> HIDE DEF sample
  <2>3. b \in Int /\ e \in Int /\ b - 1 \in Int /\ e - 1 \in Int /\ b - 1 <= e - 1 /\ (b - 1) + 1 = b
    BY <1>2, <1>5
  <2>4. none \in A[b - 1]
    <3>1. b - 1 \in b - 1 .. e - 1
      BY <2>3
    <3>2. PartOf(<<>>, file, b, (b - 1) + 1)
      BY <2>3, NoPictures DEF PartOf
    <3> QED
      BY <3>1, <3>2, NoPictures
  <2>5. \A k \in b .. e - 1 : \A x \in A[k - 1] : x \o sample(k) \in A[k] /\ step[k][x] = x \o sample(k)
    <3> SUFFICES ASSUME NEW k \in b .. e - 1, NEW x \in A[k - 1] PROVE x \o sample(k) \in A[k] /\ step[k][x] = x \o sample(k)
      OBVIOUS
    <3>1. k \in b - 1 .. e - 1 /\ k - 1 \in b - 1 .. e - 1 /\ (k - 1) + 1 = k /\ k \in Int /\ b <= k
      BY <2>3
    <3>2. x \in Seq(Nals) /\ PartOf(x, file, b, k)
      BY <3>1
    <3>3. PartOf(x \o sample(k), file, b, k + 1)
      BY <2>2, <2>3, <3>1, <3>2, PartAppend
    <3>4. x \o sample(k) \in Seq(Nals)
      BY <3>3 DEF PartOf
    <3>5. x \o sample(k) \in A[k]
      BY <3>1, <3>3, <3>4
    <3>6. step[k] = [y \in A[k - 1] |-> y \o sample(k)]
      BY DEF step
    <3> HIDE DEF A, step
    <3> QED
      BY <3>5, <3>6
  <2> HIDE DEF A, step, none
  <2>6. PICK f : /\ f = [k \in b - 1 .. e - 1 |-> IF k = b - 1 THEN none ELSE step[k][f[k - 1]]]
                 /\ \A k \in b - 1 .. e - 1 : f[k] \in A[k]
    <3>1. PICK lo \in Int, hi \in Int : lo = b - 1 /\ hi = e - 1
      BY <2>3
    <3>2. lo <= hi /\ none \in A[lo] /\ \A k \in lo + 1 .. hi : \A x \in A[k - 1] : step[k][x] \in A[k]
      BY <2>3, <2>4, <2>5, <3>1, ZenonT(60)
    <3>3. \E f : Defined(f, lo, hi, none, step, A)
      BY <3>2, Recursion
    <3> QED
      BY <3>1, <3>3 DEF Defined
  <2>7. f = [k \in b - 1 .. e - 1 |-> IF k < b THEN none ELSE f[k - 1] \o sample(k)]
    <3>1. ASSUME NEW k \in b - 1 .. e - 1
          PROVE  (IF k = b - 1 THEN none ELSE step[k][f[k - 1]]) = (IF k < b THEN none ELSE f[k - 1] \o sample(k))
      <4>1. CASE k = b - 1
        <5>1. k < b
          BY <2>3, <4>1
        <5> QED
          BY <4>1, <5>1, Zenon
      <4>2. CASE k # b - 1
        <5>1. k \in b .. e - 1 /\ ~ (k < b) /\ k - 1 \in b - 1 .. e - 1
          BY <2>3, <4>2
        <5> QED
          BY <2>5, <2>6, <4>2, <5>1
      <4> QED
        BY <4>1, <4>2
    <3> QED
      BY <2>6, <3>1
  <2>8. samples = [k \in b - 1 .. e - 1 |-> IF k < b THEN none ELSE samples[k - 1] \o sample(k)]
    BY <2>7
  <2> HIDE DEF samples
  <2>9. samples[b - 1] \in A[b - 1]
    BY <2>3, <2>4, <2>8
  <2>10. \A k \in b .. e - 1 : samples[k - 1] \in A[k - 1] => samples[k] \in A[k]
    <3> SUFFICES ASSUME NEW k \in b .. e - 1, samples[k - 1] \in A[k - 1] PROVE samples[k] \in A[k]
      OBVIOUS
    <3>1. k \in b - 1 .. e - 1 /\ ~ (k < b)
      BY <2>3
    <3>2. samples[k] = samples[k - 1] \o sample(k)
      BY <2>8, <3>1
    <3> QED
      BY <2>5, <3>2
  <2>11. samples[e - 1] \in A[e - 1]
    <3>1. PICK lo \in Int, hi \in Int : lo = b - 1 /\ hi = e - 1
      BY <2>3
    <3>2. samples[lo] \in A[lo] /\ \A k \in lo + 1 .. hi : samples[k - 1] \in A[k - 1] => samples[k] \in A[k]
      BY <2>3, <2>9, <2>10, <3>1
    <3>3. \A k \in lo .. hi : samples[k] \in A[k]
      BY <3>2, FromPlaceToPlace
    <3>4. hi \in lo .. hi
      BY <2>3, <3>1
    <3> QED
      BY <3>1, <3>3, <3>4
  <2>12. PartOf(samples[e - 1], file, b, e)
    <3>1. e - 1 \in b - 1 .. e - 1 /\ (e - 1) + 1 = e
      BY <2>3
    <3> QED
      BY <2>11, <3>1 DEF A
  <2> QED
    BY <2>1, <2>12
<1>6. \A k \in 1 .. n : h.index[k].slice = Pictures(file)[k].slice
  BY <1>1, <1>2
<1>7. n # n + 1
  BY <1>2
<1>8. Tabled(h, file)
  <2> HIDE DEF file
  <2> QED
    BY <1>1, <1>3, <1>4, <1>5, <1>6, <1>7 DEF Tabled
<1> QED
  BY <1>1, <1>3, <1>8 DEF h

----------------------------------------------------------------------------
(* The invariant. *)

\* The parameter sets of a route, those of its first file.
OwnPrefix(r) == Indexed(r.files[1], "h264").global_prefix

\* An index that is cached, or loaded, is right for its segment, and the one that a program makes
\* which finds nothing.
EntryRight(r, s, e) ==
    /\ r.typ \in {"hevc", "h264", "mp4"} =>
         Tabled(e, r.files[s]) /\ (r.typ = "mp4" <=> Len(e.index) = Len(Pictures(r.files[s])))
    /\ e = Made(r, s)
    /\ r.typ = "h264" => OwnIndex(e, r.files[s]) /\ e.global_prefix = OwnPrefix(r)
    /\ r.typ = "mkv" => Len(e.index) \in Nat
    /\ r.typ # "raw"

\* How a segment may be read, and which types of video allow it.
Ways == {"get", "ahead", "behind", "iterate"}
WayRight ==
    /\ use = "ahead" => route.typ # "mkv"
    /\ use = "behind" => route.typ # "mkv"

\* The indexes on disk, and those about to be written, are right.
IndexInv ==
    /\ route \in Routes /\ seg \in Segs /\ DOMAIN cache = Segs /\ DOMAIN pc = Threads
    /\ \A s \in Segs : cache[s] # NoEntry => EntryRight(route, s, cache[s])
    /\ pc["main"] = "route" =>
         /\ route.typ = "h264" /\ toWrite \in Seq(ToSet(toWrite))
         /\ \A i \in 1 .. Len(toWrite) : OwnIndex(toWrite[i], route.files[i])
         /\ 1 \in 1 .. Len(toWrite) => toWrite[1].global_prefix = OwnPrefix(route)
    /\ pc["main"] = "write" => \A s \in Segs : toWrite[s] # NoEntry => EntryRight(route, s, toWrite[s])

\* Nothing has been read yet.
Unread ==
    /\ pc["main"] \in {"start", "feed", "index", "route", "write", "done"} /\ pc["ahead"] = "none"
    /\ pc["main"] \in {"index", "route", "write"} => use \in Ways /\ WayRight
    /\ pc["main"] # "done" => raised = "no"
    /\ lru = <<>> /\ got = <<>> /\ todo = [t \in Threads |-> <<>>] /\ from = 1 /\ last = 0
    /\ fed = <<>> /\ work = <<>> /\ read = 0 /\ written = 0
    /\ raised # "assert" /\ raised # "KeyError"

\* The pictures of the segment opened; what has been got of it.
Pics == Pictures(route.files[seg])
Frames == Len(Pics)
GotRight == /\ from \in Nat \ {0} /\ got \in Seq(Nat) /\ from + Len(got) <= Frames + 1
            /\ \A i \in 1 .. Len(got) : got[i] = Pics[from + i - 1].frame

\* What the cache of frames may hold.
Held == {e \in [num : 1 .. Frames, frame : Nat] : e.frame = Pics[e.num].frame}

\* Where a thread is while it gets a frame; the frames it has still to fetch.
Steps == {"in", "take", "lock", "locked"}
TodoRight(t) == pc[t] \in Steps => todo[t] \in Seq(1 .. Frames) /\ todo[t] # <<>>

\* A reader of frames, with or without a thread that reads ahead.
GetInv ==
    /\ use \in {"get", "ahead", "behind"} /\ route.typ \in {"hevc", "h264", "mp4"}
    /\ pc["main"] \in Steps \cup {"ready", "got", "notify", "join", "done"}
    /\ pc["ahead"] \in Steps \cup {"loop", "wait", "woken", "dead"}
    /\ use = "get" => pc["ahead"] = "dead"
    /\ lru \in Seq(Held) /\ Len(lru) <= CacheSize
    /\ todo \in [Threads -> Seq(Nat)] /\ TodoRight("main") /\ TodoRight("ahead") /\ GotRight
    /\ pc["main"] \in Steps => \A i \in 1 .. Len(todo["main"]) : todo["main"][i] = from + Len(got) + i - 1
    /\ pc["main"] = "got" => got # <<>>
    /\ use = "get" /\ pc["main"] = "take" => Has(Head(todo["main"]))
    /\ last \in Nat /\ last <= Frames + 1
    /\ pc["main"] \in {"notify", "join"} => ~ open
    /\ pc["ahead"] = "woken" => ~ open \/ last >= 2
    /\ raised \in {"no", "KeyError"} /\ (raised = "KeyError" => use # "get")

\* A reader of an MKV file, or an iteration over one.
MkvInv ==
    /\ use \in {"get", "iterate"} /\ route.typ = "mkv"
    /\ pc["main"] \in {"ready", "in", "each", "notify", "join", "done"} /\ pc["ahead"] = "dead"
    /\ lru = <<>> /\ from \in Nat \ {0} /\ got \in Seq(Nat)
    /\ \A i \in 1 .. Len(got) : got[i] = from + i - 1
    /\ pc["main"] = "in" => /\ got = <<>> /\ todo["main"] \in Seq(Nat)
                            /\ \A i \in 1 .. Len(todo["main"]) : todo["main"][i] = from + i - 1
    /\ pc["main"] = "each" => use = "iterate" /\ from = 1
    /\ pc["main"] \in {"ready", "in", "notify", "join"} => use = "get"
    /\ todo \in [Threads -> Seq(Nat)]
    /\ raised \in {"no", "TypeError"}

\* What an iteration yields i-th.
Yielded(i) == IF route.typ = "mp4" /\ i >= Frames
              THEN Pics[LookupGop(entry.index, Frames).b + i - Frames].frame
              ELSE Pics[i].frame

\* Of what the decoder puts out, so much is skipped.
Behind(skip) ==
    /\ Len(Decode(fed)) = skip + written
    /\ \A i \in 1 .. written : Decode(fed)[skip + i] = Yielded(i)
    /\ IF work # <<>> /\ work[1][1] > 0 THEN got = <<>> /\ read + work[1][1] = skip
       ELSE read = skip + Len(got)

\* An iteration: its input so far, and what has been yielded of it.
IterInv ==
    /\ use = "iterate" /\ route.typ \in {"hevc", "h264", "mp4"}
    /\ pc["main"] \in {"iterate", "done"} /\ pc["ahead"] = "dead" /\ raised = "no" /\ lru = <<>> /\ from = 1
    /\ fed \in Seq(Nals) /\ written \in Nat /\ read \in Nat
    /\ written < Frames => \/ written = 0 \/ Pics[written + 1].slice = SLICE_I
                           \/ route.typ = "mp4" /\ written = Frames - 1
    /\ written = 0 => fed = <<>> /\ work = <<>> /\ read = 0 /\ got = <<>>
    /\ work \in Seq(Nat \X (Nat \ {0})) /\ \A i \in 2 .. Len(work) : work[i][1] = 0
    /\ got \in Seq(Nat) /\ \A i \in 1 .. Len(got) : got[i] = Yielded(i)
    /\ \E skip \in Nat : Behind(skip)

\* Either nothing has been read, or the index loaded is right and read in one of the three ways.
ReaderInv == /\ IndexInv
             /\ \/ Unread
                \/ EntryRight(route, seg, entry) /\ (GetInv \/ MkvInv \/ IterInv)

\* The segments of a route are its files, and those of a stream are as an encoder writes them.
LEMMA RouteFacts ==
    ASSUME route \in Routes
    PROVE  /\ Segs = 1 .. Len(route.files) /\ Len(route.files) \in Nat \ {0}
           /\ 1 \in Segs /\ Segs # {}
           /\ route.typ \in {"hevc", "h264", "mp4", "mkv", "raw"}
           /\ route.typ \in {"hevc", "h264", "mp4"} => \A s \in Segs : Encoded(route.files[s])
BY RoutesAssumption DEF Segs

\* A thread goes to a place, and the other stays.
LEMMA Moved ==
    ASSUME DOMAIN pc = Threads, NEW t \in Threads, NEW step, GoTo(t, step)
    PROVE  /\ DOMAIN pc' = Threads /\ pc'[t] = step
           /\ \A u \in Threads : u # t => pc'[u] = pc[u]
BY DEF GoTo

\* What is known of indexes stays where neither the cache nor the indexes to write matter.
LEMMA IndexKept ==
    ASSUME IndexInv, UNCHANGED <<route, cache>>, seg' \in Segs, DOMAIN pc' = Threads,
           pc'["main"] \notin {"route", "write"}
    PROVE  IndexInv'
BY DEF IndexInv, Segs

\* A file's own index has an entry more than the file has pictures.
LEMMA OwnRight ==
    ASSUME route \in Routes, route.typ = "h264", NEW s \in Segs, NEW e, OwnIndex(e, route.files[s]), Tabled(e, route.files[s]),
           e = Made(route, s), e.global_prefix = OwnPrefix(route)
    PROVE  EntryRight(route, s, e)
<1>1. Encoded(route.files[s])
  BY RouteFacts
<1>2. Len(e.index) = Len(Pictures(route.files[s])) + 1
  BY <1>1, EncodedFacts, IndexedFacts DEF OwnIndex
<1>3. Len(Pictures(route.files[s])) \in Nat
  BY <1>1, EncodedFacts
<1> QED BY <1>2, <1>3 DEF EntryRight

\* The index computed of an HEVC file is right.
LEMMA HevcRight ==
    ASSUME route \in Routes, route.typ = "hevc", NEW s \in Segs
    PROVE  EntryRight(route, s, Indexed(route.files[s], "hevc"))
<1>1. Encoded(route.files[s])
  BY RouteFacts
<1>2. Len(Indexed(route.files[s], "hevc").index) = Len(Pictures(route.files[s])) + 1
  BY <1>1, EncodedFacts, IndexedFacts
<1>3. Len(Pictures(route.files[s])) \in Nat
  BY <1>1, EncodedFacts
<1>4. Tabled(Indexed(route.files[s], "hevc"), route.files[s])
  BY HevcTabled DEF Segs
<1> QED BY <1>2, <1>3, <1>4 DEF EntryRight, Made

\* The index computed of an MP4 file is right.
LEMMA Mp4Right ==
    ASSUME route \in Routes, route.typ = "mp4", NEW s \in Segs
    PROVE  EntryRight(route, s, Mp4Index(route.boxes, <<ParameterSet>>))
<1>1. /\ Tabled(Mp4Index(route.boxes, <<ParameterSet>>), route.files[s])
      /\ Len(Mp4Index(route.boxes, <<ParameterSet>>).index) = Len(Pictures(route.files[s]))
  BY Mp4Tabled DEF Segs
<1> QED BY <1>1 DEF EntryRight, Made

\* What is computed of one file is right, or there is nothing yet.
LEMMA MadeRight ==
    ASSUME IndexInv, NEW e, EntryRight(route, seg, e), toWrite' = [NoEntries EXCEPT ![seg] = e], UNCHANGED route
    PROVE  \A s \in Segs' : toWrite'[s] # NoEntry => EntryRight(route', s, toWrite'[s])
BY DEF IndexInv, NoEntries, Segs

\* An exception of the main thread ends the program.
LEMMA Unlucky ==
    ASSUME DOMAIN pc = Threads, NEW what, Fail("main", what)
    PROVE  raised' = what /\ GoTo("main", "done")
BY DEF Fail

\* A file is indexed, or an exception ends the program.
LEMMA UnreadMakeIndex ==
    ASSUME IndexInv, Unread, MakeIndex
    PROVE  IndexInv' /\ Unread'
<1>1. /\ pc["main"] = "index" /\ raised = "no" /\ pc["ahead"] = "none" /\ use \in Ways /\ WayRight
      /\ DOMAIN pc = Threads /\ route \in Routes /\ seg \in Segs
  BY DEF MakeIndex, Unread, IndexInv
<1>2. UNCHANGED <<disk, seg, use, todo, frames, last, from, got, decoder>>
  BY DEF MakeIndex
<1>3. UNCHANGED <<route, cache>> /\ Segs' = Segs
  BY <1>2 DEF disk, Segs
<1>4. ASSUME NEW e, EntryRight(route, seg, e), toWrite' = [NoEntries EXCEPT ![seg] = e], GoTo("main", "write"), UNCHANGED raised
      PROVE  IndexInv' /\ Unread'
  <2>1. \A s \in Segs' : toWrite'[s] # NoEntry => EntryRight(route', s, toWrite'[s])
    BY <1>3, <1>4, MadeRight
  <2>2. pc'["main"] = "write" /\ pc'["ahead"] = "none" /\ DOMAIN pc' = Threads
    BY <1>1, <1>4, Moved DEF Threads
  <2>3. IndexInv'
    BY <1>2, <1>3, <2>1, <2>2 DEF IndexInv
  <2>4. Unread'
    BY <1>1, <1>2, <1>3, <1>4, <2>2 DEF Unread, Ways, WayRight, frames, decoder
  <2> QED BY <2>3, <2>4
<1>5. ASSUME Fail("main", "unreadable")
      PROVE  IndexInv' /\ Unread'
  <2>1. pc'["main"] = "done" /\ pc'["ahead"] = "none" /\ DOMAIN pc' = Threads /\ raised' = "unreadable"
    BY <1>1, <1>5, Unlucky, Moved DEF Threads
  <2>2. IndexInv'
    BY <1>1, <1>2, <1>3, <2>1, IndexKept
  <2>3. Unread'
    BY <1>1, <1>2, <1>3, <2>1 DEF Unread, Ways, WayRight, frames, decoder
  <2> QED BY <2>2, <2>3
<1>6. CASE route.typ = "hevc"
  BY <1>1, <1>4, <1>6, HevcRight DEF MakeIndex, File
<1>7. CASE route.typ = "mp4" /\ python2
  BY <1>1, <1>4, <1>7, Mp4Right DEF MakeIndex
<1>8. CASE route.typ = "mkv"
  <2>1. route.entry # Raises => Len(route.entry.index) \in Nat
    BY <1>1, <1>8, RoutesAssumption DEF IsMkv
  <2>2. route.entry # Raises => EntryRight(route, seg, route.entry)
    BY <1>8, <2>1 DEF EntryRight, Made
  <2> QED BY <1>4, <1>5, <1>8, <2>2 DEF MakeIndex
<1>9. CASE route.typ = "h264" /\ python2
  <2>1. GoTo("main", "route") /\ toWrite' = <<>> /\ UNCHANGED raised
    BY <1>9 DEF MakeIndex
  <2>2. pc'["main"] = "route" /\ pc'["ahead"] = "none" /\ DOMAIN pc' = Threads
    BY <1>1, <2>1, Moved DEF Threads
  <2>3. toWrite' \in Seq(ToSet(toWrite')) /\ Len(toWrite') = 0
    BY <2>1
  <2>4. IndexInv'
    BY <1>2, <1>3, <1>9, <2>2, <2>3 DEF IndexInv
  <2>5. Unread'
    BY <1>1, <1>2, <1>3, <2>1, <2>2 DEF Unread, Ways, WayRight, frames, decoder
  <2> QED BY <2>4, <2>5
<1>10. CASE route.typ \in {"h264", "mp4"} /\ ~ python2
  BY <1>5, <1>10 DEF MakeIndex
<1> QED BY <1>6, <1>7, <1>8, <1>9, <1>10 DEF MakeIndex

\* Before a file is opened, a step that changes neither the way nor what is read leaves things unread.
LEMMA StaysUnread ==
    ASSUME Unread, UNCHANGED <<route, use, todo, frames, last, from, got, decoder>>,
           pc'["main"] \in {"index", "route", "write", "done"}, pc'["ahead"] = "none",
           pc["main"] \in {"index", "route", "write"},
           raised' = raised \/ (pc'["main"] = "done" /\ raised' \notin {"assert", "KeyError"})
    PROVE  Unread'
BY DEF Unread, Ways, WayRight, frames, decoder

\* The indexes of a route that are there already are those of its first files.
LEMMA UnreadIndexFile ==
    ASSUME IndexInv, Unread, IndexFile
    PROVE  IndexInv' /\ Unread'
<1>1. /\ pc["main"] = "route" /\ pc["ahead"] = "none" /\ Len(toWrite) < Len(route.files)
      /\ route \in Routes /\ route.typ = "h264"
      /\ toWrite \in Seq(ToSet(toWrite)) /\ (\A i \in 1 .. Len(toWrite) : OwnIndex(toWrite[i], route.files[i]))
      /\ (1 \in 1 .. Len(toWrite) => toWrite[1].global_prefix = OwnPrefix(route))
  BY DEF IndexFile, Unread, IndexInv
<1>2. UNCHANGED <<disk, seg, use, entry, pc, todo, frames, reader, decoder, gets>>
  BY DEF IndexFile
<1>3. PICK n : n = Len(toWrite) + 1
  OBVIOUS
<1>4. PICK e : e = IF n \in Cached THEN cache[n] ELSE Indexed(route.files[n], "h264")
  OBVIOUS
<1>5. toWrite' = Append(toWrite, e)
  BY <1>3, <1>4 DEF IndexFile
<1>6. n \in Segs /\ n \in 1 .. Len(route.files) /\ Len(toWrite) \in Nat
  BY <1>1, <1>3, RouteFacts
<1>7. OwnIndex(e, route.files[n])
  <2>1. CASE n \in Cached
    BY <1>1, <1>4, <1>6, <2>1 DEF Cached, IndexInv, EntryRight
  <2>2. CASE n \notin Cached
    BY <1>1, <1>4, <1>6, <2>2, RouteFacts, IndexedOwn
  <2> QED BY <2>1, <2>2
<1>8. toWrite' \in Seq(ToSet(toWrite'))
  <2>1. PICK A : A = ToSet(toWrite) \cup {e}
    OBVIOUS
  <2>2. toWrite \in Seq(A) /\ e \in A
    BY <1>1, <2>1
  <2>3. toWrite' \in Seq(A)
    BY <1>5, <2>2
  <2> HIDE <1>5, <1>1
  <2> QED BY <2>3 DEF ToSet
<1>9. \A i \in 1 .. Len(toWrite') : OwnIndex(toWrite'[i], route.files[i])
  BY <1>1, <1>3, <1>5, <1>6, <1>7
<1>10. toWrite'[1].global_prefix = OwnPrefix(route)
  <2>1. CASE n = 1
    <3>1. e.global_prefix = OwnPrefix(route)
      BY <1>1, <1>4, <1>6, <2>1 DEF Cached, IndexInv, EntryRight, OwnPrefix
    <3> QED BY <1>1, <1>3, <1>5, <2>1, <3>1
  <2>2. CASE n # 1
    <3>1. 1 \in 1 .. Len(toWrite) /\ toWrite'[1] = toWrite[1]
      BY <1>1, <1>3, <1>5, <1>6, <2>2
    <3> QED BY <1>1, <3>1
  <2> QED BY <2>1, <2>2
<1>11. IndexInv'
  BY <1>1, <1>2, <1>8, <1>9, <1>10 DEF IndexInv, disk, Segs, OwnPrefix
<1>12. Unread'
  BY <1>1, <1>2, StaysUnread DEF disk, reader
<1> QED BY <1>11, <1>12

\* The indexes made self-contained are right for every segment, or the program ends.
LEMMA UnreadIndexRoute ==
    ASSUME IndexInv, Unread, IndexRoute
    PROVE  IndexInv' /\ Unread'
<1>1. /\ pc["main"] = "route" /\ pc["ahead"] = "none" /\ Len(toWrite) = Len(route.files)
      /\ route \in Routes /\ route.typ = "h264" /\ DOMAIN pc = Threads /\ seg \in Segs
      /\ (\A i \in 1 .. Len(toWrite) : OwnIndex(toWrite[i], route.files[i]))
      /\ (1 \in 1 .. Len(toWrite) => toWrite[1].global_prefix = OwnPrefix(route))
  BY DEF IndexRoute, Unread, IndexInv
<1>2. UNCHANGED <<disk, seg, use, entry, todo, frames, open, last, from, got, decoder, gets>>
  BY DEF IndexRoute
<1>3. UNCHANGED <<route, cache>> /\ Segs' = Segs
  BY <1>2 DEF disk, Segs
<1>4. PICK made : made = IndexPstream(route.files, toWrite)
  OBVIOUS
<1>5. CASE made = Raises
  <2>1. Fail("main", "unreadable")
    BY <1>4, <1>5 DEF IndexRoute
  <2>2. pc'["main"] = "done" /\ pc'["ahead"] = "none" /\ DOMAIN pc' = Threads /\ raised' = "unreadable"
    BY <1>1, <2>1, Unlucky, Moved DEF Threads
  <2>3. IndexInv'
    BY <1>1, <1>2, <1>3, <2>2, IndexKept
  <2>4. Unread'
    BY <1>1, <1>2, <1>3, <2>2, StaysUnread
  <2> QED BY <2>3, <2>4
<1>6. CASE made # Raises
  <2>1. toWrite' = made /\ GoTo("main", "write") /\ UNCHANGED raised
    BY <1>4, <1>6 DEF IndexRoute
  <2>2. pc'["main"] = "write" /\ pc'["ahead"] = "none" /\ DOMAIN pc' = Threads
    BY <1>1, <2>1, Moved DEF Threads
  <2>3. \A i \in DOMAIN route.files : OwnIndex(toWrite[i], route.files[i])
    BY <1>1, RouteFacts DEF Segs
  <2>4. ASSUME NEW s \in Segs
        PROVE  EntryRight(route, s, made[s])
    <3>1. OwnIndex(made[s], route.files[s]) /\ Tabled(made[s], route.files[s])
      BY <1>1, <1>4, <1>6, <2>3, PstreamTabled DEF Segs
    <3>2. /\ made = IndexPstream(route.files, [i \in DOMAIN route.files |-> Indexed(route.files[i], "h264")])
          /\ \A i \in DOMAIN route.files : made[i].global_prefix = toWrite[1].global_prefix
      <4>1. PICK fresh : fresh = [i \in DOMAIN route.files |-> Indexed(route.files[i], "h264")]
        OBVIOUS
      <4>2. /\ Len(route.files) \in Nat /\ DOMAIN route.files = 1 .. Len(route.files) /\ 1 \in DOMAIN route.files
            /\ \A i \in DOMAIN route.files : Encoded(route.files[i])
        BY <1>1, RouteFacts DEF Segs
      <4>3. \A i \in DOMAIN route.files : OwnIndex(fresh[i], route.files[i])
        BY <4>1, <4>2, IndexedOwn
      <4>4. toWrite[1].global_prefix = fresh[1].global_prefix
        BY <1>1, <4>1, <4>2 DEF OwnPrefix
      <4>5. PICK files, own : files = route.files /\ own = toWrite
        OBVIOUS
      <4>6. /\ Len(files) \in Nat /\ DOMAIN files = 1 .. Len(files) /\ 1 \in DOMAIN files
            /\ \A i \in DOMAIN files : OwnIndex(own[i], files[i])
            /\ \A i \in DOMAIN files : OwnIndex(fresh[i], files[i])
            /\ own[1].global_prefix = fresh[1].global_prefix
            /\ made = IndexPstream(files, own) /\ made # Raises
        BY <1>4, <1>6, <2>3, <4>2, <4>3, <4>4, <4>5
      <4>7. made = IndexPstream(files, fresh)
        BY <4>6, PstreamSame
      <4>8. \A i \in DOMAIN files : made[i].global_prefix = own[1].global_prefix
        BY ONLY <4>6, PstreamSame, SMTT(60)
      <4> QED BY ONLY <4>1, <4>5, <4>7, <4>8, Zenon
    <3>3. made[s] = Made(route, s)
      BY <1>1, <3>2 DEF Made
    <3>4. made[s].global_prefix = OwnPrefix(route)
      <4>1. 1 \in 1 .. Len(toWrite)
        BY <1>1, RouteFacts
      <4> QED BY <1>1, <3>2, <4>1 DEF Segs
    <3> QED BY <1>1, <3>1, <3>3, <3>4, OwnRight
  <2>5. IndexInv'
    BY <1>1, <1>2, <1>3, <2>1, <2>2, <2>4 DEF IndexInv
  <2>6. Unread'
    BY <1>1, <1>2, <1>3, <2>1, <2>2, StaysUnread
  <2> QED BY <2>5, <2>6
<1> QED BY <1>5, <1>6

\* What is written to the cache is right for its segment.
LEMMA UnreadWriteIndex ==
    ASSUME IndexInv, Unread, WriteIndex
    PROVE  IndexInv' /\ Unread'
<1>1. /\ pc["main"] = "write" /\ pc["ahead"] = "none" /\ route \in Routes
      /\ DOMAIN pc = Threads /\ seg \in Segs /\ DOMAIN cache = Segs
      /\ \A s \in Segs : toWrite[s] # NoEntry => EntryRight(route, s, toWrite[s])
      /\ \A s \in Segs : cache[s] # NoEntry => EntryRight(route, s, cache[s])
  BY DEF WriteIndex, Unread, IndexInv
<1>2. UNCHANGED <<route, python2, opened, todo, frames, reader, decoder, gets>>
  BY DEF WriteIndex
<1>3. UNCHANGED <<route, seg, use, toWrite>> /\ Segs' = Segs
  BY <1>2 DEF opened, Segs
<1>4. PICK left : left = {s \in Segs : toWrite[s] # NoEntry /\ s \notin Cached}
  OBVIOUS
<1>5. CASE left = {}
  <2>1. GoTo("main", "index") /\ UNCHANGED cache
    BY <1>4, <1>5 DEF WriteIndex
  <2>2. pc'["main"] = "index" /\ pc'["ahead"] = "none" /\ DOMAIN pc' = Threads
    BY <1>1, <2>1, Moved DEF Threads
  <2>3. IndexInv'
    BY <1>1, <1>2, <1>3, <2>1, <2>2, IndexKept
  <2>4. Unread'
    BY <1>1, <1>2, <1>3, <2>2, StaysUnread DEF reader
  <2> QED BY <2>3, <2>4
<1>6. CASE left # {}
  <2>1. PICK s : s = CHOOSE x \in left : \A y \in left : x <= y
    OBVIOUS
  <2>2. cache' = [cache EXCEPT ![s] = toWrite[s]] /\ UNCHANGED pc
    BY <1>4, <1>6, <2>1 DEF WriteIndex
  <2>3. left \in SUBSET (1 .. Len(route.files)) /\ Len(route.files) \in Nat
    BY <1>1, <1>4, RouteFacts
  <2>4. \E x \in left : \A y \in left : x <= y
    BY <1>6, <2>3, PlaceExtremes
  <2>5. s \in left
    BY <2>1, <2>4
  <2>6. s \in Segs /\ EntryRight(route, s, toWrite[s])
    BY <1>1, <1>4, <2>5
  <2>7. DOMAIN cache' = Segs /\ \A i \in Segs : cache'[i] # NoEntry => EntryRight(route, i, cache'[i])
    BY <1>1, <2>2, <2>6
  <2>8. IndexInv'
    BY <1>1, <1>3, <2>2, <2>7 DEF IndexInv
  <2>9. Unread'
    BY <1>1, <1>2, <1>3, <2>2, StaysUnread DEF reader
  <2> QED BY <2>8, <2>9
<1> QED BY <1>5, <1>6

\* A segment is opened in a way that its type allows.
LEMMA UnreadOpen ==
    ASSUME IndexInv, Unread, Open
    PROVE  IndexInv' /\ Unread'
<1>1. /\ pc["main"] = "start" /\ pc["ahead"] = "none" /\ DOMAIN pc = Threads /\ raised = "no"
      /\ seg' \in Segs /\ (use' = "feed" \/ use' \in Ways)
      /\ (use' = "behind" => route.typ \notin {"mp4", "mkv"}) /\ (use' = "ahead" => route.typ # "mkv")
      /\ GoTo("main", IF use' = "feed" THEN "feed" ELSE "index")
  BY DEF Open, Unread, IndexInv, Ways
<1>2. UNCHANGED <<disk, entry, toWrite, todo, frames, reader, decoder, gets>>
  BY DEF Open
<1>3. /\ pc'["main"] \in {"feed", "index"} /\ (pc'["main"] = "index" => use' \in Ways)
      /\ pc'["ahead"] = "none" /\ DOMAIN pc' = Threads
  BY <1>1, Moved DEF Threads
<1>4. IndexInv'
  BY <1>1, <1>2, <1>3, IndexKept DEF disk
<1>5. Unread'
  BY <1>1, <1>2, <1>3 DEF Unread, WayRight, disk, frames, reader, decoder
<1> QED BY <1>4, <1>5

\* A raw video ends the program.
LEMMA UnreadOpenRaw ==
    ASSUME IndexInv, Unread, OpenRaw
    PROVE  IndexInv' /\ Unread'
<1>1. pc["main"] = "index" /\ pc["ahead"] = "none" /\ DOMAIN pc = Threads /\ seg \in Segs
  BY DEF OpenRaw, Unread, IndexInv
<1>2. /\ UNCHANGED <<disk, opened, todo, frames, open, last, from, got, decoder, gets>>
      /\ Fail("main", "NameError")
  BY DEF OpenRaw
<1>3. pc'["main"] = "done" /\ pc'["ahead"] = "none" /\ DOMAIN pc' = Threads /\ raised' = "NameError"
  BY <1>1, <1>2, Unlucky, Moved DEF Threads
<1>4. seg' \in Segs
  BY <1>1, <1>2 DEF opened
<1>5. IndexInv'
  BY <1>2, <1>3, <1>4, IndexKept DEF disk
<1>6. Unread'
  BY <1>1, <1>2, <1>3, StaysUnread DEF disk, opened
<1> QED BY <1>5, <1>6

\* A feeder ends the program.
LEMMA UnreadFeeds ==
    ASSUME IndexInv, Unread, FeedFrames
    PROVE  IndexInv' /\ Unread'
<1>1. pc["ahead"] = "none" /\ DOMAIN pc = Threads /\ seg \in Segs
  BY DEF Unread, IndexInv
<1>2. /\ UNCHANGED <<disk, opened, todo, frames, open, last, from, got, fed, work, read, written>>
      /\ Fail("main", "NameError")
  BY DEF FeedFrames
<1>3. pc'["main"] = "done" /\ pc'["ahead"] = "none" /\ DOMAIN pc' = Threads /\ raised' = "NameError"
  BY <1>1, <1>2, Unlucky, Moved DEF Threads
<1>4. seg' \in Segs
  BY <1>1, <1>2 DEF opened
<1>5. IndexInv'
  BY <1>2, <1>3, <1>4, IndexKept DEF disk
<1>6. Unread'
  BY <1>2, <1>3 DEF Unread, frames
<1> QED BY <1>5, <1>6

\* The pictures of the segment opened.
LEMMA PicsFacts ==
    ASSUME route \in Routes, seg \in Segs, route.typ \in {"hevc", "h264", "mp4"}
    PROVE  /\ Encoded(route.files[seg]) /\ Pics \in Seq(Nals) /\ Frames \in Nat \ {0} /\ Frames = Len(Pics)
           /\ \A k \in 1 .. Frames : Pics[k].frame \in Nat
BY RouteFacts, EncodedFacts DEF Pics, Frames

\* With its index loaded the segment is read in one of the three ways, from the beginning.
LEMMA UnreadLoadIndex ==
    ASSUME IndexInv, Unread, LoadIndex
    PROVE  ReaderInv'
<1>1. /\ pc["main"] = "index" /\ use \in Ways /\ WayRight /\ raised = "no"
      /\ route \in Routes /\ seg \in Segs /\ DOMAIN pc = Threads
      /\ EntryRight(route, seg, cache[seg]) /\ route.typ # "raw"
  BY DEF LoadIndex, Unread, IndexInv, Cached, EntryRight
<1>2. UNCHANGED <<disk, seg, use, todo, frames, last, from, got, raised, decoder, gets>>
  BY DEF LoadIndex
<1>3. UNCHANGED <<route, cache, lru, fed, work, read, written>>
  BY <1>2 DEF disk, frames, decoder
<1>4. Pics' = Pics /\ Frames' = Frames /\ Segs' = Segs /\ Held' = Held
  BY <1>2, <1>3 DEF Pics, Frames, Segs, Held
<1>5. EntryRight(route', seg', entry')
  BY <1>1, <1>2, <1>3 DEF LoadIndex
<1>6. /\ pc' = [main |-> IF route.typ = "mkv" /\ use = "iterate" THEN "each" ELSE IF use = "iterate" THEN use ELSE "ready",
                ahead |-> IF use \in {"ahead", "behind"} THEN "loop" ELSE "dead"]
  BY DEF LoadIndex
<1>7. DOMAIN pc' = Threads /\ pc'["main"] \notin {"route", "write"}
  BY <1>6 DEF Threads
<1>8. IndexInv'
  BY <1>1, <1>2, <1>3, <1>4, <1>7, IndexKept
<1>9. /\ lru = <<>> /\ got = <<>> /\ todo = [t \in Threads |-> <<>>] /\ from = 1 /\ last = 0
      /\ fed = <<>> /\ work = <<>> /\ read = 0 /\ written = 0
  BY DEF Unread
<1>10. CASE route.typ = "mkv"
  <2>1. use \in {"get", "iterate"}
    BY <1>1, <1>10 DEF Ways, WayRight
  <2>2. pc'["main"] \in {"ready", "each"} /\ pc'["ahead"] = "dead"
    BY <1>6, <1>10, <2>1
  <2> (pc'["main"] = "each" => use = "iterate") /\ (pc'["main"] = "ready" => use = "get")
    BY <1>6, <1>10, <2>1
  <2>3. todo \in [Threads -> Seq(Nat)]
    BY <1>9
  <2>4. MkvInv'
    BY <1>1, <1>2, <1>3, <1>9, <1>10, <2>1, <2>2, <2>3 DEF MkvInv
  <2> QED BY <1>5, <1>8, <2>4 DEF ReaderInv
<1>11. CASE route.typ \in {"hevc", "h264", "mp4"}
  <2>1. Frames \in Nat \ {0}
    BY <1>1, <1>11, PicsFacts
  <2>2. CASE use \in {"get", "ahead", "behind"}
    <3>1. pc'["main"] = "ready" /\ pc'["ahead"] \in {"loop", "dead"} /\ (use = "get" => pc'["ahead"] = "dead")
      BY <1>6, <1>11, <2>2
    <3>2. todo \in [Threads -> Seq(Nat)] /\ lru \in Seq(Held) /\ Len(lru) <= CacheSize
      BY <1>9, FrameReaderAssumption
    <3>3. TodoRight("main")' /\ TodoRight("ahead")'
      BY <3>1 DEF TodoRight, Steps
    <3>4. GotRight'
      BY <1>2, <1>4, <1>9, <2>1 DEF GotRight
    <3>5. GetInv'
      BY <1>1, <1>2, <1>3, <1>4, <1>9, <1>11, <2>1, <2>2, <3>1, <3>2, <3>3, <3>4 DEF GetInv, Steps
    <3> QED BY <1>5, <1>8, <3>5 DEF ReaderInv
  <2>3. CASE use = "iterate"
    <3>1. pc'["main"] = "iterate" /\ pc'["ahead"] = "dead"
      BY <1>6, <1>11, <2>3
    <3>2. Behind(0)'
      <4>1. Decode(fed') = <<>>
        BY <1>3, <1>9, NoPictures
      <4> QED BY <1>2, <1>3, <1>9, <4>1 DEF Behind
    <3>3. \E skip \in Nat : Behind(skip)'
      BY <3>2
    <3>4. IterInv'
      BY <1>1, <1>2, <1>3, <1>4, <1>9, <1>11, <2>3, <3>1, <3>3 DEF IterInv
    <3> QED BY <1>5, <1>8, <3>4 DEF ReaderInv
  <2> QED BY <1>1, <2>2, <2>3 DEF Ways
<1> QED BY <1>1, <1>10, <1>11, RouteFacts

\* A program that follows another finds the cache alone.
LEMMA ReaderRestarts ==
    ASSUME IndexInv, Restart
    PROVE  ReaderInv'
<1>1. /\ route \in Routes /\ DOMAIN cache = Segs
      /\ \A s \in Segs : cache[s] # NoEntry => EntryRight(route, s, cache[s])
  BY DEF IndexInv
<1>2. UNCHANGED <<route, cache>> /\ pc' = Start /\ seg' = 1
  BY DEF Restart, disk
<1>3. pc'["main"] = "start" /\ pc'["ahead"] = "none" /\ DOMAIN pc' = Threads
  BY <1>2 DEF Start, Threads
<1>4. 1 \in Segs' /\ Segs' = Segs
  BY <1>1, <1>2, RouteFacts DEF Segs
<1>5. IndexInv'
  BY <1>1, <1>2, <1>3, <1>4 DEF IndexInv
<1>6. Unread'
  BY <1>3 DEF Restart, Unread
<1> QED BY <1>5, <1>6 DEF ReaderInv

\* The invariant holds at the beginning.
LEMMA ReaderStarts ==
    ASSUME ReaderInit
    PROVE  ReaderInv
<1>1. /\ route \in Routes /\ cache = NoEntries /\ pc = Start /\ seg = 1
  BY DEF ReaderInit
<1>2. pc["main"] = "start" /\ pc["ahead"] = "none" /\ DOMAIN pc = Threads
  BY <1>1 DEF Start, Threads
<1>3. IndexInv
  BY <1>1, <1>2, RouteFacts DEF IndexInv, NoEntries
<1>4. Unread
  BY <1>2 DEF ReaderInit, Unread
<1> QED BY <1>3, <1>4 DEF ReaderInv

\* The invariant is kept by what happens before reading.
LEMMA UnreadSteps ==
    ASSUME IndexInv, Unread, ReaderNext
    PROVE  ReaderInv'
<1>1. /\ pc["main"] \in {"start", "feed", "index", "route", "write", "done"} /\ pc["ahead"] = "none"
  BY DEF Unread
<1>2. CASE IndexStep \/ Open \/ FeedFrames
  BY <1>2, UnreadOpen, UnreadFeeds, UnreadMakeIndex, UnreadOpenRaw, UnreadIndexFile, UnreadIndexRoute, UnreadWriteIndex, UnreadLoadIndex
     DEF IndexStep, ReaderInv
<1>3. CASE Restart
  BY <1>3, ReaderRestarts
<1>4. ~ (MainStep \/ AheadStep \/ GetFrames)
  BY <1>1 DEF MainStep, AheadStep, ReaderStep, LookIn, Take, Lock, Fetch, Return, Close, CloseNotify, Join, AheadWait, AheadWoken, GetFrames
<1>5. ~ (IterStep \/ MkvStep)
  BY <1>1 DEF IterStep, MkvStep, IterWrite, IterEos, IterRead, IterEnd, GetMkv, IterMkv, IterMkvEnd
<1> QED BY <1>2, <1>3, <1>4, <1>5 DEF ReaderNext, Step

\* What is notified is the thread that reads ahead.
LEMMA NotifiedFacts ==
    ASSUME DOMAIN pc = Threads
    PROVE  /\ DOMAIN Notified = Threads /\ Notified["main"] = pc["main"]
           /\ Notified["ahead"] = IF pc["ahead"] = "wait" THEN "woken" ELSE pc["ahead"]
BY DEF Notified, Threads

\* The frames read of an MKV file follow those that have been got.
LEMMA MkvReads ==
    ASSUME IndexInv, EntryRight(route, seg, entry), MkvInv, NEW nums \in Seq(Nat), ReadMkv(nums),
           \A i \in 1 .. Len(nums) : nums[i] = from + Len(got) + i - 1
    PROVE  /\ DOMAIN pc' = Threads /\ pc'["ahead"] = "dead" /\ pc'["main"] \in {"done", "ready", "each"}
           /\ got' \in Seq(Nat) /\ \A i \in 1 .. Len(got') : got'[i] = from + i - 1
           /\ raised' \in {"no", "TypeError"}
           /\ pc'["main"] = "each" => use = "iterate"
           /\ pc'["main"] = "ready" => use = "get"
<1>1. DOMAIN pc = Threads /\ route \in Routes /\ pc["ahead"] = "dead" /\ route.typ = "mkv" /\ use \in {"get", "iterate"}
      /\ got \in Seq(Nat) /\ from \in Nat \ {0} /\ raised \in {"no", "TypeError"}
      /\ \A i \in 1 .. Len(got) : got[i] = from + i - 1
  BY DEF IndexInv, MkvInv
<1>2. CASE ~ python2
  <2>1. raised' = "TypeError" /\ GoTo("main", "done") /\ UNCHANGED got
    BY <1>2 DEF ReadMkv, Fail
  <2>2. DOMAIN pc' = Threads /\ pc'["main"] = "done" /\ pc'["ahead"] = "dead"
    BY <1>1, <2>1, Moved DEF Threads
  <2> QED BY <1>1, <2>1, <2>2
<1>3. CASE python2
  <2>1. PICK frame \in route.frames : frame.nums = nums
                /\ IF Len(frame.ret) # Len(nums) THEN Fail("main", "assert") /\ UNCHANGED got
                   ELSE got' = got \o frame.ret /\ UNCHANGED raised /\ GoTo("main", IF use = "get" THEN "ready" ELSE "each")
    BY <1>3 DEF ReadMkv
  <2>2. frame.ret = nums
    BY <1>1, <2>1, RoutesAssumption DEF IsMkv
  <2>3. got' = got \o nums /\ UNCHANGED raised /\ GoTo("main", IF use = "get" THEN "ready" ELSE "each")
    BY <2>1, <2>2
  <2>4. DOMAIN pc' = Threads /\ pc'["main"] = (IF use = "get" THEN "ready" ELSE "each") /\ pc'["ahead"] = "dead"
    BY <1>1, <2>3, Moved DEF Threads
  <2>5. got' \in Seq(Nat) /\ \A i \in 1 .. Len(got') : got'[i] = from + i - 1
    BY <1>1, <2>3
  <2> QED BY <1>1, <2>3, <2>4, <2>5
<1> QED BY <1>2, <1>3

\* The invariant is kept while an MKV file is read.
LEMMA MkvSteps ==
    ASSUME IndexInv, EntryRight(route, seg, entry), MkvInv, ReaderNext
    PROVE  ReaderInv'
<1>1. /\ DOMAIN pc = Threads /\ route \in Routes /\ seg \in Segs /\ pc["ahead"] = "dead"
      /\ route.typ = "mkv" /\ use \in {"get", "iterate"} /\ got \in Seq(Nat) /\ from \in Nat \ {0}
      /\ pc["main"] \in {"ready", "in", "each", "notify", "join", "done"} /\ lru = <<>>
      /\ todo \in [Threads -> Seq(Nat)] /\ raised \in {"no", "TypeError"}
      /\ \A i \in 1 .. Len(got) : got[i] = from + i - 1
      /\ (pc["main"] = "each" => use = "iterate" /\ from = 1)
      /\ (pc["main"] \in {"ready", "in", "notify", "join"} => use = "get")
      /\ Len(entry.index) \in Nat
  BY DEF IndexInv, MkvInv, EntryRight
<1>2. ASSUME UNCHANGED <<disk, opened>>, MkvInv', DOMAIN pc' = Threads
      PROVE  ReaderInv'
  <2>1. UNCHANGED <<route, cache, seg, entry>> /\ pc'["main"] \notin {"route", "write"}
    BY <1>2 DEF disk, opened, MkvInv
  <2>2. IndexInv'
    BY <1>1, <1>2, <2>1, IndexKept DEF Segs
  <2> QED BY <1>2, <2>1, <2>2 DEF ReaderInv
<1>3. CASE GetFrames
  <2>1. PICK num \in 1 .. Count, count \in {1, 2} :
             todo' = [todo EXCEPT !["main"] = [i \in 1 .. count |-> num + i - 1]] /\ from' = num
    BY <1>3 DEF GetFrames
  <2>2. num \in Nat \ {0} /\ count \in Nat
    BY <1>1, <2>1 DEF Count
  <2>3. /\ GoTo("main", "in") /\ got' = <<>> /\ pc["main"] = "ready"
        /\ UNCHANGED <<disk, opened, frames, open, last, raised, decoder>>
    BY <1>3 DEF GetFrames
  <2>4. DOMAIN pc' = Threads /\ pc'["main"] = "in" /\ pc'["ahead"] = "dead"
    BY <1>1, <2>3, Moved DEF Threads
  <2>5. PICK asked : asked = [i \in 1 .. count |-> num + i - 1]
    OBVIOUS
  <2>6. asked \in Seq(Nat) /\ Len(asked) = count
    BY <2>2, <2>5
  <2>7. \A i \in 1 .. Len(asked) : asked[i] = num + i - 1
    BY <2>2, <2>5, <2>6
  <2>8. todo'["main"] = asked /\ todo' \in [Threads -> Seq(Nat)]
    BY <1>1, <2>1, <2>5, <2>6 DEF Threads
  <2>9. MkvInv'
    BY <1>1, <2>1, <2>2, <2>3, <2>4, <2>6, <2>7, <2>8 DEF MkvInv, frames, disk, opened
  <2> QED BY <1>2, <2>3, <2>4, <2>9
<1>4. CASE GetMkv
  <2>1. /\ pc["main"] = "in" /\ ReadMkv(todo["main"]) /\ todo' = [todo EXCEPT !["main"] = <<>>]
        /\ UNCHANGED <<disk, opened, frames, open, last, from, decoder, gets>>
    BY <1>4 DEF GetMkv
  <2>2. got = <<>> /\ todo["main"] \in Seq(Nat) /\ \A i \in 1 .. Len(todo["main"]) : todo["main"][i] = from + i - 1
    BY <2>1 DEF MkvInv
  <2>3. PICK nums : nums = todo["main"]
    OBVIOUS
  <2>4. nums \in Seq(Nat) /\ ReadMkv(nums) /\ \A i \in 1 .. Len(nums) : nums[i] = from + Len(got) + i - 1
    BY <1>1, <2>1, <2>2, <2>3
  <2>5. /\ DOMAIN pc' = Threads /\ pc'["ahead"] = "dead" /\ pc'["main"] \in {"done", "ready", "each"}
        /\ got' \in Seq(Nat) /\ (\A i \in 1 .. Len(got') : got'[i] = from + i - 1) /\ raised' \in {"no", "TypeError"}
        /\ (pc'["main"] = "each" => use = "iterate")
        /\ (pc'["main"] = "ready" => use = "get")
    BY <2>4, MkvReads
  <2>6. pc'["main"] # "each"
    BY <1>1, <2>1, <2>5
  <2>7. todo' \in [Threads -> Seq(Nat)]
    BY <1>1, <2>1 DEF Threads
  <2>8. MkvInv'
    BY <1>1, <2>1, <2>5, <2>6, <2>7 DEF MkvInv, frames, disk, opened
  <2> QED BY <1>2, <2>1, <2>5, <2>8
<1>5. CASE IterMkv
  <2>1. /\ pc["main"] = "each" /\ ReadMkv(<<Len(got) + 1>>)
        /\ UNCHANGED <<disk, opened, todo, frames, open, last, from, decoder, gets>>
    BY <1>5 DEF IterMkv
  <2>2. PICK nums : nums = <<Len(got) + 1>>
    OBVIOUS
  <2>3. nums \in Seq(Nat) /\ ReadMkv(nums) /\ \A i \in 1 .. Len(nums) : nums[i] = from + Len(got) + i - 1
    BY <1>1, <2>1, <2>2
  <2>4. /\ DOMAIN pc' = Threads /\ pc'["ahead"] = "dead" /\ pc'["main"] \in {"done", "ready", "each"}
        /\ got' \in Seq(Nat) /\ (\A i \in 1 .. Len(got') : got'[i] = from + i - 1) /\ raised' \in {"no", "TypeError"}
        /\ (pc'["main"] = "ready" => use = "get")
    BY <2>3, MkvReads
  <2>5. MkvInv'
    BY <1>1, <2>1, <2>4 DEF MkvInv, frames, disk, opened
  <2> QED BY <1>2, <2>1, <2>4, <2>5
<1>6. CASE IterMkvEnd
  <2>1. GoTo("main", "done") /\ UNCHANGED <<disk, opened, todo, frames, reader, decoder, gets>>
    BY <1>6 DEF IterMkvEnd
  <2>2. DOMAIN pc' = Threads /\ pc'["main"] = "done" /\ pc'["ahead"] = "dead"
    BY <1>1, <2>1, Moved DEF Threads
  <2>3. MkvInv'
    BY <1>1, <2>1, <2>2 DEF MkvInv, frames, disk, opened, reader
  <2> QED BY <1>2, <2>1, <2>2, <2>3
<1>7. CASE Close
  <2>1. pc["main"] = "ready" /\ GoTo("main", "notify") /\ UNCHANGED <<disk, opened, todo, frames, last, from, got, raised, decoder, gets>>
    BY <1>7 DEF Close
  <2>2. DOMAIN pc' = Threads /\ pc'["main"] = "notify" /\ pc'["ahead"] = "dead"
    BY <1>1, <2>1, Moved DEF Threads
  <2>3. MkvInv'
    BY <1>1, <2>1, <2>2 DEF MkvInv, frames, disk, opened
  <2> QED BY <1>2, <2>1, <2>2, <2>3
<1>8. CASE CloseNotify
  <2>1. pc["main"] = "notify" /\ pc' = [Notified EXCEPT !["main"] = "join"] /\ UNCHANGED <<disk, opened, todo, frames, reader, decoder, gets>>
    BY <1>8 DEF CloseNotify
  <2>2. DOMAIN pc' = Threads /\ pc'["main"] = "join" /\ pc'["ahead"] = "dead"
    BY <1>1, <2>1, NotifiedFacts DEF Threads
  <2>3. MkvInv'
    BY <1>1, <2>1, <2>2 DEF MkvInv, frames, disk, opened, reader
  <2> QED BY <1>2, <2>1, <2>2, <2>3
<1>9. CASE Join
  <2>1. GoTo("main", "done") /\ UNCHANGED <<disk, opened, todo, frames, reader, decoder, gets>>
    BY <1>9 DEF Join
  <2>2. DOMAIN pc' = Threads /\ pc'["main"] = "done" /\ pc'["ahead"] = "dead"
    BY <1>1, <2>1, Moved DEF Threads
  <2>3. MkvInv'
    BY <1>1, <2>1, <2>2 DEF MkvInv, frames, disk, opened, reader
  <2> QED BY <1>2, <2>1, <2>2, <2>3
<1>10. CASE Restart
  BY <1>10, ReaderRestarts
<1>11. ~ (IndexStep \/ Open \/ IterStep \/ FeedFrames)
  BY <1>1 DEF IndexStep, Open, MakeIndex, OpenRaw, IndexFile, IndexRoute, WriteIndex, LoadIndex,
              IterStep, IterWrite, IterEos, IterRead, IterEnd, FeedFrames
<1>12. ~ (ReaderStep("main") \/ AheadStep \/ Return)
  BY <1>1 DEF AheadStep, ReaderStep, LookIn, Take, Lock, Fetch, Return, AheadWait, AheadWoken
<1> QED BY <1>3, <1>4, <1>5, <1>6, <1>7, <1>8, <1>9, <1>10, <1>11, <1>12 DEF ReaderNext, Step, MainStep, MkvStep

\* The entry that is loaded has a picture for each of the file.
LEMMA LoadedFacts ==
    ASSUME IndexInv, EntryRight(route, seg, entry), route.typ \in {"hevc", "h264", "mp4"}
    PROVE  /\ Encoded(File) /\ Tabled(entry, File) /\ Pics = Pictures(File) /\ Frames = Len(Pictures(File))
           /\ Frames \in Nat \ {0} /\ FrameCount(entry) = Frames /\ Count = Frames
           /\ (route.typ = "mp4" <=> Len(entry.index) = Frames)
           /\ Len(entry.index) \in {Frames, Frames + 1}
           /\ \A k \in 1 .. Frames : Pics[k].frame \in Nat
<1>1. route \in Routes /\ seg \in Segs
  BY DEF IndexInv
<1>2. Encoded(File) /\ Frames \in Nat \ {0} /\ \A k \in 1 .. Frames : Pics[k].frame \in Nat
  BY <1>1, PicsFacts DEF File
<1>3. Tabled(entry, File) /\ (route.typ = "mp4" <=> Len(entry.index) = Len(Pictures(File)))
  BY DEF EntryRight, File
<1>4. FrameCount(entry) = Len(Pictures(File))
  BY <1>2, <1>3, CountIs
<1>5. Len(entry.index) \in {Len(Pictures(File)), Len(Pictures(File)) + 1}
  BY <1>3 DEF Tabled
<1> QED BY <1>2, <1>3, <1>4, <1>5 DEF Count, Frames, Pics, File

\* What is put out for the next group of pictures is what is to be yielded next.
LEMMA NextYields ==
    ASSUME IndexInv, EntryRight(route, seg, entry), IterInv, written < Frames,
           NEW gop, gop = LookupGop(entry.index, written + 1), NEW k \in 1 .. gop.e - gop.b
    PROVE  /\ Yielded(written + k) = Pics[gop.b + k - 1].frame
<1>1. /\ route.typ \in {"hevc", "h264", "mp4"} /\ written \in Nat
      /\ \/ written = 0 \/ Pics[written + 1].slice = SLICE_I
         \/ route.typ = "mp4" /\ written = Frames - 1
  BY DEF IterInv
<1>2. /\ Encoded(File) /\ Tabled(entry, File) /\ Pics = Pictures(File) /\ Frames = Len(Pictures(File))
      /\ Frames \in Nat \ {0} /\ (route.typ = "mp4" <=> Len(entry.index) = Frames)
      /\ Len(entry.index) \in {Frames, Frames + 1}
  BY <1>1, LoadedFacts
<1>3. PICK num \in 1 .. Len(Pictures(File)) : num = written + 1
  BY <1>1, <1>2
<1>4. /\ gop.b \in 1 .. num /\ gop.e \in num + 1 .. Frames + 1
      /\ (\A c \in gop.b + 1 .. num : Pics[c].slice # SLICE_I)
  BY <1>2, <1>3, GroupPlaces
<1>5. CASE route.typ = "mp4" /\ num = Frames
  <2>0. PICK i : i = written + k
    OBVIOUS
  <2>1. i >= Frames /\ i - Frames = k - 1
    BY <1>1, <1>2, <1>3, <1>4, <1>5, <2>0
  <2>2. LookupGop(entry.index, Frames).b = gop.b
    BY <1>3, <1>5
  <2>3. Yielded(i) = Pics[gop.b + (k - 1)].frame
    BY <1>5, <2>1, <2>2 DEF Yielded
  <2> QED BY <2>0, <2>3
<1>6. CASE ~ (route.typ = "mp4" /\ num = Frames)
  <2>1. gop.b = num
    <3>1. CASE written = 0
      BY <1>3, <1>4, <3>1
    <3>2. CASE Pics[num].slice = SLICE_I
      BY <1>3, <1>4, <3>2
    <3> QED BY <1>1, <1>2, <1>3, <1>6, <3>1, <3>2
  <2>2. route.typ = "mp4" => written + k < Frames
    <3>1. SUFFICES ASSUME route.typ = "mp4" PROVE written + k < Frames
      OBVIOUS
    <3>2. Len(entry.index) = Frames /\ num < Len(entry.index) /\ num \in 1 .. Len(entry.index) /\ Len(entry.index) \in Nat
      BY <1>2, <1>3, <1>6, <3>1
    <3>3. gop.e \in num + 1 .. (IF num < Len(entry.index) THEN Len(entry.index) ELSE num + 1)
      BY <1>3, <3>2, LookupFacts
    <3> QED BY <1>1, <1>3, <2>1, <3>2, <3>3
  <2>3. gop.b + k - 1 = written + k
    BY <1>1, <1>3, <2>1
  <2>4. ~ (route.typ = "mp4" /\ written + k >= Frames)
    BY <1>1, <1>2, <1>4, <2>2
  <2> QED BY <2>3, <2>4 DEF Yielded
<1> QED BY <1>5, <1>6

\* After a group of pictures the next begins with an I picture, or it is the last of an MP4 file.
LEMMA NextBegins ==
    ASSUME IndexInv, EntryRight(route, seg, entry), IterInv, written < Frames,
           NEW gop, gop = LookupGop(entry.index, written + 1), NEW past, past = written + (gop.e - gop.b)
    PROVE  /\ past \in Nat \ {0}
           /\ past < Frames => \/ Pics[past + 1].slice = SLICE_I
                               \/ route.typ = "mp4" /\ past = Frames - 1
<1>1. /\ route.typ \in {"hevc", "h264", "mp4"} /\ written \in Nat
      /\ \/ written = 0 \/ Pics[written + 1].slice = SLICE_I
         \/ route.typ = "mp4" /\ written = Frames - 1
  BY DEF IterInv
<1>2. /\ Encoded(File) /\ Tabled(entry, File) /\ Pics = Pictures(File) /\ Frames = Len(Pictures(File))
      /\ Frames \in Nat \ {0} /\ (route.typ = "mp4" <=> Len(entry.index) = Frames)
  BY <1>1, LoadedFacts
<1>3. PICK num \in 1 .. Len(Pictures(File)) : num = written + 1
  BY <1>1, <1>2
<1>4. /\ gop.b \in 1 .. num /\ gop.e \in num + 1 .. Frames + 1
      /\ (\A c \in gop.b + 1 .. num : Pics[c].slice # SLICE_I)
      /\ (gop.e <= Frames => \/ Pics[gop.e].slice = SLICE_I
                             \/ gop.e = Frames /\ Len(entry.index) = Frames)
  BY <1>2, <1>3, GroupPlaces, SMTT(40)
<1>5. past \in Nat \ {0}
  BY <1>1, <1>3, <1>4
<1>6. ASSUME past < Frames
      PROVE  Pics[past + 1].slice = SLICE_I \/ (route.typ = "mp4" /\ past = Frames - 1)
  <2>1. num < Frames
    BY <1>1, <1>2, <1>3, <1>4, <1>6
  <2>2. gop.b = num
    <3>1. CASE written = 0
      BY <1>3, <1>4, <3>1
    <3>2. CASE Pics[num].slice = SLICE_I
      BY <1>3, <1>4, <3>2
    <3> QED BY <1>1, <1>2, <1>3, <2>1, <3>1, <3>2
  <2>3. PICK e : e = gop.e
    OBVIOUS
  <2>4. e = past + 1 /\ e <= Frames /\ e \in Nat
    <3>1. e \in Nat /\ num \in Nat /\ e = gop.e /\ num = gop.b
      BY <1>2, <1>3, <1>4, <2>2, <2>3
    <3>2. past = written + (e - num)
      BY <3>1, <1>1
    <3>3. past = e - 1
      BY <1>1, <1>3, <3>1, <3>2
    <3> QED BY <1>2, <1>5, <1>6, <3>1, <3>3
  <2>5. Pics[e].slice = SLICE_I \/ (e = Frames /\ Len(entry.index) = Frames)
    BY <1>4, <2>3, <2>4
  <2>6. CASE e = Frames /\ Len(entry.index) = Frames
    <3>1. past = Frames - 1
      BY <1>2, <1>5, <2>4, <2>6
    <3> QED BY <1>2, <2>6, <3>1
  <2> QED BY <2>4, <2>5, <2>6
<1> QED BY <1>5, <1>6

\* A step of an iteration leaves what is read alone.
LEMMA IterKept ==
    ASSUME IndexInv, EntryRight(route, seg, entry), IterInv', UNCHANGED <<disk, opened>>, DOMAIN pc' = Threads
    PROVE  ReaderInv'
<1>1. UNCHANGED <<route, cache, seg, entry>> /\ pc'["main"] \notin {"route", "write"}
  BY DEF disk, opened, IterInv
<1>2. seg \in Segs
  BY DEF IndexInv
<1>3. IndexInv'
  BY <1>1, <1>2, IndexKept DEF Segs
<1> QED BY <1>1, <1>3 DEF ReaderInv

\* A group of pictures is written: what comes out of the decoder is what is to be yielded.
LEMMA IterWrites ==
    ASSUME IndexInv, EntryRight(route, seg, entry), IterInv, IterWrite
    PROVE  ReaderInv'
<1>1. /\ DOMAIN pc = Threads /\ pc["main"] = "iterate" /\ pc["ahead"] = "dead"
      /\ route.typ \in {"hevc", "h264", "mp4"} /\ use = "iterate"
      /\ fed \in Seq(Nals) /\ written \in Nat /\ read \in Nat /\ got \in Seq(Nat)
      /\ work \in Seq(Nat \X (Nat \ {0})) /\ (\A i \in 2 .. Len(work) : work[i][1] = 0)
      /\ (written = 0 => fed = <<>> /\ work = <<>> /\ read = 0 /\ got = <<>>)
      /\ (\A i \in 1 .. Len(got) : got[i] = Yielded(i))
  BY DEF IndexInv, IterInv, IterWrite
<1>2. /\ Encoded(File) /\ Tabled(entry, File) /\ Pics = Pictures(File) /\ Frames = Len(Pictures(File))
      /\ Frames \in Nat \ {0} /\ FrameCount(entry) = Frames
  BY <1>1, LoadedFacts
<1>3. written < Frames
  BY <1>2 DEF IterWrite
<1>4. PICK num \in 1 .. Len(Pictures(File)) : num = written + 1
  BY <1>1, <1>2, <1>3
<1>5. PICK gop : gop = GetGop(File, entry, num)
  OBVIOUS
<1>6. PICK place : place = LookupGop(entry.index, num)
  OBVIOUS
<1>7. gop.frame_b = place.b /\ gop.num_frames = place.e - place.b
  <2>1. gop.frame_b = place.b
    <3>1. gop.frame_b = LookupGop(entry.index, num).b
      BY <1>2, <1>5, <1>1, GroupRight
    <3> QED BY <1>6, <3>1
  <2>2. gop.num_frames = place.e - place.b
    BY <1>2, <1>5, <1>6, <1>1, GroupRight
  <2> QED BY <2>1, <2>2
<1>8. gop.skip_frames \in Nat /\ (gop.skip_frames # 0 => Pictures(File)[1].slice # SLICE_I /\ gop.frame_b = 1)
  BY <1>2, <1>5, <1>1, GroupRight
<1>9. ~ Unreadable(num)
  BY <1>2, <1>5, <1>1, GroupRight DEF Unreadable
<1>10. gop.rawdat \in Seq(Nals)
  BY <1>2, <1>5, <1>1, GroupRight
<1>11. Len(Decode(fed \o gop.rawdat)) = Len(Decode(fed)) + gop.skip_frames + gop.num_frames
  BY <1>2, <1>5, <1>1, GroupRight, SMTT(40)
<1>12. \A k \in 1 .. Len(Decode(fed)) : Decode(fed \o gop.rawdat)[k] = Decode(fed)[k]
  BY <1>2, <1>5, <1>1, GroupRight
<1>13. ComesOut(fed \o gop.rawdat, Len(Decode(fed)) + gop.skip_frames, Pics, place.b, gop.num_frames)
  BY <1>2, <1>5, <1>7, <1>1, GroupRight
<1>14. /\ fed' = fed \o gop.rawdat /\ work' = Append(work, <<gop.skip_frames, gop.num_frames>>)
       /\ written' = written + gop.num_frames /\ UNCHANGED <<pc, raised>>
       /\ UNCHANGED <<disk, opened, todo, frames, open, last, from, got, ended, read, gets>>
  BY <1>4, <1>5, <1>9 DEF IterWrite
<1>15. /\ place.b \in 1 .. num /\ place.e \in num + 1 .. Frames + 1
  BY <1>2, <1>4, <1>6, GroupPlaces
<1>16. PICK n : n = gop.num_frames
  OBVIOUS
<1>17. n \in Nat \ {0} /\ n = place.e - place.b /\ num \in Nat
  BY <1>2, <1>4, <1>7, <1>15, <1>16
<1>18. PICK before \in Nat : Behind(before)
  BY DEF IterInv
<1>19. PICK skip : skip = before + gop.skip_frames
  OBVIOUS
<1>20. Len(Decode(fed)) = before + written /\ (written = 0 => before = 0)
  <2>1. Len(Decode(fed)) = before + written
    BY <1>18 DEF Behind
  <2>2. CASE written = 0
    <3>1. Len(Decode(fed)) = 0
      BY <1>1, <2>2, NoPictures
    <3> QED BY <2>1, <2>2, <3>1
  <2> QED BY <2>1, <2>2
<1>21. gop.skip_frames # 0 => written = 0
  <2>1. SUFFICES ASSUME gop.skip_frames # 0, written # 0 PROVE FALSE
    OBVIOUS
  <2>2. Pictures(File)[1].slice # SLICE_I /\ place.b = 1
    BY <1>7, <1>8, <2>1
  <2>3. Len(entry.index) # Len(Pictures(File))
    BY <1>2, <2>2 DEF Tabled, Starts
  <2>4. route.typ # "mp4"
    BY <1>1, <1>2, <2>3, LoadedFacts
  <2>5. Pics[num].slice = SLICE_I
    BY <1>3, <1>4, <2>1, <2>4 DEF IterInv
  <2>6. \A c \in place.b + 1 .. num : Pics[c].slice # SLICE_I
    BY <1>2, <1>4, <1>6, GroupPlaces
  <2>7. num \in place.b + 1 .. num
    BY <1>1, <1>4, <1>17, <2>1, <2>2
  <2> QED BY <2>5, <2>6, <2>7
<1>22. skip \in Nat /\ (written # 0 => skip = before) /\ Len(Decode(fed)) + gop.skip_frames = skip + written
  <2>1. skip \in Nat /\ (written # 0 => skip = before)
    BY <1>8, <1>18, <1>19, <1>21
  <2>2. PICK g \in Nat, len \in {Len(Decode(fed))} : g = gop.skip_frames /\ len = Len(Decode(fed))
    BY <1>8
  <2>3. len = before + written /\ skip = before + g
    BY <1>19, <1>20, <2>2
  <2>4. len + g = skip + written
    BY <1>1, <1>18, <2>2, <2>3
  <2> QED BY <2>1, <2>2, <2>4
<1>23. UNCHANGED <<route, seg, entry, use, lru, Pics, Frames>>
  BY <1>14 DEF disk, opened, frames, Pics, Frames
<1>24. \A i : Yielded(i)' = Yielded(i)
  BY <1>23 DEF Yielded
<1>25. \A i \in 1 .. written' : Decode(fed')[skip + i] = Yielded(i)'
  <2>1. SUFFICES ASSUME NEW i \in 1 .. written + n PROVE Decode(fed')[skip + i] = Yielded(i)
    BY <1>14, <1>16, <1>24
  <2>2. CASE i <= written
    <3>1. i \in 1 .. written /\ skip = before
      BY <1>1, <1>17, <1>22, <2>2
    <3>2. Decode(fed)[before + i] = Yielded(i)
      BY <1>18, <3>1 DEF Behind
    <3>3. before + i \in 1 .. Len(Decode(fed))
      BY <1>1, <1>18, <1>20, <3>1
    <3> QED BY <1>12, <1>14, <3>1, <3>2, <3>3
  <2>3. CASE written < i
    <3>1. PICK k \in 1 .. n : i = written + k
      <4>1. i - written \in 1 .. n /\ i = written + (i - written)
        BY <1>1, <1>17, <2>3
      <4> QED BY <4>1
    <3>2. Yielded(i) = Pics[place.b + k - 1].frame
      BY <1>3, <1>4, <1>6, <1>17, <3>1, NextYields
    <3>3. Decode(fed')[(Len(Decode(fed)) + gop.skip_frames) + k] = Pics[place.b + k - 1].frame
      BY <1>13, <1>14, <1>16, <3>1 DEF ComesOut
    <3>4. (Len(Decode(fed)) + gop.skip_frames) + k = skip + i
      BY <1>1, <1>17, <1>22, <3>1
    <3> QED BY <3>2, <3>3, <3>4
  <2> QED BY <1>1, <1>17, <2>2, <2>3
<1>26. work' \in Seq(Nat \X (Nat \ {0})) /\ Len(work') = Len(work) + 1
       /\ (\A i \in 1 .. Len(work) : work'[i] = work[i]) /\ work'[Len(work) + 1] = <<gop.skip_frames, n>>
  BY <1>1, <1>8, <1>14, <1>16, <1>17
<1>27. \A i \in 2 .. Len(work') : work'[i][1] = 0
  <2>1. SUFFICES ASSUME NEW i \in 2 .. Len(work') PROVE work'[i][1] = 0
    OBVIOUS
  <2>2. CASE i <= Len(work)
    <3>1. work'[i] = work[i] /\ work[i][1] = 0
      BY <1>1, <1>26, <2>2
    <3> QED BY <3>1
  <2>3. CASE i = Len(work) + 1
    <3>1. written # 0
      BY <1>1, <1>26, <2>3
    <3> QED BY <1>21, <1>26, <2>3, <3>1
  <2> QED BY <1>1, <1>26, <2>2, <2>3
<1>28. IF work' # <<>> /\ work'[1][1] > 0 THEN got' = <<>> /\ read' + work'[1][1] = skip
       ELSE read' = skip + Len(got')
  <2>1. UNCHANGED <<got, read>> /\ work' # <<>>
    <3>1. Len(work) \in Nat /\ Len(work') = Len(work) + 1
      BY <1>1, <1>26
    <3>2. work' # <<>>
      BY <3>1
    <3> QED BY <1>14, <3>2
  <2>2. CASE work = <<>>
    <3>1. work'[1][1] = gop.skip_frames
      BY <1>26, <2>2
    <3>2. CASE written = 0
      <4>1. got = <<>> /\ read = 0 /\ skip = gop.skip_frames
        BY <1>1, <1>8, <1>18, <1>19, <1>20, <3>2
      <4> QED BY <1>8, <2>1, <3>1, <4>1
    <3>3. CASE written # 0
      <4>1. gop.skip_frames = 0 /\ skip = before
        BY <1>21, <1>22, <3>3
      <4>2. read = before + Len(got)
        BY <1>18, <2>2 DEF Behind
      <4> QED BY <2>1, <3>1, <4>1, <4>2
    <3> QED BY <3>2, <3>3
  <2>3. CASE work # <<>>
    <3>1. work'[1] = work[1] /\ written # 0 /\ skip = before
      BY <1>1, <1>22, <1>26, <2>3
    <3> QED BY <1>18, <2>1, <2>3, <3>1 DEF Behind
  <2> QED BY <2>2, <2>3
<1>29. Len(Decode(fed')) = skip + written'
  <2>1. Len(Decode(fed')) = (Len(Decode(fed)) + gop.skip_frames) + n
    BY <1>11, <1>14, <1>16
  <2> QED BY <1>1, <1>14, <1>16, <1>17, <1>22, <2>1
<1>30. Behind(skip)'
  BY <1>25, <1>28, <1>29 DEF Behind
<1>31. /\ written' \in Nat \ {0}
       /\ written' < Frames => \/ Pics[written' + 1].slice = SLICE_I
                               \/ route.typ = "mp4" /\ written' = Frames - 1
  BY <1>3, <1>4, <1>6, <1>14, <1>16, <1>17, NextBegins
<1>32. fed' \in Seq(Nals)
  BY <1>1, <1>10, <1>14
<1>33. \A i \in 1 .. Len(got') : got'[i] = Yielded(i)'
  BY <1>1, <1>14, <1>24
<1>34. \E s \in Nat : Behind(s)'
  BY <1>22, <1>30
<1>35. IterInv'
  BY <1>1, <1>14, <1>23, <1>26, <1>27, <1>31, <1>32, <1>33, <1>34 DEF IterInv
<1>36. DOMAIN pc' = Threads
  BY <1>1, <1>14
<1> QED BY <1>14, <1>35, <1>36, IterKept

\* A frame is skipped or yielded, and skipping is over when the first is yielded.
LEMMA IterReads ==
    ASSUME IndexInv, EntryRight(route, seg, entry), IterInv, IterRead
    PROVE  ReaderInv'
<1>1. /\ DOMAIN pc = Threads /\ pc["main"] = "iterate" /\ pc["ahead"] = "dead"
      /\ route.typ \in {"hevc", "h264", "mp4"} /\ use = "iterate"
      /\ fed \in Seq(Nals) /\ written \in Nat /\ read \in Nat /\ got \in Seq(Nat)
      /\ work \in Seq(Nat \X (Nat \ {0})) /\ (\A i \in 2 .. Len(work) : work[i][1] = 0)
      /\ (written = 0 => work = <<>>) /\ work # <<>> /\ read < Len(Decoded)
      /\ (\A i \in 1 .. Len(got) : got[i] = Yielded(i))
  BY DEF IndexInv, IterInv, IterRead
<1>2. Decode(fed) \in Seq(Nat)
  BY <1>1, DecodeFacts
<1>3. read + 1 \in 1 .. Len(Decode(fed)) /\ Decoded[read + 1] = Decode(fed)[read + 1]
  <2>1. PICK all : all = Decode(fed)
    OBVIOUS
  <2>2. PICK decoded : decoded = Decoded
    OBVIOUS
  <2>3. all \in Seq(Nat) /\ decoded = (IF ended THEN all ELSE SubSeq(all, 1, Len(all) - Delay)) 
    BY <1>2, <2>1, <2>2 DEF Decoded
  <2>6. PICK r \in Nat : r = read /\ r < Len(decoded)
    BY <1>1, <2>2
  <2>4. CASE ended
    <3>1. decoded = all
      BY <2>3, <2>4
    <3>2. Len(all) \in Nat
      BY <2>3
    <3>3. r + 1 \in 1 .. Len(all)
      BY <2>6, <3>1, <3>2
    <3> QED BY <2>1, <2>2, <2>6, <3>1, <3>3
  <2>5. CASE ~ ended
    <3>1. PICK m : m = Len(all) - Delay
      OBVIOUS
    <3>2. m \in Int /\ m <= Len(all) /\ decoded = SubSeq(all, 1, m)
      BY <2>3, <2>5, <3>1, FrameReaderAssumption
    <3>3. CASE m < 1
      <4>1. SubSeq(all, 1, m) = <<>>
        BY <2>3, <3>2, <3>3, SubSeqEmpty
      <4>2. Len(decoded) = 0
        BY <3>2, <4>1
      <4> QED BY <2>6, <4>2
    <3>4. CASE m >= 1
      <4>1. \A i \in 1 .. m : all[i] \in Nat
        BY <2>3, <3>2
      <4>2. Len(SubSeq(all, 1, m)) = IF 1 <= m THEN m - 1 + 1 ELSE 0
        BY <3>2, <4>1, SubSeqProperties
      <4>3. \A i \in 1 .. m - 1 + 1 : SubSeq(all, 1, m)[i] = all[1 + i - 1]
        BY <3>2, <4>1, SubSeqProperties
      <4>4. Len(decoded) = m /\ \A i \in 1 .. m : decoded[i] = all[i]
        <5>1. m - 1 + 1 = m /\ \A i \in 1 .. m : 1 + i - 1 = i
          BY <3>2
        <5> QED BY <3>2, <3>4, <4>2, <4>3, <5>1
      <4>5. r + 1 \in 1 .. m
        BY <2>6, <3>2, <4>4
      <4>6. Len(all) \in Nat /\ r + 1 \in 1 .. Len(all)
        BY <2>3, <3>2, <4>5
      <4> QED BY <2>1, <2>2, <2>6, <4>4, <4>5, <4>6
    <3> QED BY <3>2, <3>3, <3>4
  <2> QED BY <2>4, <2>5
<1>4. PICK g : g = Head(work)
  OBVIOUS
<1>5. g = work[1] /\ g \in Nat \X (Nat \ {0}) /\ g[1] \in Nat /\ g[2] \in Nat \ {0}
  BY <1>1, <1>4
<1>6. /\ read' = read + 1
      /\ IF g[1] > 0
         THEN work' = [work EXCEPT ![1] = <<g[1] - 1, g[2]>>] /\ UNCHANGED got
         ELSE /\ got' = Append(got, Decoded[read + 1])
              /\ work' = (IF g[2] = 1 THEN Tail(work) ELSE [work EXCEPT ![1] = <<0, g[2] - 1>>])
      /\ UNCHANGED <<disk, opened, pc, todo, frames, open, last, from, raised, fed, ended, written, gets>>
  BY <1>4 DEF IterRead
<1>7. UNCHANGED <<route, seg, entry, use, lru, Pics, Frames>>
  BY <1>6 DEF disk, opened, frames, Pics, Frames
<1>8. \A i : Yielded(i)' = Yielded(i)
  BY <1>7 DEF Yielded
<1>9. PICK skip \in Nat : Behind(skip)
  BY DEF IterInv
<1>10. Len(Decode(fed)) = skip + written /\ (\A i \in 1 .. written : Decode(fed)[skip + i] = Yielded(i))
  BY <1>9 DEF Behind
<1>11. ASSUME got' \in Seq(Nat), \A i \in 1 .. Len(got') : got'[i] = Yielded(i), read' \in Nat,
              work' \in Seq(Nat \X (Nat \ {0})), \A i \in 2 .. Len(work') : work'[i][1] = 0,
              IF work' # <<>> /\ work'[1][1] > 0 THEN got' = <<>> /\ read' + work'[1][1] = skip
              ELSE read' = skip + Len(got')
       PROVE  ReaderInv'
  <2>1. UNCHANGED <<fed, written>>
    BY <1>6
  <2>2. \A i \in 1 .. written' : Decode(fed')[skip + i] = Yielded(i)'
    BY <1>8, <1>10, <2>1
  <2>3. Behind(skip)'
    BY <1>10, <1>11, <2>1, <2>2 DEF Behind
  <2>4. \E s \in Nat : Behind(s)'
    BY <2>3
  <2>5. \A i \in 1 .. Len(got') : got'[i] = Yielded(i)'
    BY <1>8, <1>11
  <2>6. written' # 0
    BY <1>1, <2>1
  <2>7. written < Frames => \/ written = 0 \/ Pics[written + 1].slice = SLICE_I
                            \/ route.typ = "mp4" /\ written = Frames - 1
    BY DEF IterInv
  <2>10. written' < Frames' => \/ written' = 0 \/ Pics'[written' + 1].slice = SLICE_I \/ (route.typ' = "mp4" /\ written' = Frames' - 1)
    BY <1>7, <2>1, <2>7
  <2>8. IterInv'
    BY <1>1, <1>6, <1>7, <1>11, <2>1, <2>4, <2>5, <2>6, <2>10 DEF IterInv
  <2>9. DOMAIN pc' = Threads /\ UNCHANGED <<disk, opened>>
    BY <1>1, <1>6
  <2> QED BY <2>8, <2>9, IterKept
<1>12. CASE g[1] > 0
  <2>1. work' = [work EXCEPT ![1] = <<g[1] - 1, g[2]>>] /\ UNCHANGED got /\ read' = read + 1
    BY <1>6, <1>12
  <2>2. <<g[1] - 1, g[2]>> \in Nat \X (Nat \ {0})
    BY <1>5, <1>12
  <2>3. work' \in Seq(Nat \X (Nat \ {0})) /\ Len(work') = Len(work) /\ \A i \in 2 .. Len(work) : work'[i] = work[i]
    BY <1>1, <2>1, <2>2
  <2>4. work'[1] = <<g[1] - 1, g[2]>> /\ work'[1][1] = g[1] - 1
    BY <1>1, <2>1
  <2>5. \A i \in 2 .. Len(work') : work'[i][1] = 0
    BY <1>1, <2>3
  <2>6. got = <<>> /\ read + g[1] = skip
    BY <1>1, <1>5, <1>9, <1>12 DEF Behind
  <2>7. IF work' # <<>> /\ work'[1][1] > 0 THEN got' = <<>> /\ read' + work'[1][1] = skip
        ELSE read' = skip + Len(got')
    <3>1. work' # <<>>
      BY <1>1, <2>3
    <3>2. read' + (g[1] - 1) = skip
      BY <1>1, <1>5, <2>1, <2>6
    <3>3. got' = <<>> /\ Len(got') = 0
      BY <2>1, <2>6
    <3>4. PICK d : d = work'[1][1]
      OBVIOUS
    <3>5. d = g[1] - 1 /\ d \in Nat /\ read' + d = skip /\ read' \in Nat
      BY <1>1, <1>5, <1>12, <2>1, <2>4, <3>2, <3>4
    <3>6. ~ (d > 0) => read' = skip + 0
      BY <1>9, <3>5
    <3> QED BY <3>1, <3>3, <3>4, <3>5, <3>6
  <2>8. got' \in Seq(Nat) /\ (\A i \in 1 .. Len(got') : got'[i] = Yielded(i)) /\ read' \in Nat
    BY <1>1, <2>1
  <2> QED BY <1>11, <2>3, <2>5, <2>7, <2>8
<1>13. CASE ~ (g[1] > 0)
  <2>1. g[1] = 0
    BY <1>5, <1>13
  <2>2. /\ got' = Append(got, Decode(fed)[read + 1]) /\ read' = read + 1
        /\ work' = (IF g[2] = 1 THEN Tail(work) ELSE [work EXCEPT ![1] = <<0, g[2] - 1>>])
    BY <1>3, <1>6, <1>13
  <2>3. read = skip + Len(got)
    BY <1>1, <1>5, <1>9, <2>1 DEF Behind
  <2>4. PICK n : n = Len(got) + 1
    OBVIOUS
  <2>5. n \in 1 .. written /\ read + 1 = skip + n
    BY <1>1, <1>3, <1>9, <1>10, <2>3, <2>4
  <2>6. Decode(fed)[read + 1] = Yielded(n) /\ Decode(fed)[read + 1] \in Nat
    BY <1>2, <1>3, <1>10, <2>5
  <2>7. got' \in Seq(Nat) /\ Len(got') = n /\ got'[n] = Yielded(n)
        /\ (\A i \in 1 .. Len(got) : got'[i] = got[i])
    <3>1. PICK f \in Nat : f = Yielded(n) /\ got' = Append(got, f)
      BY <2>2, <2>6
    <3> QED BY <1>1, <2>4, <3>1
  <2>8. \A i \in 1 .. Len(got') : got'[i] = Yielded(i)
    <3>1. SUFFICES ASSUME NEW i \in 1 .. n PROVE got'[i] = Yielded(i)
      BY <2>7
    <3>2. CASE i = n
      BY <2>7, <3>2
    <3>3. CASE i \in 1 .. Len(got)
      BY <1>1, <2>7, <3>3
    <3> QED BY <1>1, <2>4, <3>2, <3>3
  <2>9. work' \in Seq(Nat \X (Nat \ {0})) /\ \A i \in 1 .. Len(work') : work'[i][1] = 0
    <3>1. CASE g[2] = 1
      <4>1. work' = Tail(work)
        BY <2>2, <3>1
      <4> QED BY <1>1, <4>1, SMTT(40)
    <3>2. CASE g[2] # 1
      <4>1. work' = [work EXCEPT ![1] = <<0, g[2] - 1>>]
        BY <2>2, <3>2
      <4>2. <<0, g[2] - 1>> \in Nat \X (Nat \ {0})
        BY <1>5, <3>2
      <4>3. work' \in Seq(Nat \X (Nat \ {0})) /\ Len(work') = Len(work) /\ \A i \in 2 .. Len(work) : work'[i] = work[i]
        BY <1>1, <4>1, <4>2
      <4>4. work'[1] = <<0, g[2] - 1>> /\ work'[1][1] = 0
        BY <1>1, <4>1
      <4>5. \A i \in 2 .. Len(work') : work'[i][1] = 0
        BY <1>1, <4>3
      <4> QED BY <4>3, <4>4, <4>5
    <3> QED BY <3>1, <3>2
  <2>10. read' = skip + Len(got') /\ read' \in Nat
    BY <1>1, <2>2, <2>5, <2>7
  <2>11. ~ (work' # <<>> /\ work'[1][1] > 0)
    BY <2>9
  <2> QED BY <1>11, <2>7, <2>8, <2>9, <2>10, <2>11
<1> QED BY <1>12, <1>13

\* The invariant is kept by an iteration.
LEMMA IterSteps ==
    ASSUME IndexInv, EntryRight(route, seg, entry), IterInv, ReaderNext
    PROVE  ReaderInv'
<1>1. /\ DOMAIN pc = Threads /\ pc["main"] \in {"iterate", "done"} /\ pc["ahead"] = "dead"
      /\ route.typ # "mkv"
  BY DEF IndexInv, IterInv
<1>2. ASSUME UNCHANGED <<disk, opened, todo, frames, reader, fed, work, read, written>>,
             pc'["main"] \in {"iterate", "done"}, pc'["ahead"] = "dead", DOMAIN pc' = Threads
      PROVE  ReaderInv'
  <2>1. UNCHANGED <<route, seg, entry, use, lru, Pics, Frames, from, got, raised>>
    BY <1>2 DEF disk, opened, frames, reader, Pics, Frames
  <2>2. \A i : Yielded(i)' = Yielded(i)
    BY <2>1 DEF Yielded
  <2>3. \A s : Behind(s)' <=> Behind(s)
    BY <1>2, <2>1, <2>2 DEF Behind
  <2>4. IterInv'
    BY <1>2, <2>1, <2>2, <2>3 DEF IterInv
  <2> QED BY <1>2, <2>4, IterKept
<1>3. CASE IterEos
  BY <1>1, <1>2, <1>3 DEF IterEos
<1>4. CASE IterEnd
  <2>1. GoTo("main", "done") /\ UNCHANGED <<disk, opened, todo, frames, reader, decoder, gets>>
    BY <1>4 DEF IterEnd
  <2>2. DOMAIN pc' = Threads /\ pc'["main"] = "done" /\ pc'["ahead"] = "dead"
    BY <1>1, <2>1, Moved DEF Threads
  <2>3. UNCHANGED <<fed, work, read, written>>
    BY <2>1 DEF decoder
  <2> QED BY <1>2, <2>1, <2>2, <2>3
<1>5. CASE Restart
  BY <1>5, ReaderRestarts
<1>6. ~ (IndexStep \/ Open \/ FeedFrames \/ MkvStep)
  BY <1>1 DEF IndexStep, Open, MakeIndex, OpenRaw, IndexFile, IndexRoute, WriteIndex, LoadIndex,
              FeedFrames, MkvStep, GetMkv, IterMkv, IterMkvEnd
<1>7. ~ (MainStep \/ AheadStep \/ GetFrames)
  BY <1>1 DEF MainStep, AheadStep, ReaderStep, LookIn, Take, Lock, Fetch, Return, Close, CloseNotify, Join, AheadWait, AheadWoken, GetFrames
<1> QED BY <1>3, <1>4, <1>5, <1>6, <1>7, IterWrites, IterReads DEF ReaderNext, Step, IterStep

\* What is used moves to the end of the cache, which keeps to its size.
LEMMA Touched ==
    ASSUME NEW cached \in Seq(Held), Len(cached) <= CacheSize, NEW e \in Held
    PROVE  Touch(cached, e) \in Seq(Held) /\ Len(Touch(cached, e)) <= CacheSize
<1> DEFINE places == {i \in DOMAIN cached : cached[i].num # e.num}
<1>1. places \in SUBSET (1 .. Len(cached))
  OBVIOUS
<1>2. PICK S \in SUBSET (1 .. Len(cached)) : S = places
  BY <1>1
<1>3. PICK kept : kept = Only(cached, S)
  OBVIOUS
<1>4. kept \in Seq(Held)
  BY <1>3, OnlyFacts
<1>5. Len(kept) <= Len(cached)
  <2>1. Len(kept) = Cardinality(S)
    BY <1>3, OnlyFacts
  <2>2. Cardinality(S) \in 0 .. Len(cached)
    BY OnlyFacts
  <2> QED BY <2>1, <2>2
<1>6. Touch(cached, e) = IF Len(Append(kept, e)) > CacheSize THEN Tail(Append(kept, e)) ELSE Append(kept, e)
  BY <1>2, <1>3 DEF Touch
<1>7. Append(kept, e) \in Seq(Held) /\ Len(Append(kept, e)) <= CacheSize + 1
  BY <1>4, <1>5, FrameReaderAssumption
<1> QED BY <1>6, <1>7, FrameReaderAssumption

\* A frame that is in the cache is the one of that number.
LEMMA HeldRight ==
    ASSUME lru \in Seq(Held), NEW num, Has(num)
    PROVE  num \in 1 .. Frames /\ Frame(num) = Pics[num].frame /\ [num |-> num, frame |-> Frame(num)] \in Held
<1>1. PICK e \in ToSet(lru) : e.num = num
  BY DEF Has, ToSet
<1>2. PICK f : f = CHOOSE d \in ToSet(lru) : d.num = num
  OBVIOUS
<1>3. f \in ToSet(lru) /\ f.num = num
  BY <1>1, <1>2
<1>4. f \in Held
  BY <1>3 DEF ToSet
<1>5. Frame(num) = f.frame
  BY <1>2 DEF Frame
<1> QED BY <1>3, <1>4, <1>5 DEF Held

\* A group of pictures that is put into the cache.
Filling(f, start, b, ret) ==
    f = [i \in 0 .. Len(ret) |->
           IF i = 0 THEN start ELSE Touch(f[i - 1], [num |-> b + i - 1, frame |-> ret[i]])]

\* The cache holds frames of the segment, no more than it may, after every one that is put.
LEMMA Filled ==
    ASSUME lru \in Seq(Held), Len(lru) <= CacheSize, Frames \in Nat,
           NEW b \in Nat \ {0}, NEW ret \in Seq(Nat), b + Len(ret) <= Frames + 1,
           \A k \in 1 .. Len(ret) : ret[k] = Pics[b + k - 1].frame,
           NEW filled, filled = CHOOSE f : Filling(f, lru, b, ret)
    PROVE  filled[Len(ret)] \in Seq(Held) /\ Len(filled[Len(ret)]) <= CacheSize
<1> DEFINE Good == {c \in Seq(Held) : Len(c) <= CacheSize}
<1>1. PICK n \in Nat : n = Len(ret)
  OBVIOUS
<1> DEFINE item(k) == [num |-> b + k - 1, frame |-> ret[k]]
<1>2. \A k \in 1 .. n : item(k) \in Held
  <2>1. SUFFICES ASSUME NEW k \in 1 .. n PROVE item(k) \in Held
    OBVIOUS
  <2>2. b + k - 1 \in 1 .. Frames /\ ret[k] \in Nat /\ ret[k] = Pics[b + k - 1].frame
    BY <1>1
  <2> QED BY <2>2 DEF Held
<1>3. \A k \in 1 .. n : \A c \in Good : Touch(c, item(k)) \in Good
  <2>1. SUFFICES ASSUME NEW k \in 1 .. n, NEW c \in Good PROVE Touch(c, item(k)) \in Good
    OBVIOUS
  <2>2. PICK e \in Held : e = item(k)
    BY <1>2
  <2>3. Touch(c, e) \in Seq(Held) /\ Len(Touch(c, e)) <= CacheSize
    BY Touched
  <2> QED BY <2>2, <2>3
<1>4. lru \in Good
  OBVIOUS
<1> HIDE DEF Good, item
<1>5. PICK A : \A k \in 0 .. n : A[k] = Good
  <2>1. \A k \in 0 .. n : [j \in 0 .. n |-> Good][k] = Good
    OBVIOUS
  <2> QED BY <2>1
<1>6. PICK step : \A k \in 1 .. n : \A c \in Good : step[k][c] = Touch(c, item(k))
  <2>1. \A k \in 1 .. n : \A c \in Good : [j \in 1 .. n |-> [d \in Good |-> Touch(d, item(j))]][k][c] = Touch(c, item(k))
    OBVIOUS
  <2> QED BY <2>1
<1>7. PICK lo \in Int : lo = 0
  OBVIOUS
<1>8. lo + 1 = 1 /\ lo <= n /\ n \in Int
  BY <1>7
<1>9. PICK f : Defined(f, lo, n, lru, step, A)
  <2>1. lru \in A[0]
    BY <1>4, <1>5
  <2>2. ASSUME NEW k \in 1 .. n PROVE \A x \in A[k - 1] : step[k][x] \in A[k]
    <3>1. k \in 0 .. n /\ k - 1 \in 0 .. n
      OBVIOUS
    <3>2. A[k] = Good /\ A[k - 1] = Good
      BY <1>5, <3>1
    <3> QED BY <1>3, <1>6, <3>2
  <2>3. \A k \in lo + 1 .. n : \A x \in A[k - 1] : step[k][x] \in A[k]
    BY <1>8, <2>2
  <2> QED BY <1>7, <1>8, <2>1, <2>3, Recursion
<1>10. Filling(f, lru, b, ret)
  <2>1. /\ f = [k \in 0 .. n |-> IF k = 0 THEN lru ELSE step[k][f[k - 1]]]
        /\ \A k \in 0 .. n : f[k] \in A[k]
    BY <1>9, <1>7 DEF Defined
  <2>2. ASSUME NEW k \in 0 .. n
        PROVE  (IF k = 0 THEN lru ELSE step[k][f[k - 1]]) = (IF k = 0 THEN lru ELSE Touch(f[k - 1], item(k)))
    <3>1. CASE k # 0
      <4>1. k \in 1 .. n /\ k - 1 \in 0 .. n
        BY <3>1
      <4>2. f[k - 1] \in Good
        BY <1>5, <2>1, <4>1
      <4> QED BY <1>6, <3>1, <4>1, <4>2
    <3> QED BY <3>1
  <2>3. f = [k \in 0 .. n |-> IF k = 0 THEN lru ELSE Touch(f[k - 1], item(k))]
    BY <2>1, <2>2
  <2> QED BY <1>1, <2>3 DEF Filling, item
<1>11. Filling(filled, lru, b, ret)
  BY <1>10
<1>12. filled = [k \in 0 .. n |-> IF k = 0 THEN lru ELSE Touch(filled[k - 1], item(k))]
  BY <1>1, <1>11 DEF Filling, item
<1>13. \A k \in 0 .. n : filled[k] \in A[k]
  <2>0. 0 \in 0 .. n /\ filled[0] = lru
    <3>1. 0 \in 0 .. n
      OBVIOUS
    <3> QED BY <1>12, <3>1, Zenon
  <2>1. filled[0] \in A[0]
    BY <1>4, <1>5, <2>0
  <2>2. ASSUME NEW k \in 1 .. n, filled[k - 1] \in A[k - 1] PROVE filled[k] \in A[k]
    <3>2. k \in 0 .. n /\ k - 1 \in 0 .. n /\ k # 0
      OBVIOUS
    <3>3. filled[k] = Touch(filled[k - 1], item(k))
      BY <1>12, <3>2, Zenon
    <3> QED BY <1>3, <1>5, <2>2, <3>2, <3>3
  <2>3. \A k \in lo + 1 .. n : filled[k - 1] \in A[k - 1] => filled[k] \in A[k]
    BY <1>8, <2>2
  <2>4. \A k \in lo .. n : filled[k] \in A[k]
    BY <1>7, <1>8, <2>1, <2>3, FromPlaceToPlace
  <2> QED BY <1>7, <2>4
<1>14. filled[n] \in Good
  BY <1>5, <1>13
<1> QED BY <1>1, <1>14 DEF Good

\* A step of a reader leaves what is read alone.
LEMMA GetKept ==
    ASSUME IndexInv, EntryRight(route, seg, entry), GetInv', UNCHANGED <<disk, opened>>, DOMAIN pc' = Threads
    PROVE  ReaderInv'
<1>1. UNCHANGED <<route, cache, seg, entry>> /\ pc'["main"] \notin {"route", "write"}
  BY DEF disk, opened, GetInv, Steps
<1>2. seg \in Segs
  BY DEF IndexInv
<1>3. IndexInv'
  BY <1>1, <1>2, IndexKept DEF Segs
<1> QED BY <1>1, <1>3 DEF ReaderInv

\* The pictures are those of the segment opened.
LEMMA SamePictures ==
    ASSUME UNCHANGED <<disk, opened>>
    PROVE  UNCHANGED <<route, cache, seg, use, entry, Pics, Frames, Held>>
<1>1. UNCHANGED <<route, cache, seg, use, entry>>
  BY DEF disk, opened
<1>2. UNCHANGED <<Pics, Frames>>
  BY <1>1 DEF Pics, Frames
<1> QED BY <1>1, <1>2 DEF Held

\* A thread goes from one place to another, or fails; frames and what is to be done stay.
MayGo(t, step) ==
    IF t = "main"
    THEN /\ step \in Steps \cup {"notify", "done"}
         /\ step \in Steps => pc["main"] \in Steps
         /\ step = "take" => Has(Head(todo["main"]))
         /\ step = "notify" => ~ open'
    ELSE /\ use # "get" /\ step \in Steps \cup {"loop", "wait", "dead"}
         /\ step \in Steps => pc["ahead"] \in Steps

\* A thread that only goes on, or fails, keeps the invariant.
LEMMA GetGoes ==
    ASSUME IndexInv, EntryRight(route, seg, entry), GetInv, UNCHANGED <<disk, opened, todo, lru, from, got, last>>,
           NEW t \in Threads, NEW step, GoTo(t, step), MayGo(t, step), open' => open,
           raised' = raised \/ (raised' = "KeyError" /\ use # "get")
    PROVE  ReaderInv'
<1>1. UNCHANGED <<route, cache, seg, use, entry, Pics, Frames, Held>>
  BY SamePictures
<1>2. UNCHANGED <<todo, lru, from, got, last>> /\ DOMAIN pc = Threads
  BY DEF IndexInv
<1>3. /\ DOMAIN pc' = Threads /\ pc'[t] = step
      /\ \A u \in Threads : u # t => pc'[u] = pc[u]
  BY <1>2, Moved
<1>4. /\ use' \in {"get", "ahead", "behind"} /\ route'.typ \in {"hevc", "h264", "mp4"}
      /\ lru' \in Seq(Held') /\ Len(lru') <= CacheSize /\ todo' \in [Threads -> Seq(Nat)]
      /\ last' \in Nat /\ last' <= Frames' + 1
  BY <1>1, <1>2 DEF GetInv
<1>5. GotRight'
  BY <1>1, <1>2 DEF GetInv, GotRight
<1>6. CASE t = "main"
  <2>1. pc'["main"] = step /\ pc'["ahead"] = pc["ahead"] /\ MayGo("main", step)
    BY <1>3, <1>6 DEF Threads
  <2>2. /\ step \in Steps \cup {"notify", "done"} /\ (step \in Steps => pc["main"] \in Steps)
        /\ (step = "take" => Has(Head(todo["main"]))) /\ (step = "notify" => ~ open')
    BY <2>1 DEF MayGo
  <2>3. TodoRight("main")' /\ TodoRight("ahead")'
    BY <1>1, <1>2, <2>1, <2>2 DEF GetInv, TodoRight
  <2>4. pc'["main"] \in Steps => \A i \in 1 .. Len(todo'["main"]) : todo'["main"][i] = from' + Len(got') + i - 1
    BY <1>2, <2>1, <2>2 DEF GetInv
  <2>5. use' = "get" /\ pc'["main"] = "take" => Has(Head(todo["main"]))'
    BY <1>2, <2>1, <2>2 DEF Has
  <2>6. /\ pc'["main"] \in Steps \cup {"ready", "got", "notify", "join", "done"}
        /\ pc'["ahead"] \in Steps \cup {"loop", "wait", "woken", "dead"}
        /\ (use' = "get" => pc'["ahead"] = "dead")
    BY <1>1, <2>1, <2>2 DEF GetInv
  <2>7. /\ (pc'["main"] = "got" => got' # <<>>)
        /\ (pc'["main"] \in {"notify", "join"} => ~ open')
        /\ (pc'["ahead"] = "woken" => ~ open' \/ last' >= 2)
    BY <1>2, <2>1, <2>2 DEF GetInv, Steps
  <2>8. raised' \in {"no", "KeyError"} /\ (raised' = "KeyError" => use' # "get")
    BY <1>1 DEF GetInv
  <2>9. GetInv'
    BY <1>4, <1>5, <2>3, <2>4, <2>5, <2>6, <2>7, <2>8 DEF GetInv, Steps
  <2> QED BY <1>3, <2>9, GetKept
<1>7. CASE t = "ahead"
  <2>1. pc'["ahead"] = step /\ pc'["main"] = pc["main"] /\ MayGo("ahead", step)
    BY <1>3, <1>7 DEF Threads
  <2>2. use # "get" /\ step \in Steps \cup {"loop", "wait", "dead"} /\ (step \in Steps => pc["ahead"] \in Steps)
    BY <2>1 DEF MayGo
  <2>3. TodoRight("main")' /\ TodoRight("ahead")'
    BY <1>1, <1>2, <2>1, <2>2 DEF GetInv, TodoRight
  <2>4. pc'["main"] \in Steps => \A i \in 1 .. Len(todo'["main"]) : todo'["main"][i] = from' + Len(got') + i - 1
    BY <1>2, <2>1, <2>2 DEF GetInv
  <2>5. use' # "get"
    BY <1>1, <2>2
  <2>6. /\ pc'["main"] \in Steps \cup {"ready", "got", "notify", "join", "done"}
        /\ pc'["ahead"] \in Steps \cup {"loop", "wait", "woken", "dead"}
    BY <1>1, <2>1, <2>2 DEF GetInv
  <2>7. /\ (pc'["main"] = "got" => got' # <<>>)
        /\ (pc'["main"] \in {"notify", "join"} => ~ open')
        /\ pc'["ahead"] # "woken"
    BY <1>2, <2>1, <2>2 DEF GetInv, Steps
  <2>8. raised' \in {"no", "KeyError"}
    BY <1>1 DEF GetInv
  <2>9. GetInv'
    BY <1>4, <1>5, <2>3, <2>4, <2>5, <2>6, <2>7, <2>8 DEF GetInv, Steps
  <2> QED BY <1>3, <2>9, GetKept
<1> QED BY <1>6, <1>7 DEF Threads

\* A frame that is found is the next of those asked for.
LEMMA FoundRight ==
    ASSUME IndexInv, EntryRight(route, seg, entry), GetInv, UNCHANGED <<disk, opened, open, from, last, raised>>,
           NEW t \in Threads, pc[t] \in Steps, t = "ahead" => use # "get",
           NEW frame, frame = Pics[Head(todo[t])].frame, Found(t, frame),
           lru' \in Seq(Held), Len(lru') <= CacheSize
    PROVE  ReaderInv'
<1>1. UNCHANGED <<route, cache, seg, use, entry, Pics, Frames, Held>>
  BY SamePictures
<1>2. UNCHANGED <<open, from, last, raised>> /\ DOMAIN pc = Threads
  BY DEF IndexInv
<1>3. PICK step : step = IF Len(todo[t]) > 1 THEN "in" ELSE IF t = "main" THEN "got" ELSE "loop"
  OBVIOUS
<1>4. /\ todo' = [todo EXCEPT ![t] = Tail(@)]
      /\ got' = (IF t = "main" THEN Append(got, frame) ELSE got)
      /\ GoTo(t, step)
  BY <1>3 DEF Found
<1>5. /\ DOMAIN pc' = Threads /\ pc'[t] = step
      /\ \A u \in Threads : u # t => pc'[u] = pc[u]
  BY <1>2, <1>4, Moved
<1>6. /\ use' \in {"get", "ahead", "behind"} /\ route'.typ \in {"hevc", "h264", "mp4"}
      /\ lru' \in Seq(Held') /\ Len(lru') <= CacheSize
      /\ last' \in Nat /\ last' <= Frames' + 1
      /\ raised' \in {"no", "KeyError"} /\ (raised' = "KeyError" => use' # "get")
  BY <1>1, <1>2 DEF GetInv
<1>7. PICK list \in Seq(1 .. Frames) : list = todo[t] /\ list # <<>>
  BY DEF GetInv, TodoRight, Threads
<1>8. todo \in [Threads -> Seq(Nat)]
  BY DEF GetInv
<1>9. /\ todo'[t] = Tail(list) /\ (\A u \in Threads : u # t => todo'[u] = todo[u])
      /\ Tail(list) \in Seq(1 .. Frames) /\ todo' \in [Threads -> Seq(Nat)]
  <2>1. PICK rest : rest = Tail(list)
    OBVIOUS
  <2>2. rest \in Seq(1 .. Frames) /\ rest \in Seq(Nat)
    <3>1. PICK S : S = 1 .. Frames
      OBVIOUS
    <3>2. list \in Seq(S) /\ list # <<>> /\ S \subseteq Nat
      BY <1>7, <3>1
    <3>3. rest \in Seq(S)
      BY <2>1, <3>2
    <3>4. rest \in Seq(Nat)
      BY <3>2, <3>3, SeqMonotonic
    <3> QED BY <3>1, <3>3, <3>4
  <2>3. todo' = [todo EXCEPT ![t] = rest]
    BY <1>4, <1>7, <2>1
  <2> QED BY <1>8, <2>1, <2>2, <2>3
<1>10. Tail(list) # <<>> <=> Len(todo[t]) > 1
  <2>1. PICK rest : rest = Tail(list)
    OBVIOUS
  <2>2. rest \in Seq(1 .. Frames) /\ Len(rest) = Len(list) - 1 /\ Len(list) \in Nat
    BY <1>7, <1>9, <2>1
  <2>3. rest = <<>> <=> Len(rest) = 0
    BY <2>2, EmptySeq
  <2> QED BY <1>7, <2>1, <2>2, <2>3
<1>11. CASE t = "main"
  <2>1. pc'["main"] = step /\ pc'["ahead"] = pc["ahead"] /\ step = IF Len(todo[t]) > 1 THEN "in" ELSE "got"
    BY <1>3, <1>5, <1>11 DEF Threads
  <2>2. GotRight /\ (\A i \in 1 .. Len(list) : list[i] = from + Len(got) + i - 1)
    BY <1>7, <1>11 DEF GetInv
  <2>3. Frames \in Nat /\ from \in Nat \ {0} /\ got \in Seq(Nat)
        /\ (\A i \in 1 .. Len(got) : got[i] = Pics[from + i - 1].frame)
    <3>1. route \in Routes /\ seg \in Segs /\ route.typ \in {"hevc", "h264", "mp4"}
      BY DEF IndexInv, GetInv
    <3>2. Frames \in Nat
      BY <3>1, PicsFacts
    <3> QED BY <2>2, <3>2 DEF GotRight
  <2>4. list[1] = from + Len(got) /\ list[1] \in 1 .. Frames /\ Head(list) = list[1]
    <3>1. 1 \in 1 .. Len(list) /\ Head(list) = list[1]
      BY <1>7, EmptySeq
    <3>2. list[1] = from + Len(got)
      <4>1. PICK first \in Int, taken \in Int, so \in Int : first = 1 /\ taken = from /\ so = Len(got)
        BY <2>3
      <4>2. list[first] = taken + so + first - 1
        BY ONLY <2>2, <3>1, <4>1
      <4>3. taken + so + first - 1 = taken + so
        BY ONLY <4>1
      <4> QED BY <4>1, <4>2, <4>3
    <3>3. PICK S : S = 1 .. Frames
      OBVIOUS
    <3>4. list[1] \in S
      BY <1>7, <3>1, <3>3, ElementOfSeq
    <3> QED BY <3>1, <3>2, <3>3, <3>4
  <2>5. frame = Pics[from + Len(got)].frame /\ frame \in Nat
    <3>1. route \in Routes /\ seg \in Segs /\ route.typ \in {"hevc", "h264", "mp4"}
      BY DEF IndexInv, GetInv
    <3>2. \A k \in 1 .. Frames : Pics[k].frame \in Nat
      BY <3>1, PicsFacts
    <3> QED BY <1>7, <2>4, <3>2
  <2>6. PICK n \in Nat : n = Len(got) + 1
    BY <2>3
  <2>7. /\ got' \in Seq(Nat) /\ Len(got') = n /\ got'[n] = frame /\ (\A i \in 1 .. Len(got) : got'[i] = got[i])
    BY <1>4, <1>11, <2>3, <2>5, <2>6
  <2>8. \A i \in 1 .. n : got'[i] = Pics[from + i - 1].frame
    <3>1. SUFFICES ASSUME NEW i \in 1 .. n PROVE got'[i] = Pics[from + i - 1].frame
      OBVIOUS
    <3>2. CASE i = n
      <4>1. from + i - 1 = from + Len(got)
        BY <2>3, <2>6, <3>2
      <4> QED BY <2>5, <2>7, <3>2, <4>1
    <3>3. CASE i \in 1 .. Len(got)
      BY <2>3, <2>7, <3>3
    <3> QED BY <2>3, <2>6, <3>2, <3>3
  <2>9. from + Len(got') <= Frames + 1
    BY <2>3, <2>4, <2>6, <2>7
  <2>10. GotRight'
    BY <1>1, <1>2, <2>3, <2>7, <2>8, <2>9 DEF GotRight
  <2>11. TodoRight("main")' /\ TodoRight("ahead")'
    <3>1. TodoRight("main")'
      BY <1>1, <1>9, <1>10, <1>11, <2>1 DEF TodoRight, Steps
    <3>2. todo'["ahead"] = todo["ahead"]
      BY <1>9, <1>11 DEF Threads
    <3> QED BY <1>1, <2>1, <3>1, <3>2 DEF GetInv, TodoRight
  <2>12. \A i \in 1 .. Len(todo'["main"]) : todo'["main"][i] = from' + Len(got') + i - 1
    <3>1. PICK rest \in Seq(1 .. Frames) : rest = Tail(list)
      BY <1>9
    <3>2. \A i \in 1 .. Len(rest) : i + 1 \in 1 .. Len(list) /\ rest[i] = list[i + 1]
      BY <1>7, <3>1
    <3>3. \A i \in 1 .. Len(rest) : rest[i] = from + Len(got) + (i + 1) - 1
      BY <2>2, <3>2
    <3>4. ASSUME NEW i \in 1 .. Len(rest) PROVE rest[i] = from + n + i - 1
      <4>1. i \in Nat /\ Len(got) \in Nat
        BY <2>3, <3>1
      <4> QED BY <2>3, <2>6, <3>3, <4>1
    <3> QED BY <1>2, <1>9, <1>11, <2>7, <3>1, <3>4
  <2>13. got' # <<>>
    BY <2>6, <2>7, <2>3
  <2>14. /\ pc'["main"] \in {"in", "got"}
         /\ pc'["ahead"] \in Steps \cup {"loop", "wait", "woken", "dead"}
         /\ (use' = "get" => pc'["ahead"] = "dead")
         /\ (pc'["ahead"] = "woken" => ~ open' \/ last' >= 2)
    BY <1>1, <1>2, <2>1 DEF GetInv
  <2>15. GetInv'
    BY <1>6, <1>9, <2>10, <2>11, <2>12, <2>13, <2>14 DEF GetInv, Steps
  <2> QED BY <1>5, <2>15, GetKept
<1>12. CASE t = "ahead"
  <2>1. pc'["ahead"] = step /\ pc'["main"] = pc["main"] /\ step = (IF Len(todo[t]) > 1 THEN "in" ELSE "loop") /\ got' = got
    BY <1>3, <1>4, <1>5, <1>12 DEF Threads
  <2>2. todo'["main"] = todo["main"]
    BY <1>9, <1>12 DEF Threads
  <2>3. TodoRight("main")'
    BY <1>1, <2>1, <2>2 DEF GetInv, TodoRight
  <2>4. TodoRight("ahead")'
    BY <1>1, <1>9, <1>10, <1>12, <2>1 DEF TodoRight, Steps
  <2>5. GotRight'
    BY <1>1, <1>2, <2>1 DEF GetInv, GotRight
  <2>6. pc'["main"] \in Steps => \A i \in 1 .. Len(todo'["main"]) : todo'["main"][i] = from' + Len(got') + i - 1
    BY <1>2, <2>1, <2>2 DEF GetInv
  <2>7. use' # "get"
    BY <1>1, <1>12
  <2>8. /\ pc'["main"] \in Steps \cup {"ready", "got", "notify", "join", "done"} /\ pc'["ahead"] \in {"in", "loop"}
        /\ (pc'["main"] = "got" => got' # <<>>)
        /\ (pc'["main"] \in {"notify", "join"} => ~ open')
    BY <1>2, <2>1 DEF GetInv
  <2>9. GetInv'
    BY <1>6, <1>9, <2>3, <2>4, <2>5, <2>6, <2>7, <2>8 DEF GetInv, Steps
  <2> QED BY <1>5, <2>9, GetKept
<1> QED BY <1>11, <1>12 DEF Threads

\* The frames that a thread has still to fetch are frames of the segment.
LEMMA NextFrame ==
    ASSUME GetInv, NEW t \in Threads, pc[t] \in Steps
    PROVE  Head(todo[t]) \in 1 .. Frames /\ (t = "ahead" => use # "get")
<1>1. PICK list \in Seq(1 .. Frames) : list = todo[t] /\ list # <<>>
  BY DEF GetInv, TodoRight, Threads
<1>2. PICK S : S = 1 .. Frames
  OBVIOUS
<1>3. Head(list) \in S
  BY <1>1, <1>2, HeadTailProperties
<1>4. t = "ahead" => use # "get"
  BY DEF GetInv, Steps
<1> QED BY <1>1, <1>2, <1>3, <1>4

\* The look at the cache, without the lock.
LEMMA GetLooksIn ==
    ASSUME IndexInv, EntryRight(route, seg, entry), GetInv, NEW t \in Threads, LookIn(t)
    PROVE  ReaderInv'
<1>1. /\ pc[t] = "in" /\ UNCHANGED <<disk, opened, todo, frames, reader, decoder, gets>>
  BY DEF LookIn
<1>2. PICK step : step = IF Has(Head(todo[t])) THEN "take" ELSE "lock"
  OBVIOUS
<1>3. GoTo(t, step)
  BY <1>2 DEF LookIn
<1>4. UNCHANGED <<disk, opened, todo, lru, from, got, last>> /\ (open' => open) /\ raised' = raised
  BY <1>1 DEF frames, reader
<1>5. t = "ahead" => use # "get"
  BY <1>1, NextFrame DEF Steps
<1>6. MayGo(t, step)
  BY <1>1, <1>2, <1>5 DEF MayGo, Steps, Threads
<1> QED BY <1>3, <1>4, <1>6, GetGoes

\* The lock is taken.
LEMMA GetLocks ==
    ASSUME IndexInv, EntryRight(route, seg, entry), GetInv, NEW t \in Threads, Lock(t)
    PROVE  ReaderInv'
<1>1. /\ pc[t] = "lock" /\ GoTo(t, "locked") /\ UNCHANGED <<disk, opened, todo, lru, reader, decoder, gets>>
  BY DEF Lock
<1>2. PICK step : step = "locked"
  OBVIOUS
<1>3. UNCHANGED <<disk, opened, todo, lru, from, got, last>> /\ (open' => open) /\ raised' = raised
  BY <1>1 DEF reader
<1>4. t = "ahead" => use # "get"
  BY <1>1, NextFrame DEF Steps
<1>5. MayGo(t, step)
  BY <1>1, <1>2, <1>4 DEF MayGo, Steps, Threads
<1> QED BY <1>1, <1>2, <1>3, <1>5, GetGoes

\* Between the look at the cache and its use only the thread that reads ahead can have come.
LEMMA GetTakes ==
    ASSUME IndexInv, EntryRight(route, seg, entry), GetInv, NEW t \in Threads, Take(t)
    PROVE  ReaderInv'
<1>1. pc[t] = "take" /\ UNCHANGED <<disk, opened, lock, open, last, from, decoder, gets>>
  BY DEF Take
<1>2. pc[t] \in Steps /\ (t = "ahead" => use # "get")
  BY <1>1, NextFrame DEF Steps
<1>3. PICK num : num = Head(todo[t])
  OBVIOUS
<1>4. lru \in Seq(Held) /\ Len(lru) <= CacheSize
  BY DEF GetInv
<1>5. CASE Has(num)
  <2>1. /\ Found(t, Frame(num)) /\ UNCHANGED raised
        /\ lru' = Touch(lru, [num |-> num, frame |-> Frame(num)])
    BY <1>3, <1>5 DEF Take
  <2>2. Frame(num) = Pics[num].frame /\ [num |-> num, frame |-> Frame(num)] \in Held
    BY <1>4, <1>5, HeldRight
  <2>3. PICK e \in Held : e = [num |-> num, frame |-> Frame(num)]
    BY <2>2
  <2>4. lru' \in Seq(Held) /\ Len(lru') <= CacheSize
    BY <1>4, <2>1, <2>3, Touched
  <2>5. PICK frame : frame = Frame(num)
    OBVIOUS
  <2>6. frame = Pics[Head(todo[t])].frame /\ Found(t, frame)
    BY <1>3, <2>1, <2>2, <2>5
  <2> QED BY <1>1, <1>2, <2>1, <2>4, <2>6, FoundRight
<1>6. CASE ~ Has(num)
  <2>1. Fail(t, "KeyError") /\ UNCHANGED <<todo, got, lru>>
    BY <1>3, <1>6 DEF Take
  <2>2. use # "get"
    <3>1. CASE t = "main"
      BY <1>1, <1>3, <1>6, <3>1 DEF GetInv
    <3> QED BY <1>2, <3>1 DEF Threads
  <2>3. PICK step : step = IF t = "main" THEN "done" ELSE "dead"
    OBVIOUS
  <2>4. GoTo(t, step) /\ (raised' = raised \/ (raised' = "KeyError" /\ use # "get"))
    BY <2>1, <2>2, <2>3 DEF Fail
  <2>5. MayGo(t, step)
    BY <2>2, <2>3 DEF MayGo, Steps, Threads
  <2> QED BY <1>1, <2>1, <2>4, <2>5, GetGoes
<1> QED BY <1>5, <1>6

\* The second look, or the group of pictures is decoded: it is all there, and fits into the cache.
LEMMA GetFetches ==
    ASSUME IndexInv, EntryRight(route, seg, entry), GetInv, NEW t \in Threads, Fetch(t)
    PROVE  ReaderInv'
<1>1. pc[t] = "locked" /\ UNCHANGED <<disk, opened, open, last, from, decoder, gets>>
  BY DEF Fetch
<1>2. pc[t] \in Steps /\ (t = "ahead" => use # "get") /\ Head(todo[t]) \in 1 .. Frames
  BY <1>1, NextFrame DEF Steps
<1>3. PICK num \in 1 .. Frames : num = Head(todo[t])
  BY <1>2
<1>4. lru \in Seq(Held) /\ Len(lru) <= CacheSize /\ route.typ \in {"hevc", "h264", "mp4"}
  BY DEF GetInv
<1>5. CASE /\ Has(num) /\ Found(t, Frame(num)) /\ UNCHANGED raised
           /\ lru' = Touch(lru, [num |-> num, frame |-> Frame(num)])
  <2>1. Frame(num) = Pics[num].frame /\ [num |-> num, frame |-> Frame(num)] \in Held
    BY <1>4, <1>5, HeldRight
  <2>2. PICK e \in Held : e = [num |-> num, frame |-> Frame(num)]
    BY <2>1
  <2>3. lru' \in Seq(Held) /\ Len(lru') <= CacheSize
    BY <1>4, <1>5, <2>2, Touched
  <2>4. PICK frame : frame = Frame(num)
    OBVIOUS
  <2>5. frame = Pics[Head(todo[t])].frame /\ Found(t, frame)
    BY <1>3, <1>5, <2>1, <2>4
  <2> QED BY <1>1, <1>2, <1>5, <2>3, <2>5, FoundRight
<1>6. CASE \E gop \in {GetGop(File, entry, num)} : \E ret \in {DecodeGop(gop)} :
             IF Unreadable(num) \/ ret = Raises THEN Fail(t, "assert") /\ UNCHANGED <<todo, got, lru>>
             ELSE PutGop(t, gop, ret)
  <2>1. PICK gop, ret :
               /\ gop = GetGop(File, entry, num) /\ ret = DecodeGop(gop)
               /\ IF Unreadable(num) \/ ret = Raises THEN Fail(t, "assert") /\ UNCHANGED <<todo, got, lru>>
                  ELSE PutGop(t, gop, ret)
    BY <1>6
  <2>2. /\ Encoded(File) /\ Tabled(entry, File) /\ Pics = Pictures(File) /\ Frames = Len(Pictures(File))
        /\ Frames \in Nat \ {0}
    BY <1>4, LoadedFacts
  <2>3. PICK n \in 1 .. Len(Pictures(File)) : n = num
    BY <2>2
  <2>4. gop = GetGop(File, entry, n)
    BY <2>1, <2>3
  <2>5. ret \in Seq(Nat) /\ ret # Raises /\ ~ Unreadable(num)
    BY <2>1, <2>2, <2>3, <2>4, DecodeGopRight DEF Unreadable
  <2>6. Len(ret) \in 1 .. CacheSize /\ gop.frame_b \in 1 .. n
    BY <2>1, <2>2, <2>4, DecodeGopRight
  <2>7. n < gop.frame_b + Len(ret) /\ gop.frame_b + Len(ret) <= Frames + 1
    BY <2>1, <2>2, <2>4, DecodeGopRight
  <2>8. \A k \in 1 .. Len(ret) : ret[k] = Pics[gop.frame_b + k - 1].frame
    <3>0. Encoded(File) /\ Tabled(entry, File)
      BY <2>2
    <3>1. \A k \in 1 .. Len(DecodeGop(gop)) : DecodeGop(gop)[k] = Pictures(File)[gop.frame_b + k - 1].frame
      BY ONLY <2>4, <3>0, n \in 1 .. Len(Pictures(File)), DecodeGopRight
    <3> QED BY <2>1, <2>2, <3>1
  <2>9. PICK b \in Nat \ {0} : b = gop.frame_b
    BY <2>6
  <2>10. PICK m \in Nat : m = Len(ret)
    BY <2>5
  <2>11. num \in Nat /\ b <= num /\ num < b + m /\ m <= CacheSize /\ CacheSize \in Nat /\ b + m <= Frames + 1
    BY <2>3, <2>6, <2>7, <2>9, <2>10, FrameReaderAssumption
  <2>12. ~ (gop.frame_b + Len(ret) - num > CacheSize)
    BY <2>9, <2>10, <2>11
  <2>13. PICK frame : frame = ret[num - gop.frame_b + 1]
    OBVIOUS
  <2>14. PutGop(t, gop, ret)
    BY <2>1, <2>5
  <2>15. Found(t, frame) /\ UNCHANGED raised
    BY <1>3, <2>12, <2>13, <2>14 DEF PutGop
  <2>16. frame = Pics[Head(todo[t])].frame
    <3>1. PICK k \in 1 .. m : k = num - b + 1
      BY <2>9, <2>11
    <3>2. b + k - 1 = num
      BY <2>9, <2>11, <3>1, SMTT(40)
    <3>3. ret[k] = Pics[b + k - 1].frame
      BY <2>8, <2>9, <2>10, <3>1
    <3> QED BY <1>3, <2>9, <2>13, <3>1, <3>2, <3>3
  <2>17. lru' \in Seq(Held) /\ Len(lru') <= CacheSize
    <3>1. PICK filled : filled = CHOOSE f : Filling(f, lru, gop.frame_b, ret)
      OBVIOUS
    <3>2. lru' = filled[Len(ret)]
      BY <2>14, <3>1, Zenon DEF PutGop, Filling
    <3>3. b + Len(ret) <= Frames + 1 /\ Frames \in Nat /\ \A k \in 1 .. Len(ret) : ret[k] = Pics[b + k - 1].frame
      BY <2>2, <2>8, <2>9, <2>10, <2>11
    <3>4. filled = CHOOSE f : Filling(f, lru, b, ret)
      BY <2>9, <3>1
    <3>5. filled[Len(ret)] \in Seq(Held) /\ Len(filled[Len(ret)]) <= CacheSize
      BY <1>4, <2>5, <3>3, <3>4, Filled
    <3> QED BY <3>2, <3>5
  <2> QED BY <1>1, <1>2, <2>15, <2>16, <2>17, FoundRight
<1> QED BY <1>3, <1>5, <1>6 DEF Fetch

\* What is read ahead are frames of the segment.
LEMMA AheadRight ==
    ASSUME IndexInv, EntryRight(route, seg, entry), GetInv, last >= 2
    PROVE  AheadFrames \in Seq(1 .. Frames)
<1>1. Frames \in Nat \ {0} /\ FrameCount(entry) = Frames
  BY LoadedFacts DEF GetInv
<1>2. last \in Nat /\ last <= Frames + 1 /\ Readahead \in Nat
  BY FrameReaderAssumption DEF GetInv
<1>3. CASE use = "behind"
  <2>1. PICK down : down = last - Readahead - 1
    OBVIOUS
  <2>2. PICK first : first = (IF down > 0 THEN down ELSE 0) + 2
    OBVIOUS
  <2>3. first \in Nat /\ first >= 2
    BY <1>2, <2>1, <2>2
  <2>4. AheadFrames = [i \in 1 .. last - first |-> last - i]
    BY <1>3, <2>1, <2>2 DEF AheadFrames
  <2>5. PICK n \in Nat : n = IF last - first > 0 THEN last - first ELSE 0
    BY <1>2, <2>3
  <2>6. 1 .. last - first = 1 .. n
    BY <1>2, <2>3, <2>5
  <2>7. AheadFrames = [i \in 1 .. n |-> last - i]
    BY <2>4, <2>6
  <2>8. \A i \in 1 .. n : last - i \in 1 .. Frames
    BY <1>1, <1>2, <2>3, <2>5
  <2> QED BY <2>7, <2>8
<1>4. CASE use # "behind"
  <2>1. PICK end : end = IF last + Readahead - 1 < FrameCount(entry) THEN last + Readahead - 1 ELSE FrameCount(entry)
    OBVIOUS
  <2>2. end \in Nat /\ end <= Frames
    BY <1>1, <1>2, <2>1
  <2>3. AheadFrames = [i \in 1 .. end - last + 1 |-> last + i - 1]
    BY <1>4, <2>1 DEF AheadFrames
  <2>4. PICK n \in Nat : n = IF end - last + 1 > 0 THEN end - last + 1 ELSE 0
    <3>1. PICK d \in Int : d = end - last + 1
      BY <1>2, <2>2
    <3>2. (IF d > 0 THEN d ELSE 0) \in Nat
      OBVIOUS
    <3> QED BY <3>1, <3>2
  <2>5. 1 .. end - last + 1 = 1 .. n
    BY <1>2, <2>2, <2>4
  <2>6. AheadFrames = [i \in 1 .. n |-> last + i - 1]
    BY <2>3, <2>5
  <2>7. \A i \in 1 .. n : last + i - 1 \in 1 .. Frames
    BY <1>1, <1>2, <2>2, <2>4
  <2> QED BY <2>6, <2>7
<1> QED BY <1>3, <1>4

\* The thread that reads ahead waits, ends, or has frames to fetch.
LEMMA GetAhead ==
    ASSUME IndexInv, EntryRight(route, seg, entry), GetInv, AheadWait \/ AheadWoken
    PROVE  ReaderInv'
<1>1. /\ UNCHANGED <<disk, opened, frames, reader, decoder, gets>> /\ pc["ahead"] \in {"loop", "woken"}
      /\ DOMAIN pc = Threads
  BY DEF AheadWait, AheadWoken, IndexInv
<1>2. UNCHANGED <<disk, opened, lru, from, got, last, open, raised>> /\ "ahead" \in Threads
  BY <1>1 DEF frames, reader, Threads
<1>3. use # "get"
  BY <1>1 DEF GetInv
<1>4. ASSUME NEW step \in {"wait", "dead"}, GoTo("ahead", step), UNCHANGED todo
      PROVE  ReaderInv'
  <2>1. MayGo("ahead", step)
    BY <1>3, <1>4 DEF MayGo, Steps
  <2>2. PICK t \in Threads : t = "ahead"
    BY <1>2
  <2>3. UNCHANGED <<disk, opened, todo, lru, from, got, last>> /\ (open' => open) /\ raised' = raised
    BY <1>2, <1>4
  <2>4. GoTo(t, step) /\ MayGo(t, step)
    BY <1>4, <2>1, <2>2
  <2> QED BY <2>3, <2>4, GetGoes
<1>5. CASE AheadWait
  <2>1. UNCHANGED todo /\ GoTo("ahead", IF open THEN "wait" ELSE "dead")
    BY <1>5 DEF AheadWait
  <2> QED BY <1>4, <2>1
<1>6. CASE AheadWoken /\ ~ open
  <2>1. UNCHANGED todo /\ GoTo("ahead", "dead")
    BY <1>6 DEF AheadWoken
  <2> QED BY <1>4, <2>1
<1>7. CASE AheadWoken /\ open
  <2>1. pc["ahead"] = "woken" /\ last >= 2
    BY <1>7 DEF AheadWoken, GetInv
  <2>2. PICK list \in Seq(1 .. Frames) : list = AheadFrames
    BY <2>1, AheadRight
  <2>3. PICK step : step = IF list = <<>> THEN "loop" ELSE "in"
    OBVIOUS
  <2>4. todo' = [todo EXCEPT !["ahead"] = list] /\ GoTo("ahead", step)
    BY <1>7, <2>2, <2>3 DEF AheadWoken
  <2>5. DOMAIN pc' = Threads /\ pc'["ahead"] = step /\ pc'["main"] = pc["main"]
    BY <1>1, <1>2, <2>4, Moved DEF Threads
  <2>6. UNCHANGED <<route, cache, seg, use, entry, Pics, Frames, Held>>
    BY <1>2, SamePictures
  <2>7. list \in Seq(Nat) /\ todo \in [Threads -> Seq(Nat)]
    <3>1. PICK S : S = 1 .. Frames
      OBVIOUS
    <3>2. list \in Seq(S) /\ S \subseteq Nat
      BY <3>1
    <3> QED BY <3>2, SeqMonotonic DEF GetInv
  <2>8. todo'["ahead"] = list /\ todo'["main"] = todo["main"] /\ todo' \in [Threads -> Seq(Nat)]
    BY <2>4, <2>7 DEF Threads
  <2>9. TodoRight("main")'
    BY <2>5, <2>6, <2>8 DEF GetInv, TodoRight
  <2>10. TodoRight("ahead")'
    BY <2>3, <2>5, <2>6, <2>8 DEF TodoRight, Steps
  <2>11. UNCHANGED <<lru, from, got, last, open, raised>>
    BY <1>2
  <2>12. GotRight'
    BY <2>6, <2>11 DEF GetInv, GotRight
  <2>13. pc'["main"] \in Steps => \A i \in 1 .. Len(todo'["main"]) : todo'["main"][i] = from' + Len(got') + i - 1
    BY <2>5, <2>8, <2>11 DEF GetInv
  <2>14. /\ use' \in {"get", "ahead", "behind"} /\ route'.typ \in {"hevc", "h264", "mp4"}
         /\ lru' \in Seq(Held') /\ Len(lru') <= CacheSize /\ last' \in Nat /\ last' <= Frames' + 1
         /\ raised' \in {"no", "KeyError"}
    BY <2>6, <2>11 DEF GetInv
  <2>15. /\ pc'["main"] \in Steps \cup {"ready", "got", "notify", "join", "done"} /\ pc'["ahead"] \in {"in", "loop"}
         /\ (pc'["main"] = "got" => got' # <<>>)
         /\ (pc'["main"] \in {"notify", "join"} => ~ open') /\ use' # "get"
    BY <1>3, <2>3, <2>5, <2>6, <2>11 DEF GetInv
  <2>16. GetInv'
    BY <2>8, <2>9, <2>10, <2>12, <2>13, <2>14, <2>15 DEF GetInv, Steps
  <2> QED BY <1>1, <2>5, <2>16, GetKept
<1> QED BY <1>5, <1>6, <1>7

\* Frames of the segment are asked for, as many as there are left of it.
LEMMA GetAsks ==
    ASSUME IndexInv, EntryRight(route, seg, entry), GetInv, GetFrames
    PROVE  ReaderInv'
<1>1. /\ route.typ \in {"hevc", "h264", "mp4"} /\ DOMAIN pc = Threads /\ todo \in [Threads -> Seq(Nat)]
      /\ pc["main"] = "ready"
  BY DEF GetInv, IndexInv, GetFrames
<1>2. Count = Frames /\ Frames \in Nat \ {0}
  BY <1>1, LoadedFacts
<1>3. PICK num \in 1 .. Count, count \in {1, 2} :
           /\ num + count - 1 <= Count
           /\ todo' = [todo EXCEPT !["main"] = [i \in 1 .. count |-> num + i - 1]]
           /\ from' = num
  BY DEF GetFrames
<1>4. /\ GoTo("main", "in") /\ got' = <<>>
      /\ UNCHANGED <<disk, opened, frames, open, last, raised, decoder>>
  BY DEF GetFrames
<1>5. UNCHANGED <<disk, opened, lru, open, last, raised>>
  BY <1>4 DEF frames
<1>6. UNCHANGED <<route, cache, seg, use, entry, Pics, Frames, Held>>
  BY <1>5, SamePictures
<1>7. DOMAIN pc' = Threads /\ pc'["main"] = "in" /\ pc'["ahead"] = pc["ahead"]
  BY <1>1, <1>4, Moved DEF Threads
<1>8. PICK list : list = [i \in 1 .. count |-> num + i - 1]
  OBVIOUS
<1>9. num \in Nat \ {0} /\ count \in Nat \ {0} /\ num + count <= Frames + 1
  BY <1>2, <1>3
<1>10. \A i \in 1 .. count : num + i - 1 \in 1 .. Frames
  BY <1>2, <1>9
<1>11. list \in Seq(1 .. Frames) /\ Len(list) = count /\ \A i \in 1 .. Len(list) : list[i] = num + i - 1
  BY <1>8, <1>9, <1>10
<1>12. list # <<>> /\ list \in Seq(Nat)
  <2>1. PICK S : S = 1 .. Frames
    OBVIOUS
  <2>2. list \in Seq(S) /\ S \subseteq Nat
    BY <1>11, <2>1
  <2> QED BY <1>9, <1>11, <2>2, SeqMonotonic
<1>13. todo'["main"] = list /\ todo'["ahead"] = todo["ahead"] /\ todo' \in [Threads -> Seq(Nat)]
  BY <1>1, <1>3, <1>8, <1>12 DEF Threads
<1>14. TodoRight("main")' /\ TodoRight("ahead")'
  <2>1. TodoRight("main")'
    BY <1>6, <1>11, <1>12, <1>13 DEF TodoRight
  <2>2. TodoRight("ahead")'
    BY <1>6, <1>7, <1>13 DEF GetInv, TodoRight
  <2> QED BY <2>1, <2>2
<1>15. GotRight'
  <2>1. Len(got') = 0 /\ got' \in Seq(Nat)
    BY <1>4
  <2> QED BY <1>2, <1>3, <1>6, <1>9, <2>1 DEF GotRight
<1>16. \A i \in 1 .. Len(todo'["main"]) : todo'["main"][i] = from' + Len(got') + i - 1
  <2>1. from' + Len(got') = num
    BY <1>3, <1>4, <1>9
  <2> QED BY <1>11, <1>13, <2>1
<1>17. /\ use' \in {"get", "ahead", "behind"} /\ route'.typ \in {"hevc", "h264", "mp4"}
       /\ lru' \in Seq(Held') /\ Len(lru') <= CacheSize /\ last' \in Nat /\ last' <= Frames' + 1
       /\ raised' \in {"no", "KeyError"} /\ (raised' = "KeyError" => use' # "get")
  BY <1>5, <1>6 DEF GetInv
<1>18. /\ pc'["ahead"] \in Steps \cup {"loop", "wait", "woken", "dead"}
       /\ (use' = "get" => pc'["ahead"] = "dead")
       /\ (pc'["ahead"] = "woken" => ~ open' \/ last' >= 2)
  BY <1>5, <1>6, <1>7 DEF GetInv
<1>19. GetInv'
  BY <1>7, <1>13, <1>14, <1>15, <1>16, <1>17, <1>18 DEF GetInv, Steps
<1> QED BY <1>4, <1>7, <1>19, GetKept

\* The end of a get, and of close(), notify the thread that reads ahead.
LEMMA GetNotifies ==
    ASSUME IndexInv, EntryRight(route, seg, entry), GetInv, Return \/ CloseNotify
    PROVE  ReaderInv'
<1>1. PICK step : /\ step \in {"ready", "join"} /\ pc' = [Notified EXCEPT !["main"] = step]
                  /\ (step = "ready" => Return) /\ (step = "join" => CloseNotify)
  BY DEF Return, CloseNotify
<1>2. /\ (step = "ready" => pc["main"] = "got" /\ last' = from + Len(got))
      /\ (step = "join" => pc["main"] = "notify" /\ last' = last)
      /\ UNCHANGED <<disk, opened, todo, frames, open, from, got, raised, decoder, gets>>
  BY <1>1 DEF Return, CloseNotify, reader
<1>3. UNCHANGED <<disk, opened, todo, lru, open, from, got, raised>>
  BY <1>2 DEF frames
<1>4. UNCHANGED <<route, cache, seg, use, entry, Pics, Frames, Held>>
  BY <1>3, SamePictures
<1>5. UNCHANGED <<todo, lru, open, from, got, raised>> /\ DOMAIN pc = Threads
  BY <1>3 DEF IndexInv
<1>6. DOMAIN pc' = Threads /\ pc'["main"] = step /\ pc'["ahead"] = (IF pc["ahead"] = "wait" THEN "woken" ELSE pc["ahead"])
  BY <1>1, <1>5, NotifiedFacts DEF Threads
<1>7. /\ from \in Nat \ {0} /\ got \in Seq(Nat) /\ from + Len(got) <= Frames + 1 /\ last \in Nat /\ last <= Frames + 1
  BY DEF GetInv, GotRight
<1>8. /\ last' \in Nat /\ last' <= Frames' + 1
      /\ (step = "ready" => last' >= 2) /\ (step = "join" => ~ open')
  <2>1. CASE step = "ready"
    <3>1. got # <<>>
      BY <1>2, <2>1 DEF GetInv
    <3>2. PICK n \in Nat : n = Len(got) /\ n # 0
      BY <1>7, <3>1, EmptySeq
    <3> QED BY <1>2, <1>4, <1>7, <2>1, <3>2
  <2>2. CASE step = "join"
    BY <1>2, <1>4, <1>5, <1>7, <2>2 DEF GetInv
  <2> QED BY <1>1, <2>1, <2>2
<1>9. TodoRight("main")' /\ TodoRight("ahead")'
  BY <1>1, <1>4, <1>5, <1>6 DEF GetInv, TodoRight, Steps
<1>10. GotRight'
  BY <1>4, <1>5 DEF GetInv, GotRight
<1>11. /\ use' \in {"get", "ahead", "behind"} /\ route'.typ \in {"hevc", "h264", "mp4"}
       /\ lru' \in Seq(Held') /\ Len(lru') <= CacheSize /\ todo' \in [Threads -> Seq(Nat)]
       /\ raised' \in {"no", "KeyError"} /\ (raised' = "KeyError" => use' # "get")
  BY <1>4, <1>5 DEF GetInv
<1>12. /\ pc'["ahead"] \in Steps \cup {"loop", "wait", "woken", "dead"}
       /\ (use' = "get" => pc'["ahead"] = "dead")
       /\ (pc'["ahead"] = "woken" => ~ open' \/ last' >= 2)
  BY <1>1, <1>4, <1>6, <1>8 DEF GetInv, Steps
<1>13. GetInv'
  BY <1>1, <1>6, <1>8, <1>9, <1>10, <1>11, <1>12 DEF GetInv, Steps
<1> QED BY <1>2, <1>6, <1>13, GetKept

\* close() and its end.
LEMMA GetCloses ==
    ASSUME IndexInv, EntryRight(route, seg, entry), GetInv, Close \/ Join
    PROVE  ReaderInv'
<1>1. PICK step : /\ step \in {"notify", "done"} /\ GoTo("main", step) /\ (open' => open)
                  /\ (step = "notify" => ~ open')
                  /\ UNCHANGED <<disk, opened, todo, frames, last, from, got, raised, decoder, gets>>
  BY DEF Close, Join, reader
<1>2. UNCHANGED <<disk, opened, todo, lru, from, got, last>> /\ raised' = raised /\ (open' => open)
  BY <1>1 DEF frames
<1>3. PICK t \in Threads : t = "main"
  BY DEF Threads
<1>4. GoTo(t, step) /\ MayGo(t, step)
  BY <1>1, <1>3 DEF MayGo, Steps
<1> QED BY <1>2, <1>4, GetGoes

\* The invariant is kept by a reader and its thread.
LEMMA GetSteps ==
    ASSUME IndexInv, EntryRight(route, seg, entry), GetInv, ReaderNext
    PROVE  ReaderInv'
<1>1. /\ DOMAIN pc = Threads /\ pc["main"] \in Steps \cup {"ready", "got", "notify", "join", "done"}
      /\ route.typ # "mkv"
  BY DEF IndexInv, GetInv
<1>2. CASE ReaderStep("main") \/ ReaderStep("ahead")
  BY <1>2, GetLooksIn, GetLocks, GetTakes, GetFetches DEF ReaderStep, Threads
<1>3. CASE AheadWait \/ AheadWoken
  BY <1>3, GetAhead
<1>4. CASE Return \/ CloseNotify
  BY <1>4, GetNotifies
<1>5. CASE Close \/ Join
  BY <1>5, GetCloses
<1>6. CASE GetFrames
  BY <1>6, GetAsks
<1>7. CASE Restart
  BY <1>7, ReaderRestarts
<1>8. ~ (IndexStep \/ Open \/ IterStep \/ MkvStep \/ FeedFrames)
  BY <1>1 DEF Steps, IndexStep, Open, MakeIndex, OpenRaw, IndexFile, IndexRoute, WriteIndex, LoadIndex, FeedFrames,
              IterStep, IterWrite, IterEos, IterRead, IterEnd, MkvStep, GetMkv, IterMkv, IterMkvEnd
<1> QED BY <1>2, <1>3, <1>4, <1>5, <1>6, <1>7, <1>8 DEF ReaderNext, Step, MainStep, AheadStep

\* Nothing is wrong with what has not been read.
LEMMA UnreadRight ==
    ASSUME IndexInv, Unread
    PROVE  FramesRight /\ GetsSucceed
<1>1. lru = <<>> /\ got = <<>> /\ raised # "assert" /\ raised # "KeyError"
  BY DEF Unread
<1>2. FramesRight
  <2>1. ToSet(lru) = {} /\ DOMAIN got = {}
    BY <1>1 DEF ToSet
  <2> QED BY <2>1 DEF FramesRight
<1>3. GetsSucceed
  BY <1>1 DEF GetsSucceed
<1> QED BY <1>2, <1>3

\* What a reader of frames keeps is enough for the properties.
LEMMA GetRight ==
    ASSUME IndexInv, EntryRight(route, seg, entry), GetInv
    PROVE  FramesRight /\ GetsSucceed
<1>1. /\ use \in {"get", "ahead", "behind"} /\ route.typ # "mkv" /\ lru \in Seq(Held) /\ GotRight
      /\ raised \in {"no", "KeyError"} /\ (raised = "KeyError" => use # "get")
  BY DEF GetInv
<1>2. \A k : FrameOf(seg, k) = Pics[k].frame
  BY <1>1 DEF FrameOf, Pics
<1>3. \A e \in ToSet(lru) : e.frame = FrameOf(seg, e.num)
  <2>1. SUFFICES ASSUME NEW e \in ToSet(lru) PROVE e.frame = FrameOf(seg, e.num)
    OBVIOUS
  <2>2. e \in Held
    BY <1>1 DEF ToSet
  <2> QED BY <1>2, <2>2 DEF Held
<1>4. \A i \in DOMAIN got : got[i] = FrameOf(seg, from + i - 1)
  <2>1. got \in Seq(Nat) /\ \A i \in 1 .. Len(got) : got[i] = Pics[from + i - 1].frame
    BY <1>1 DEF GotRight
  <2>2. DOMAIN got = 1 .. Len(got)
    BY <2>1
  <2> QED BY <1>2, <2>1, <2>2
<1>5. FramesRight
  BY <1>1, <1>3, <1>4 DEF FramesRight
<1>6. GetsSucceed
  BY <1>1 DEF GetsSucceed
<1> QED BY <1>5, <1>6

\* So is what a reader of an MKV file keeps.
LEMMA MkvRight ==
    ASSUME MkvInv
    PROVE  FramesRight /\ GetsSucceed
<1>1. /\ use \in {"get", "iterate"} /\ route.typ = "mkv" /\ lru = <<>> /\ got \in Seq(Nat)
      /\ (\A i \in 1 .. Len(got) : got[i] = from + i - 1) /\ raised \in {"no", "TypeError"}
  BY DEF MkvInv
<1>2. \A k : FrameOf(seg, k) = k
  BY <1>1 DEF FrameOf
<1>3. ToSet(lru) = {}
  BY <1>1 DEF ToSet
<1>4. \A i \in DOMAIN got : got[i] = FrameOf(seg, from + i - 1)
  BY <1>1, <1>2
<1>5. FramesRight
  BY <1>1, <1>3, <1>4 DEF FramesRight
<1>6. GetsSucceed
  BY <1>1 DEF GetsSucceed
<1> QED BY <1>5, <1>6

\* So is what an iteration keeps.
LEMMA IterRight ==
    ASSUME IndexInv, EntryRight(route, seg, entry), IterInv
    PROVE  FramesRight /\ GetsSucceed
<1>1. /\ use = "iterate" /\ route.typ \in {"hevc", "h264", "mp4"} /\ lru = <<>> /\ from = 1 /\ raised = "no"
      /\ got \in Seq(Nat) /\ (\A i \in 1 .. Len(got) : got[i] = Yielded(i))
  BY DEF IterInv
<1>2. \A k : FrameOf(seg, k) = Pics[k].frame
  BY <1>1 DEF FrameOf, Pics
<1>3. ToSet(lru) = {}
  BY <1>1 DEF ToSet
<1>4. FrameCount(entry) = Frames
  BY <1>1, LoadedFacts
<1>5. ASSUME NEW i \in DOMAIN got
      PROVE  IF use = "iterate" /\ route.typ = "mp4" /\ i >= FrameCount(entry)
             THEN got[i] = FrameOf(seg, LookupGop(entry.index, FrameCount(entry)).b + i - FrameCount(entry))
             ELSE got[i] = FrameOf(seg, from + i - 1)
  <2>1. i \in 1 .. Len(got) /\ from + i - 1 = i
    BY <1>1
  <2>2. got[i] = Yielded(i)
    BY <1>1, <2>1
  <2>3. CASE route.typ = "mp4" /\ i >= Frames
    <3>1. got[i] = Pics[LookupGop(entry.index, Frames).b + i - Frames].frame
      BY <2>2, <2>3 DEF Yielded
    <3> QED BY <1>1, <1>2, <1>4, <2>3, <3>1
  <2>4. CASE ~ (route.typ = "mp4" /\ i >= Frames)
    <3>1. got[i] = Pics[i].frame
      BY <2>2, <2>4 DEF Yielded
    <3> QED BY <1>1, <1>2, <1>4, <2>1, <2>4, <3>1
  <2> QED BY <2>3, <2>4
<1>6. FramesRight
  BY <1>3, <1>5 DEF FramesRight
<1>7. GetsSucceed
  BY <1>1 DEF GetsSucceed
<1> QED BY <1>6, <1>7

\* The invariant implies the properties.
LEMMA ReaderRight ==
    ASSUME ReaderInv
    PROVE  FramesRight /\ GetsSucceed
<1>1. IndexInv
  BY DEF ReaderInv
<1>2. CASE Unread
  BY <1>1, <1>2, UnreadRight
<1>3. CASE EntryRight(route, seg, entry) /\ (GetInv \/ MkvInv \/ IterInv)
  BY <1>1, <1>3, GetRight, MkvRight, IterRight
<1> QED BY <1>2, <1>3 DEF ReaderInv

\* Where nothing changes the invariant stays.
LEMMA ReaderStays ==
    ASSUME ReaderInv, UNCHANGED readerVars
    PROVE  ReaderInv'
<1>1. UNCHANGED <<disk, opened, pc, todo, frames, reader, decoder>>
  BY DEF readerVars
<1>2. UNCHANGED <<route, cache, seg, use, entry, toWrite, Pics, Frames, Held>>
  <2>1. UNCHANGED <<disk, opened>>
    BY <1>1
  <2> QED BY <2>1, SamePictures DEF opened
<1>3. UNCHANGED <<pc, todo, lru, open, last, from, got, raised>>
  BY <1>1 DEF frames, reader
<1>4. UNCHANGED <<fed, ended, work, read, written>>
  BY <1>1 DEF decoder
<1>5. IndexInv'
  BY <1>2, <1>3 DEF ReaderInv, IndexInv, Segs
<1>6. Unread => Unread'
  BY <1>2, <1>3, <1>4 DEF Unread, WayRight
<1>7. GetInv => GetInv'
  BY <1>2, <1>3 DEF GetInv, GotRight, TodoRight, Has
<1>8. MkvInv => MkvInv'
  BY <1>2, <1>3 DEF MkvInv
<1>9. IterInv => IterInv'
  <2>1. \A i : Yielded(i)' = Yielded(i)
    BY <1>2 DEF Yielded
  <2>2. \A s : Behind(s)' <=> Behind(s)
    BY <1>3, <1>4, <2>1 DEF Behind
  <2> QED BY <1>2, <1>3, <1>4, <2>1, <2>2 DEF IterInv
<1> QED BY <1>2, <1>5, <1>6, <1>7, <1>8, <1>9 DEF ReaderInv

\* The invariant holds in every state of the reader.
THEOREM ReaderInvAlways == ReaderSpec => []ReaderInv
<1>1. ReaderInit => ReaderInv
  BY ReaderStarts
<1>2. ReaderInv /\ [ReaderNext]_readerVars => ReaderInv'
  <2>1. SUFFICES ASSUME ReaderInv, ReaderNext PROVE ReaderInv'
    BY ReaderStays
  <2>2. IndexInv
    BY <2>1 DEF ReaderInv
  <2>3. CASE Unread
    BY <2>1, <2>2, <2>3, UnreadSteps
  <2>4. CASE EntryRight(route, seg, entry) /\ (GetInv \/ MkvInv \/ IterInv)
    BY <2>1, <2>2, <2>4, GetSteps, MkvSteps, IterSteps
  <2> QED BY <2>1, <2>3, <2>4 DEF ReaderInv
<1> QED BY <1>1, <1>2, PTL DEF ReaderSpec

\* Every frame that is cached, returned or yielded is the frame of its number, for every route,
\* cache size and read-ahead (framereader.py:928-1214).
THEOREM FramesRightAlways == ReaderSpec => []FramesRight
<1>1. ReaderInv => FramesRight
  BY ReaderRight
<1> QED BY <1>1, ReaderInvAlways, PTL

\* What a caller asks for within the video it gets, unless the thread that reads ahead took its
\* place in the cache meanwhile (framereader.py:985-1002).
THEOREM GetsSucceedAlways == ReaderSpec => []GetsSucceed
<1>1. ReaderInv => GetsSucceed
  BY ReaderRight
<1> QED BY <1>1, ReaderInvAlways, PTL

\* Every index on disk is the one that a program makes which finds nothing there and does not die,
\* however often programs died between writing two of them (framereader.py:326-414).
THEOREM IndexesAgreeAlways == ReaderSpec => []IndexesAgree
<1>1. ReaderInv => IndexesAgree
  BY DEF ReaderInv, IndexInv, EntryRight, IndexesAgree, Cached
<1> QED BY <1>1, ReaderInvAlways, PTL

\* The ways of reading, and what goes wrong.
Uses == {"none", "get", "ahead", "behind", "iterate", "feed"}
Errors == {"no", "unreadable", "assert", "KeyError", "TypeError", "NameError"}

\* What of the types does not follow from the invariant.
Bounded ==
    /\ python2 \in BOOLEAN /\ use \in Uses /\ raised \in Errors
    /\ lock \in Threads \cup {"free"} /\ gets \in 0 .. Gets
    /\ Len(work) <= InFlight /\ read \in Nat

\* What goes wrong is one of the exceptions.
LEMMA FailBounded ==
    ASSUME raised \in Errors, NEW t, NEW what \in Errors, Fail(t, what) \/ UNCHANGED raised
    PROVE  raised' \in Errors
BY DEF Fail

\* Opening and indexing keep the types.
LEMMA IndexBounded ==
    ASSUME Bounded, IndexStep \/ Open \/ FeedFrames
    PROVE  Bounded'
<1>1. UNCHANGED <<python2, lock, gets, work, read>>
  BY DEF IndexStep, Open, FeedFrames, decoder, MakeIndex, OpenRaw, IndexFile, IndexRoute, WriteIndex, LoadIndex, disk, frames
<1>2. use' \in Uses
  BY DEF Bounded, Uses, IndexStep, Open, FeedFrames, MakeIndex, OpenRaw, IndexFile, IndexRoute, WriteIndex, LoadIndex, opened
<1>3. raised' \in Errors
  BY FailBounded DEF Bounded, Errors, Fail, IndexStep, Open, FeedFrames, MakeIndex, OpenRaw, IndexFile, IndexRoute, WriteIndex, LoadIndex, reader
<1> QED BY <1>1, <1>2, <1>3 DEF Bounded, decoder

\* The steps of the threads that get frames keep the types.
LEMMA StepsBounded ==
    ASSUME Bounded, NEW t \in Threads, ReaderStep(t)
    PROVE  Bounded'
<1>1. UNCHANGED <<python2, use, gets, decoder>>
  BY DEF ReaderStep, LookIn, Take, Lock, Fetch, disk, opened
<1>2. lock' \in Threads \cup {"free"}
  BY DEF Bounded, ReaderStep, LookIn, Take, Lock, Fetch, frames
<1>3. raised' \in Errors
  <2>1. CASE LookIn(t) \/ Lock(t)
    BY <2>1 DEF Bounded, LookIn, Lock, reader
  <2>2. CASE Take(t)
    BY <2>2 DEF Bounded, Errors, Take, Fail
  <2>3. CASE Fetch(t)
    BY <2>3 DEF Bounded, Errors, Fetch, Fail, PutGop
  <2> QED BY <2>1, <2>2, <2>3 DEF ReaderStep
<1> QED BY <1>1, <1>2, <1>3 DEF Bounded, decoder

\* Their other steps do.
LEMMA OthersBounded ==
    ASSUME Bounded, Return \/ Close \/ CloseNotify \/ Join \/ AheadWait \/ AheadWoken \/ GetFrames \/ IterMkvEnd
    PROVE  Bounded'
<1>1. UNCHANGED <<python2, use, lock, raised, decoder>>
  BY DEF Return, Close, CloseNotify, Join, AheadWait, AheadWoken, GetFrames, IterMkvEnd, disk, opened, frames, reader
<1>2. gets' \in 0 .. Gets
  BY FrameReaderAssumption DEF Bounded, Return, Close, CloseNotify, Join, AheadWait, AheadWoken, GetFrames, IterMkvEnd
<1> QED BY <1>1, <1>2 DEF Bounded, decoder

\* Reading an MKV file does.
LEMMA MkvBounded ==
    ASSUME Bounded, GetMkv \/ IterMkv
    PROVE  Bounded'
<1>1. UNCHANGED <<python2, use, lock, gets, decoder>>
  BY DEF GetMkv, IterMkv, disk, opened, frames
<1>2. raised' \in Errors
  BY DEF Bounded, Errors, GetMkv, IterMkv, ReadMkv, Fail
<1> QED BY <1>1, <1>2 DEF Bounded, decoder

\* An iteration writes one group of pictures more only if there are fewer than InFlight of them.
LEMMA IterBounded ==
    ASSUME Bounded, work \in Seq(Nat \X (Nat \ {0})), IterStep
    PROVE  Bounded'
<1>1. UNCHANGED <<python2, use, lock, gets>>
  BY DEF IterStep, IterWrite, IterEos, IterRead, IterEnd, disk, opened, frames
<1>2. raised' \in Errors
  BY DEF Bounded, Errors, IterStep, IterWrite, IterEos, IterRead, IterEnd, reader, Fail
<1>3. read' \in Nat
  BY DEF Bounded, IterStep, IterWrite, IterEos, IterRead, IterEnd, decoder
<1>4. Len(work') <= InFlight
  <2>1. CASE work' = work
    BY <2>1 DEF Bounded
  <2>2. CASE IterWrite /\ work' # work
    <3>1. PICK pair : work' = Append(work, pair)
      BY <2>2 DEF IterWrite
    <3>2. Len(work) < InFlight /\ Len(work') = Len(work) + 1 /\ Len(work) \in Nat
      BY <2>2, <3>1 DEF IterWrite
    <3> QED BY <3>2, FrameReaderAssumption
  <2>3. CASE IterRead
    <3>1. \/ work' = Tail(work)
          \/ \E pair : work' = [work EXCEPT ![1] = pair]
      BY <2>3 DEF IterRead
    <3>2. work # <<>> /\ Len(work) <= InFlight
      BY <2>3 DEF IterRead, Bounded
    <3> QED BY <3>1, <3>2, FrameReaderAssumption
  <2> QED BY <2>1, <2>2, <2>3 DEF IterStep, IterEos, IterEnd, decoder
<1> QED BY <1>1, <1>2, <1>3, <1>4 DEF Bounded

\* A new program does.
LEMMA RestartBounded ==
    ASSUME Bounded, Restart
    PROVE  Bounded'
<1>1. /\ python2' = python2 /\ use' = "none" /\ raised' = "no" /\ lock' = "free" /\ gets' = 0
      /\ work' = <<>> /\ read' = 0
  BY DEF Restart, disk
<1>2. Len(work') <= InFlight /\ gets' \in 0 .. Gets
  BY <1>1, FrameReaderAssumption
<1> QED BY <1>1, <1>2 DEF Bounded, Uses, Errors

\* Every variable of the reader has its type, the cache of frames no more than CacheSize of them and
\* the decoder no more than InFlight groups of pictures (framereader.py:1039-1075).
THEOREM ReaderTypesAlways == ReaderSpec => []ReaderTypeOK
<1>1. ReaderInit => Bounded
  <2>1. SUFFICES ASSUME ReaderInit PROVE Bounded
    OBVIOUS
  <2>2. /\ python2 \in BOOLEAN /\ use = "none" /\ raised = "no" /\ lock = "free" /\ gets = 0
        /\ work = <<>> /\ read = 0
    BY <2>1 DEF ReaderInit
  <2>3. Len(work) <= InFlight /\ gets \in 0 .. Gets
    BY <2>2, FrameReaderAssumption
  <2> QED BY <2>2, <2>3 DEF Bounded, Uses, Errors
<1>2. Bounded /\ ReaderInv /\ ReaderInv' /\ [ReaderNext]_readerVars => Bounded'
  <2>1. CASE UNCHANGED readerVars
    <3>1. UNCHANGED readerVars => UNCHANGED <<python2, use, raised, lock, gets, work, read>>
      BY DEF readerVars, disk, opened, frames, reader, decoder
    <3> QED BY <2>1, <3>1 DEF Bounded
  <2>2. SUFFICES ASSUME Bounded, ReaderInv, ReaderInv', ReaderNext PROVE Bounded'
    BY <2>1
  <2>3. CASE IterStep
    <3>1. pc["main"] = "iterate"
      BY <2>3 DEF IterStep, IterWrite, IterEos, IterRead, IterEnd
    <3>2. work \in Seq(Nat \X (Nat \ {0}))
      BY <2>2, <3>1 DEF ReaderInv, Unread, GetInv, Steps, MkvInv, IterInv
    <3> QED BY <2>2, <2>3, <3>2, IterBounded
  <2> QED BY <2>2, <2>3, IndexBounded, StepsBounded, OthersBounded, MkvBounded, RestartBounded
          DEF ReaderNext, Step, MainStep, AheadStep, MkvStep, Threads
<1>3. ReaderInv /\ Bounded => ReaderTypeOK
  <2>1. SUFFICES ASSUME ReaderInv, Bounded PROVE ReaderTypeOK
    OBVIOUS
  <2>2. route \in Routes /\ seg \in Segs
    BY <2>1 DEF ReaderInv, IndexInv
  <2>3. Len(lru) <= CacheSize
    <3>1. lru = <<>> \/ Len(lru) <= CacheSize
      BY <2>1 DEF ReaderInv, Unread, GetInv, MkvInv, IterInv
    <3> QED BY <3>1, FrameReaderAssumption
  <2>4. pc["main"] \in {"start", "index", "route", "write", "iterate", "each", "feed", "ready", "in", "take", "lock",
                        "locked", "got", "notify", "join", "done"}
    BY <2>1 DEF ReaderInv, Unread, GetInv, Steps, MkvInv, IterInv
  <2>5. pc["ahead"] \in {"none", "loop", "wait", "woken", "in", "take", "lock", "locked", "dead"}
    BY <2>1 DEF ReaderInv, Unread, GetInv, Steps, MkvInv, IterInv
  <2> QED BY <2>1, <2>2, <2>3, <2>4, <2>5 DEF ReaderTypeOK, Bounded, Uses, Errors
<1> QED BY <1>1, <1>2, <1>3, ReaderInvAlways, PTL DEF ReaderSpec
=============================================================================
