------------------------------ MODULE ProverProofs ------------------------------
(***************************************************************************)
(* Whatever the number of proofs, and in whatever order workers and        *)
(* process_queue finish the items: a commitment in the transcript is of    *)
(* the polynomial that is stored under its name, every proof is blinded    *)
(* afresh (ProverInv, the first half), and the verifier accepts what is    *)
(* exported (AcceptInv, the second half).                                  *)
(***************************************************************************)
EXTENDS Prover, LeastElements, FiniteSetTheorems, SequenceTheorems, TLAPS

-----------------------------------------------------------------------------
(***************************************************************************)
(* The invariant: of a transcript t and a store s in round r of proof k,   *)
(* with the queue q.                                                       *)
(***************************************************************************)
FirstWires == {"w_1", "w_2", "w_3"}
AllWires   == {"w_1", "w_2", "w_3", "w_4"}

\* The round after which a polynomial stays what it is until the next proof.
FinalFrom == [w_1 |-> 2, w_2 |-> 2, w_3 |-> 2, w_4 |-> 3, s |-> 3, z_perm |-> 4, z_lookup |-> 4]

InLagrange(w) == <<"lagrange", w>>
InMonomial(p) == <<"monomial", p>>

IsTranscript(t) ==
    t = [ elements          |-> t.elements,
          current_round     |-> t.current_round,
          current_challenge |-> t.current_challenge,
          challenges        |-> t.challenges ]

IsWire(w) == w = [wire |-> w.wire, blind |-> w.blind, etas |-> w.etas]

\* The wires are stored, and so is what is final.
Stored(s, r) ==
    /\ \A w \in AllWires : InLagrange(w) \in DOMAIN s /\ IsWire(s[InLagrange(w)])
    /\ \A p \in Polys : r >= FinalFrom[p] => InMonomial(p) \in DOMAIN s

\* A commitment in the transcript is of a polynomial that is final and stored.
Bound(t, s, r) ==
    \A p \in Polys : Label[p] \in DOMAIN t.elements =>
        r >= FinalFrom[p] /\ t.elements[Label[p]] = s[InMonomial(p)]

\* So will be a commitment that is queued; the wires are transformed before
\* any of them is.
ItemFits(item, s, r) ==
    \/ /\ item.work_type = "SCALAR_MULTIPLICATION"
       /\ \A p \in Polys : item.tag = Label[p] =>
            r >= FinalFrom[p] /\ item.scalars = s[InMonomial(p)]
    \/ item.work_type = "IFFT" /\ item.tag \in FirstWires /\ r = 1
    \/ item.work_type = "FFT"

\* Of the proof being made, the wires are blinded from the first round on, and
\* what is final is.
Blinded(s, r, k) ==
    /\ r \in 1 .. 7 => \A w \in FirstWires : s[InLagrange(w)].blind = k
    /\ \A p \in Polys : r \in FinalFrom[p] .. 7 => s[InMonomial(p)].blind = k

\* What holds of a transcript and a store between any two results.
Sound(t, s, q, r, k) ==
    /\ IsTranscript(t)
    /\ Stored(s, r)
    /\ Bound(t, s, r)
    /\ \A n \in DOMAIN q : ItemFits(q[n], s, r)
    /\ Blinded(s, r, k)

\* The monomial form of a wire is blinded, unless an item of the queue that is
\* still to come will bring it; todo are the places of those items.
Transformed(s, q, r, k, todo) ==
    r = 1 => \A w \in FirstWires :
        \/ \E n \in todo : q[n].work_type = "IFFT" /\ q[n].tag = w
        \/ InMonomial(w) \in DOMAIN s /\ s[InMonomial(w)].blind = k

Unhandled == {n \in DOMAIN queue : <<queue[n].work_type, Number(n)>> \notin handled}

\* Workers hold items of the queue, each at most one, and the right results.
WorkersSound ==
    \A r \in inflight :
        /\ r.item = <<r.item[1], r.item[2]>>
        /\ r.item[1] \in WorkerTypes /\ r.item[2] \in NumbersOf(r.item[1])
        /\ r.item \notin handled
        /\ \A q \in inflight : q.item = r.item => q = r
        /\ r.result = Computed(Target(r), store)

\* The proofs so far: of each one, the blinding is its own.
ProofsBlinded ==
    /\ \E S : proofs \in Seq(S)
    /\ \A k \in DOMAIN proofs : \A i \in DOMAIN ProofNames :
            ProofNames[i] \in Commitments => proofs[k][i].blind = k

ProverInv ==
    /\ TypeOK
    /\ Len(queue) \in Nat /\ DOMAIN queue = 1 .. Len(queue)
    /\ round \in 1 .. 7 => Len(proofs) < MaxProofs
    /\ round = 8 => queue = << >>
    /\ Sound(transcript, store, queue, round, ThisProof)
    /\ Transformed(store, queue, round, ThisProof, Unhandled)
    /\ WorkersSound
    /\ ProofsBlinded

-----------------------------------------------------------------------------
LEMMA PolysAre == Polys = {"w_1", "w_2", "w_3", "w_4", "s", "z_perm", "z_lookup"}
BY DEF Polys, PolyNames, ToSet

LEMMA LabelsDiffer == \A p, q \in Polys : Label[p] = Label[q] => p = q
BY PolysAre DEF Label

LEMMA FinalRounds ==
    /\ \A p \in Polys : FinalFrom[p] \in {2, 3, 4}
    /\ FirstWires \subseteq AllWires /\ AllWires \subseteq Polys
BY PolysAre DEF FinalFrom, FirstWires, AllWires

\* What put changes in a store.
LEMMA PutAt ==
    ASSUME NEW form, NEW name, NEW poly, NEW s
    PROVE  LET v == Put(form, name, poly, s)
           IN  /\ <<form, name>> \in DOMAIN v /\ v[<<form, name>>] = poly
               /\ \A x \in DOMAIN s : x \in DOMAIN v /\ (x # <<form, name>> => v[x] = s[x])
BY DEF Put, Over

\* What add_element changes in a transcript.
LEMMA AddAt ==
    ASSUME NEW t, IsTranscript(t), NEW name, NEW value
    PROVE  LET u == add_element(t, name, value)
           IN  /\ IsTranscript(u)
               /\ u.current_round = t.current_round
               /\ u.challenges = t.challenges
               /\ name \in DOMAIN u.elements
               /\ \A x \in DOMAIN t.elements : x \in DOMAIN u.elements /\ u.elements[x] = t.elements[x]
               /\ \A x \in DOMAIN u.elements \ DOMAIN t.elements : x = name /\ u.elements[x] = value
<1> DEFINE u == add_element(t, name, value)
<1>1. u = [ elements          |-> Inserted(t.elements, name, value),
            current_round     |-> t.current_round,
            current_challenge |-> t.current_challenge,
            challenges        |-> t.challenges ]
  BY DEF IsTranscript, add_element
<1>2. u.elements = Inserted(t.elements, name, value)
  BY <1>1
<1>3. IsTranscript(u) /\ u.current_round = t.current_round /\ u.challenges = t.challenges
  BY <1>1 DEF IsTranscript
<1> HIDE DEF u
<1>4. /\ name \in DOMAIN u.elements
      /\ \A x \in DOMAIN t.elements : x \in DOMAIN u.elements /\ u.elements[x] = t.elements[x]
      /\ \A x \in DOMAIN u.elements \ DOMAIN t.elements : x = name /\ u.elements[x] = value
  BY <1>2 DEF Inserted
<1> QED BY <1>3, <1>4 DEF u

\* What \o yields.
IsJoin(q, f, g) ==
    /\ Len(q) = Len(f) + Len(g)
    /\ \A i \in 1 .. Len(f) + Len(g) : q[i] = IF i <= Len(f) THEN f[i] ELSE g[i - Len(f)]

LEMMA Joined ==
    ASSUME NEW S, NEW f \in Seq(S), NEW g \in Seq(S)
    PROVE  f \o g \in Seq(S) /\ IsJoin(f \o g, f, g)
BY ConcatProperties, Zenon DEF IsJoin

LEMMA FourAndFour ==
    ASSUME NEW S, NEW f, NEW g, NEW q \in Seq(S), IsJoin(q, f, g), Len(f) = 4, Len(g) = 4
    PROVE  /\ DOMAIN q = 1 .. 8 /\ Len(q) = 8
           /\ \A n \in 1 .. 4 : q[n] = f[n] /\ q[n + 4] = g[n]
<1>1. DOMAIN q = 1 .. 8 /\ Len(q) = 8
  BY DEF IsJoin
<1>2. \A i \in 1 .. 8 : q[i] = IF i <= 4 THEN f[i] ELSE g[i - 4]
  BY DEF IsJoin
<1>3. ASSUME NEW n \in 1 .. 4 PROVE q[n] = f[n] /\ q[n + 4] = g[n]
  <2>1. n \in 1 .. 8 /\ n + 4 \in 1 .. 8 /\ n <= 4 /\ ~ n + 4 <= 4 /\ (n + 4) - 4 = n
    OBVIOUS
  <2> QED BY <1>2, <2>1
<1> QED BY <1>1, <1>3

-----------------------------------------------------------------------------
(***************************************************************************)
(* The result of an item, whoever computed it and whatever came before it. *)
(***************************************************************************)
\* ts is what an item makes of a transcript and a store.
ResultFits(ts, t, s, item, q, r, k) ==
    /\ ts = [t |-> ts.t, s |-> ts.s]
    /\ Sound(ts.t, ts.s, q, r, k)
    /\ ts.t.current_round = t.current_round
    /\ \A w \in AllWires : ts.s[InLagrange(w)] = s[InLagrange(w)]
    /\ \A w \in FirstWires :
         /\ r = 1
         /\ \/ InMonomial(w) \in DOMAIN s /\ s[InMonomial(w)].blind = k
            \/ item.work_type = "IFFT" /\ item.tag = w
         => InMonomial(w) \in DOMAIN ts.s /\ ts.s[InMonomial(w)].blind = k

LEMMA ResultIsSound ==
    ASSUME NEW t, NEW s, NEW q, NEW r \in 0 .. 8, NEW k, Sound(t, s, q, r, k),
           NEW n \in DOMAIN q
    PROVE  ResultFits(Delivered(q[n], Computed(q[n], s), [t |-> t, s |-> s]), t, s, q[n], q, r, k)
<1> SUFFICES ASSUME NEW result, result = Computed(q[n], s),
                    NEW ts, ts = Delivered(q[n], result, [t |-> t, s |-> s])
             PROVE  ResultFits(ts, t, s, q[n], q, r, k)
  OBVIOUS
<1> DEFINE item == q[n]
<1>1. ItemFits(item, s, r)
  BY DEF Sound
<1>2. CASE item.work_type = "SCALAR_MULTIPLICATION"
  <2>1. /\ result = item.scalars
        /\ ts = [t |-> add_element(t, item.tag, result), s |-> s]
    BY <1>2 DEF Computed, Delivered
  <2>2. PICK u : u = add_element(t, item.tag, result)
    OBVIOUS
  <2>3. ts.t = u /\ ts.s = s /\ ts = [t |-> ts.t, s |-> ts.s]
    BY <2>1, <2>2
  <2>4. /\ IsTranscript(u) /\ u.current_round = t.current_round
        /\ \A x \in DOMAIN t.elements : x \in DOMAIN u.elements /\ u.elements[x] = t.elements[x]
        /\ \A x \in DOMAIN u.elements \ DOMAIN t.elements : x = item.tag /\ u.elements[x] = result
    BY <2>2, AddAt DEF Sound
  <2>5. ASSUME NEW p \in Polys, Label[p] \in DOMAIN u.elements
        PROVE  r >= FinalFrom[p] /\ u.elements[Label[p]] = s[InMonomial(p)]
    <3>1. CASE Label[p] \in DOMAIN t.elements
      BY <2>4, <3>1 DEF Sound, Bound
    <3>2. CASE Label[p] \notin DOMAIN t.elements
      <4>1. item.tag = Label[p] /\ u.elements[Label[p]] = result
        BY <2>4, <2>5, <3>2
      <4> QED BY <1>1, <1>2, <2>1, <4>1 DEF ItemFits
    <3> QED BY <3>1, <3>2
  <2>6. Sound(u, s, q, r, k)
    BY <2>4, <2>5 DEF Sound, Bound
  <2> QED BY <1>2, <2>3, <2>4, <2>6 DEF ResultFits
<1>3. CASE item.work_type = "IFFT"
  <2>1. item.tag \in FirstWires /\ r = 1
    BY <1>1, <1>3 DEF ItemFits
  <2>2. /\ result = s[InLagrange(item.tag)]
        /\ ts = [t |-> t, s |-> Put("monomial", item.tag, result, s)]
    BY <1>3 DEF Computed, Delivered, InLagrange
  <2>3. PICK v : v = Put("monomial", item.tag, result, s)
    OBVIOUS
  <2>4. ts.t = t /\ ts.s = v /\ ts = [t |-> ts.t, s |-> ts.s]
    BY <2>2, <2>3
  <2>5. /\ InMonomial(item.tag) \in DOMAIN v /\ v[InMonomial(item.tag)] = result
        /\ \A x \in DOMAIN s : x \in DOMAIN v /\ (x # InMonomial(item.tag) => v[x] = s[x])
    BY <2>3, PutAt DEF InMonomial
  <2>6. \A p \in Polys : ~ r >= FinalFrom[p] /\ r \notin FinalFrom[p] .. 7
    BY <2>1, FinalRounds
  <2>7. \A w \in AllWires : InLagrange(w) \in DOMAIN v /\ v[InLagrange(w)] = s[InLagrange(w)]
    <3>1. \A w \in AllWires : InLagrange(w) # InMonomial(item.tag) /\ InLagrange(w) \in DOMAIN s
      BY DEF Sound, Stored, InLagrange, InMonomial
    <3> QED BY <2>5, <3>1
  <2>8. Stored(v, r)
    BY <2>6, <2>7 DEF Sound, Stored
  <2>9. Bound(t, v, r) /\ \A m \in DOMAIN q : ItemFits(q[m], v, r)
    BY <2>6 DEF Sound, Bound, ItemFits
  <2>10. Blinded(v, r, k)
    BY <2>6, <2>7, FinalRounds DEF Sound, Blinded
  <2>11. Sound(t, v, q, r, k)
    BY <2>8, <2>9, <2>10 DEF Sound
  <2>12. result.blind = k
    BY <2>1, <2>2 DEF Sound, Blinded
  <2>13. ASSUME NEW w \in FirstWires, \/ InMonomial(w) \in DOMAIN s /\ s[InMonomial(w)].blind = k
                                      \/ item.tag = w
         PROVE  InMonomial(w) \in DOMAIN v /\ v[InMonomial(w)].blind = k
    <3>1. CASE item.tag = w
      BY <2>5, <2>12, <3>1
    <3>2. CASE item.tag # w
      <4>1. InMonomial(w) # InMonomial(item.tag)
        BY <3>2 DEF InMonomial
      <4> QED BY <2>5, <2>13, <3>2, <4>1
    <3> QED BY <3>1, <3>2
  <2> QED BY <2>4, <2>7, <2>11, <2>13 DEF ResultFits
<1>4. CASE item.work_type = "FFT"
  <2>0. PICK tag : tag = item.tag
    OBVIOUS
  <2>1. ts = [t |-> t, s |-> Put("fft", tag, result, s)]
    BY <1>4, <2>0 DEF Delivered
  <2>2. PICK v : v = Put("fft", tag, result, s)
    OBVIOUS
  <2>3. ts.t = t /\ ts.s = v /\ ts = [t |-> ts.t, s |-> ts.s]
    BY <2>1, <2>2
  <2>4. \A x \in DOMAIN s : x \in DOMAIN v /\ (x # <<"fft", tag>> => v[x] = s[x])
    BY <2>2 DEF Put, Over
  <2>5. \A p : /\ InMonomial(p) \in DOMAIN s => InMonomial(p) \in DOMAIN v /\ v[InMonomial(p)] = s[InMonomial(p)]
               /\ InLagrange(p) \in DOMAIN s => InLagrange(p) \in DOMAIN v /\ v[InLagrange(p)] = s[InLagrange(p)]
    BY <2>4 DEF InMonomial, InLagrange
  <2>6. \A p \in Polys : r >= FinalFrom[p] => InMonomial(p) \in DOMAIN v /\ v[InMonomial(p)] = s[InMonomial(p)]
    BY <2>5 DEF Sound, Stored
  <2>7. \A w \in AllWires : InLagrange(w) \in DOMAIN v /\ v[InLagrange(w)] = s[InLagrange(w)]
    BY <2>5 DEF Sound, Stored
  <2>8. Stored(v, r)
    BY <2>6, <2>7 DEF Sound, Stored
  <2>9. Bound(t, v, r)
    BY <2>6 DEF Sound, Bound
  <2>10. ASSUME NEW m \in DOMAIN q PROVE ItemFits(q[m], v, r)
    <3>1. ItemFits(q[m], s, r)
      BY DEF Sound
    <3> QED BY <2>6, <3>1 DEF ItemFits
  <2>11. Blinded(v, r, k)
    <3>1. \A p \in Polys : r \in FinalFrom[p] .. 7 => r >= FinalFrom[p]
      BY FinalRounds
    <3> QED BY <2>6, <2>7, <3>1, FinalRounds DEF Sound, Blinded
  <2>12. Sound(t, v, q, r, k)
    BY <2>8, <2>9, <2>10, <2>11 DEF Sound
  <2> QED BY <1>4, <2>3, <2>5, <2>7, <2>12 DEF ResultFits
<1> QED BY <1>1, <1>2, <1>3, <1>4 DEF ItemFits

-----------------------------------------------------------------------------
(***************************************************************************)
(* A round, from what the one before it left.                              *)
(***************************************************************************)
\* What apply_fiat_shamir leaves alone.
LEMMA HashAt ==
    ASSUME NEW t, IsTranscript(t), NEW u, u = apply_fiat_shamir(t)
    PROVE  IsTranscript(u) /\ u.elements = t.elements /\ u.current_round = t.current_round + 1
<1>1. PICK e, n, c, d : t = [elements |-> e, current_round |-> n, current_challenge |-> c, challenges |-> d]
  BY DEF IsTranscript
<1>2. \E x, y : u = [elements |-> e, current_round |-> n + 1, current_challenge |-> x, challenges |-> y]
  BY <1>1 DEF apply_fiat_shamir
<1>3. PICK x, y : u = [elements |-> e, current_round |-> n + 1, current_challenge |-> x, challenges |-> y]
  BY <1>2
<1> QED BY <1>1, <1>3 DEF IsTranscript

\* What several elements change in a transcript.
LEMMA AddElementsAt ==
    ASSUME NEW t, IsTranscript(t), NEW f, NEW u, u = AddElements(t, f)
    PROVE  /\ IsTranscript(u) /\ u.current_round = t.current_round
           /\ \A x \in DOMAIN t.elements : x \in DOMAIN u.elements /\ u.elements[x] = t.elements[x]
           /\ \A x \in DOMAIN u.elements : x \in DOMAIN t.elements \/ x \in DOMAIN f
<1>1. u = [ elements          |-> Over(t.elements, f),
            current_round     |-> t.current_round,
            current_challenge |-> t.current_challenge,
            challenges        |-> t.challenges ]
  BY DEF IsTranscript, AddElements
<1>2. u.elements = Over(t.elements, f)
  BY <1>1
<1>3. IsTranscript(u) /\ u.current_round = t.current_round
  BY <1>1 DEF IsTranscript
<1> QED BY <1>2, <1>3 DEF Over

\* A polynomial is final from its round on: what round r has to make of a
\* transcript t and a store s, and what it queues.
Brings(t, s, r, k, u, v, q) ==
    /\ IsTranscript(u)
    /\ \A p \in Polys : Label[p] \in DOMAIN u.elements =>
            Label[p] \in DOMAIN t.elements /\ u.elements[Label[p]] = t.elements[Label[p]]
    /\ \A w \in AllWires : InLagrange(w) \in DOMAIN v /\ IsWire(v[InLagrange(w)])
    /\ \A w \in FirstWires : v[InLagrange(w)].blind = k
    /\ \A p \in Polys : r >= FinalFrom[p] => InMonomial(p) \in DOMAIN v /\ v[InMonomial(p)] = s[InMonomial(p)]
    /\ \A p \in Polys : FinalFrom[p] = r + 1 => InMonomial(p) \in DOMAIN v /\ v[InMonomial(p)].blind = k
    /\ \A n \in DOMAIN q : ItemFits(q[n], v, r + 1)

LEMMA NextRound ==
    ASSUME NEW t, NEW s, NEW q, NEW r \in 0 .. 6, NEW k, Sound(t, s, q, r, k),
           NEW u, NEW v, NEW z, Brings(t, s, r, k, u, v, z)
    PROVE  Sound(u, v, z, r + 1, k)
<1>1. \A p \in Polys : FinalFrom[p] \in Int /\ FinalFrom[p] <= 4 /\ FinalFrom[p] >= 2
  BY FinalRounds
<1>2. Stored(v, r + 1)
  BY <1>1 DEF Stored, Brings
<1>3. Bound(u, v, r + 1)
  BY <1>1 DEF Sound, Bound, Brings
<1>4. ASSUME NEW p \in Polys, r + 1 \in FinalFrom[p] .. 7 PROVE v[InMonomial(p)].blind = k
  <2>1. CASE FinalFrom[p] = r + 1
    BY <2>1 DEF Brings
  <2>2. CASE FinalFrom[p] # r + 1
    <3>1. r >= FinalFrom[p] /\ r \in FinalFrom[p] .. 7
      BY <1>1, <1>4, <2>2
    <3> QED BY <3>1 DEF Sound, Blinded, Brings
  <2> QED BY <2>1, <2>2
<1> QED BY <1>2, <1>3, <1>4 DEF Sound, Blinded, Brings

\* The rounds begin when every result is in.
LEMMA EveryResultIsIn ==
    ASSUME ProverInv, NEW r \in 0 .. 7, Enter(r)
    PROVE  /\ inflight = {} /\ Unhandled = {}
           /\ Sound(transcript, store, queue, r, ThisProof)
           /\ r = 1 => \A w \in FirstWires :
                InMonomial(w) \in DOMAIN store /\ store[InMonomial(w)].blind = ThisProof
           /\ r \in 1 .. 6 => \A w \in FirstWires : store[InLagrange(w)].blind = ThisProof
           /\ transcript.current_round = <<0, 1, 1, 2, 3, 4, 5, 6, 6>>[r + 1]
<1>1. inflight = {} /\ round = r
  BY DEF Enter, RoundDone
<1>2. ASSUME NEW n \in DOMAIN queue PROVE <<queue[n].work_type, Number(n)>> \in handled
  <2>1. n \in PlacesOf(queue[n].work_type) /\ queue[n].work_type \in WorkerTypes
    BY DEF Enter, RoundDone, PlacesOf
  <2>2. Number(n) \in NumbersOf(queue[n].work_type)
    BY <2>1 DEF NumbersOf
  <2> QED BY <2>1, <2>2 DEF Enter, RoundDone
<1>3. Unhandled = {}
  BY <1>2 DEF Unhandled
<1>4. Sound(transcript, store, queue, r, ThisProof)
  BY <1>1 DEF ProverInv
<1>5. r = 1 => \A w \in FirstWires : InMonomial(w) \in DOMAIN store /\ store[InMonomial(w)].blind = ThisProof
  BY <1>1, <1>3 DEF ProverInv, Transformed
<1>6. r \in 1 .. 6 => \A w \in FirstWires : store[InLagrange(w)].blind = ThisProof
  BY <1>4 DEF Sound, Blinded
<1>7. transcript.current_round = <<0, 1, 1, 2, 3, 4, 5, 6, 6>>[r + 1]
  BY <1>1 DEF ProverInv, TypeOK
<1> QED BY <1>1, <1>3, <1>4, <1>5, <1>6, <1>7

\* After it, the workers begin anew.
LEMMA AfterRound ==
    ASSUME ProverInv, NEW r \in 0 .. 6, Enter(r), proofs' = proofs, Len(proofs) < MaxProofs,
           Sound(transcript', store', queue', r + 1, ThisProof),
           transcript'.current_round = <<0, 1, 1, 2, 3, 4, 5, 6, 6>>[r + 2],
           NEW n \in Nat, Len(queue') = n, DOMAIN queue' = 1 .. n,
           r = 0 => \A w \in FirstWires : \E m \in DOMAIN queue' :
                        queue'[m].work_type = "IFFT" /\ queue'[m].tag = w
    PROVE  ProverInv'
<1>1. inflight' = {} /\ handled' = {} /\ round' = r + 1
  BY EveryResultIsIn DEF Enter
<1>2. ThisProof' = ThisProof
  BY DEF ThisProof
<1>3. TypeOK'
  BY <1>1 DEF ProverInv, TypeOK
<1>4. Unhandled' = DOMAIN queue'
  BY <1>1 DEF Unhandled
<1>5. Transformed(store', queue', r + 1, ThisProof', Unhandled')
  BY <1>4 DEF Transformed
<1>6. WorkersSound'
  BY <1>1 DEF WorkersSound
<1>7. ProofsBlinded'
  BY DEF ProverInv, ProofsBlinded
<1>8. round' \in 1 .. 7 /\ round' # 8 /\ Len(proofs') < MaxProofs
  BY <1>1
<1> QED BY <1>1, <1>2, <1>3, <1>5, <1>6, <1>7, <1>8 DEF ProverInv

-----------------------------------------------------------------------------
(***************************************************************************)
(* Round by round.                                                         *)
(***************************************************************************)
LEMMA PreambleKeeps == ProverInv /\ PreambleRound => ProverInv'
<1> SUFFICES ASSUME ProverInv, PreambleRound PROVE ProverInv'
  OBVIOUS
<1>1. Enter(0) /\ Sound(transcript, store, queue, 0, ThisProof) /\ transcript.current_round = 0
  BY EveryResultIsIn DEF PreambleRound
<1>2. PICK t : t = AddElements(transcript, Sizes)
  OBVIOUS
<1>3. transcript' = apply_fiat_shamir(t)
  BY <1>2 DEF PreambleRound
<1>4. /\ IsTranscript(t) /\ t.current_round = 0
      /\ \A x \in DOMAIN t.elements : x \in DOMAIN transcript.elements \/ x \in DOMAIN Sizes
  BY <1>1, <1>2, AddElementsAt DEF Sound
<1>5. IsTranscript(transcript') /\ transcript'.elements = t.elements /\ transcript'.current_round = 1
  BY <1>3, <1>4, HashAt
<1>6. \A p \in Polys : Label[p] \notin DOMAIN Sizes
  BY PolysAre DEF Label, Sizes
<1>7. \A p \in Polys : Label[p] \notin DOMAIN transcript'.elements
  <2>1. \A p \in Polys : Label[p] \in DOMAIN transcript.elements => 0 >= FinalFrom[p]
    BY <1>1 DEF Sound, Bound
  <2> QED BY <1>4, <1>5, <1>6, <2>1, FinalRounds
<1>8. PICK b : b = BlindedWires
  OBVIOUS
<1>9. DOMAIN b = {"lagrange"} \X {"w_1", "w_2", "w_3"}
  BY <1>8 DEF BlindedWires
<1>10. /\ \A w \in AllWires : InLagrange(w) \in DOMAIN store'
       /\ \A w \in FirstWires : InLagrange(w) \in DOMAIN b
       /\ \A w \in FirstWires : store'[InLagrange(w)] = [store[InLagrange(w)] EXCEPT !.blind = ThisProof]
       /\ \A w \in AllWires \ FirstWires : store'[InLagrange(w)] = store[InLagrange(w)]
  <2>1. store' = Over(b, store)
    BY <1>8 DEF PreambleRound
  <2>2. \A w \in AllWires : InLagrange(w) \in DOMAIN store
    BY <1>1 DEF Sound, Stored
  <2>3. \A w \in FirstWires : InLagrange(w) \in DOMAIN b /\ b[InLagrange(w)] = [store[InLagrange(w)] EXCEPT !.blind = ThisProof]
    BY <1>8, <1>9 DEF BlindedWires, InLagrange, FirstWires
  <2>4. \A w \in AllWires \ FirstWires : InLagrange(w) \notin DOMAIN b
    BY <1>9 DEF InLagrange, FirstWires
  <2> QED BY <2>1, <2>2, <2>3, <2>4, FinalRounds DEF Over
<1>11. \A w \in AllWires : IsWire(store'[InLagrange(w)])
  BY <1>1, <1>10, ZenonT(60) DEF Sound, Stored, IsWire
<1>12. \A w \in FirstWires : store'[InLagrange(w)].blind = ThisProof
  <2>1. \A w \in FirstWires : IsWire(store[InLagrange(w)])
    BY <1>1, FinalRounds DEF Sound, Stored
  <2> QED BY <1>10, <2>1 DEF IsWire
<1>13. queue' = <<Ifft("w_1"), Ifft("w_2"), Ifft("w_3")>>
  BY DEF PreambleRound
<1>14. Len(queue') = 3 /\ DOMAIN queue' = 1 .. 3
  BY <1>13
<1>15. \A n \in DOMAIN queue' : queue'[n].work_type = "IFFT" /\ queue'[n].tag \in FirstWires
  BY <1>13, <1>14 DEF Ifft, FirstWires
<1>16. \A n \in DOMAIN queue' : ItemFits(queue'[n], store', 1)
  BY <1>15 DEF ItemFits
<1>17. Sound(transcript', store', queue', 0 + 1, ThisProof)
  <2>1. \A p \in Polys : ~ 0 >= FinalFrom[p] /\ FinalFrom[p] # 0 + 1
    BY FinalRounds
  <2>2. Brings(transcript, store, 0, ThisProof, transcript', store', queue')
    BY <1>5, <1>7, <1>10, <1>11, <1>12, <1>16, <2>1 DEF Brings
  <2> QED BY <1>1, <2>2, NextRound
<1>18. \A w \in FirstWires : \E m \in DOMAIN queue' : queue'[m].work_type = "IFFT" /\ queue'[m].tag = w
  <2>1. queue'[1] = Ifft("w_1") /\ queue'[2] = Ifft("w_2") /\ queue'[3] = Ifft("w_3")
    BY <1>13
  <2> QED BY <1>14, <2>1 DEF Ifft, FirstWires
<1>19. proofs' = proofs /\ Len(proofs) < MaxProofs
  BY DEF PreambleRound
<1>20. transcript'.current_round = <<0, 1, 1, 2, 3, 4, 5, 6, 6>>[0 + 2]
  BY <1>5
<1> QED BY <1>1, <1>14, <1>17, <1>18, <1>19, <1>20, AfterRound

LEMMA FirstKeeps == ProverInv /\ FirstRound => ProverInv'
<1> SUFFICES ASSUME ProverInv, FirstRound PROVE ProverInv'
  OBVIOUS
<1>1. /\ Enter(1) /\ Sound(transcript, store, queue, 1, ThisProof) /\ transcript.current_round = 1
      /\ \A w \in FirstWires : InMonomial(w) \in DOMAIN store /\ store[InMonomial(w)].blind = ThisProof
      /\ \A w \in FirstWires : store[InLagrange(w)].blind = ThisProof
  BY EveryResultIsIn DEF FirstRound
<1>2. PICK x : x = PublicInputs(Lagrange("w_2"))
  OBVIOUS
<1>3. transcript' = add_element(transcript, "public_inputs", x)
  BY <1>2 DEF FirstRound
<1>4. PICK u : u = transcript'
  OBVIOUS
<1>5. /\ IsTranscript(u) /\ u.current_round = 1
      /\ \A y \in DOMAIN transcript.elements : u.elements[y] = transcript.elements[y]
      /\ \A y \in DOMAIN u.elements \ DOMAIN transcript.elements : y = "public_inputs"
  BY <1>1, <1>3, <1>4, AddAt DEF Sound
<1>6. \A p \in Polys : Label[p] \in DOMAIN u.elements =>
        Label[p] \in DOMAIN transcript.elements /\ u.elements[Label[p]] = transcript.elements[Label[p]]
  <2>1. \A p \in Polys : Label[p] # "public_inputs"
    BY PolysAre DEF Label
  <2> QED BY <1>5, <2>1
<1>7. store' = store /\ proofs' = proofs /\ queue' = WireCommitments
  BY DEF FirstRound, keyVars
<1>8. Len(queue') = 3 /\ DOMAIN queue' = 1 .. 3
  BY <1>7 DEF WireCommitments
<1>9. ASSUME NEW n \in DOMAIN queue' PROVE ItemFits(queue'[n], store, 1 + 1)
  <2>1. queue'[n] = Commit(store[InMonomial(Wires[n])], Label[Wires[n]])
    BY <1>7, <1>8 DEF WireCommitments, Monomial, InMonomial
  <2>2. Wires[n] \in Polys /\ FinalFrom[Wires[n]] = 2
    BY <1>8, PolysAre DEF Wires, FinalFrom
  <2> QED BY <2>1, <2>2, LabelsDiffer DEF ItemFits, Commit
<1>10. \A p \in Polys : FinalFrom[p] = 2 => p \in FirstWires
  BY PolysAre DEF FinalFrom, FirstWires
<1>11. /\ \A w \in AllWires : InLagrange(w) \in DOMAIN store /\ IsWire(store[InLagrange(w)])
       /\ \A p \in Polys : 1 >= FinalFrom[p] => InMonomial(p) \in DOMAIN store
  BY <1>1 DEF Sound, Stored
<1>12. Sound(u, store, queue', 1 + 1, ThisProof)
  <2>1. Brings(transcript, store, 1, ThisProof, u, store, queue')
    BY <1>1, <1>5, <1>6, <1>9, <1>10, <1>11 DEF Brings
  <2> QED BY <1>1, <2>1, NextRound
<1>13. Len(proofs) < MaxProofs
  BY <1>1 DEF ProverInv, Enter
<1>14. transcript'.current_round = <<0, 1, 1, 2, 3, 4, 5, 6, 6>>[1 + 2]
  BY <1>4, <1>5
<1> QED BY <1>1, <1>4, <1>7, <1>8, <1>12, <1>13, <1>14, AfterRound

LEMMA SecondKeeps == ProverInv /\ SecondRound => ProverInv'
<1> SUFFICES ASSUME ProverInv, SecondRound PROVE ProverInv'
  OBVIOUS
<1>1. /\ Enter(2) /\ Sound(transcript, store, queue, 2, ThisProof) /\ transcript.current_round = 1
      /\ \A w \in FirstWires : store[InLagrange(w)].blind = ThisProof
  BY EveryResultIsIn DEF SecondRound
<1>2. PICK u : u = transcript'
  OBVIOUS
<1>3. IsTranscript(u) /\ u.elements = transcript.elements /\ u.current_round = 2
  BY <1>1, <1>2, HashAt DEF Sound, SecondRound
<1>4. PICK s : s = SortedList(transcript')
  OBVIOUS
<1>5. PICK w_4 : w_4 = [MemoryRecords(Lagrange("w_4"), transcript') EXCEPT !.blind = ThisProof]
  OBVIOUS
<1>6. /\ store' = Put("lagrange", "s", s, Put("monomial", "s", s,
                      Put("lagrange", "w_4", w_4, Put("monomial", "w_4", w_4, store))))
      /\ queue' = <<Commit(s, "S"), FftOf("s"), Commit(w_4, "W_4")>>
      /\ proofs' = proofs
  BY <1>4, <1>5 DEF SecondRound
<1>7. /\ \A w \in AllWires : InLagrange(w) \in DOMAIN store /\ IsWire(store[InLagrange(w)])
      /\ \A p \in Polys : 2 >= FinalFrom[p] => InMonomial(p) \in DOMAIN store
  BY <1>1 DEF Sound, Stored
<1>8. IsWire(w_4) /\ w_4.blind = ThisProof
  <2>1. PICK w : w = Lagrange("w_4")
    OBVIOUS
  <2>2. IsWire(w)
    BY <1>7, <2>1 DEF Lagrange, InLagrange, AllWires
  <2>3. PICK m : m = MemoryRecords(w, transcript')
    OBVIOUS
  <2>4. IsWire(m)
    BY <2>2, <2>3 DEF MemoryRecords, IsWire
  <2>5. w_4 = [m EXCEPT !.blind = ThisProof]
    BY <1>5, <2>1, <2>3
  <2> QED BY <2>4, <2>5 DEF IsWire
<1>9. s.blind = ThisProof
  BY <1>4 DEF SortedList
<1>10. PICK a : a = Put("monomial", "w_4", w_4, store)
  OBVIOUS
<1>11. PICK b : b = Put("lagrange", "w_4", w_4, a)
  OBVIOUS
<1>12. PICK c : c = Put("monomial", "s", s, b)
  OBVIOUS
<1>13. PICK d : d = Put("lagrange", "s", s, c)
  OBVIOUS
<1>14. store' = d
  BY <1>6, <1>10, <1>11, <1>12, <1>13
<1>15. /\ InMonomial("w_4") \in DOMAIN d /\ d[InMonomial("w_4")] = w_4
       /\ InMonomial("s") \in DOMAIN d /\ d[InMonomial("s")] = s
       /\ InLagrange("w_4") \in DOMAIN d /\ d[InLagrange("w_4")] = w_4
       /\ \A x \in DOMAIN store : x \in DOMAIN d /\
            (x \notin {InMonomial("w_4"), InMonomial("s"), InLagrange("w_4"), InLagrange("s")} => d[x] = store[x])
  <2>1. /\ <<"monomial", "w_4">> \in DOMAIN a /\ a[<<"monomial", "w_4">>] = w_4
        /\ \A x \in DOMAIN store : x \in DOMAIN a /\ (x # <<"monomial", "w_4">> => a[x] = store[x])
    BY <1>10, PutAt
  <2>2. /\ <<"lagrange", "w_4">> \in DOMAIN b /\ b[<<"lagrange", "w_4">>] = w_4
        /\ \A x \in DOMAIN a : x \in DOMAIN b /\ (x # <<"lagrange", "w_4">> => b[x] = a[x])
    BY <1>11, PutAt
  <2>3. /\ <<"monomial", "s">> \in DOMAIN c /\ c[<<"monomial", "s">>] = s
        /\ \A x \in DOMAIN b : x \in DOMAIN c /\ (x # <<"monomial", "s">> => c[x] = b[x])
    BY <1>12, PutAt
  <2>4. \A x \in DOMAIN c : x \in DOMAIN d /\ (x # <<"lagrange", "s">> => d[x] = c[x])
    BY <1>13 DEF Put, Over
  <2> QED BY <2>1, <2>2, <2>3, <2>4 DEF InMonomial, InLagrange
<1>16. /\ \A w \in AllWires : InLagrange(w) \in DOMAIN d /\ IsWire(d[InLagrange(w)])
       /\ \A w \in FirstWires : d[InLagrange(w)] = store[InLagrange(w)]
  <2>1. ASSUME NEW w \in FirstWires
        PROVE  /\ InLagrange(w) \in DOMAIN d
               /\ d[InLagrange(w)] = store[InLagrange(w)] /\ IsWire(store[InLagrange(w)])
    <3>1. InLagrange(w) \notin {InMonomial("w_4"), InMonomial("s"), InLagrange("w_4"), InLagrange("s")}
      BY DEF InLagrange, InMonomial, FirstWires
    <3> QED BY <1>7, <1>15, <3>1, FinalRounds
  <2>2. \A w \in AllWires : w \in FirstWires \/ w = "w_4"
    BY DEF AllWires, FirstWires
  <2> QED BY <1>8, <1>15, <2>1, <2>2
<1>17. \A p \in Polys : 2 >= FinalFrom[p] => InMonomial(p) \in DOMAIN d /\ d[InMonomial(p)] = store[InMonomial(p)]
  <2> SUFFICES ASSUME NEW p \in Polys, 2 >= FinalFrom[p]
               PROVE  InMonomial(p) \in DOMAIN d /\ d[InMonomial(p)] = store[InMonomial(p)]
    OBVIOUS
  <2>1. p # "w_4" /\ p # "s"
    BY DEF FinalFrom
  <2>2. InMonomial(p) \notin {InMonomial("w_4"), InMonomial("s"), InLagrange("w_4"), InLagrange("s")}
    BY <2>1 DEF InMonomial, InLagrange
  <2> QED BY <1>7, <1>15, <2>2
<1>18. \A p \in Polys : FinalFrom[p] = 2 + 1 => InMonomial(p) \in DOMAIN d /\ d[InMonomial(p)].blind = ThisProof
  <2>1. \A p \in Polys : FinalFrom[p] = 3 => p = "w_4" \/ p = "s"
    BY PolysAre DEF FinalFrom
  <2> QED BY <1>8, <1>9, <1>15, <2>1
<1>19. Len(queue') = 3 /\ DOMAIN queue' = 1 .. 3
  BY <1>6
<1>20. ASSUME NEW n \in DOMAIN queue' PROVE ItemFits(queue'[n], d, 2 + 1)
  <2>1. "w_4" \in Polys /\ "s" \in Polys /\ Label["w_4"] = "W_4" /\ Label["s"] = "S"
        /\ FinalFrom["w_4"] = 3 /\ FinalFrom["s"] = 3
    BY PolysAre DEF Label, FinalFrom
  <2>2. n = 1 \/ n = 2 \/ n = 3
    BY <1>19
  <2>3. CASE n = 1
    <3>1. queue'[n] = Commit(s, "S")
      BY <1>6, <2>3
    <3> QED BY <1>15, <2>1, <3>1, LabelsDiffer DEF ItemFits, Commit
  <2>4. CASE n = 2
    <3>1. queue'[n] = FftOf("s")
      BY <1>6, <2>4
    <3> QED BY <3>1 DEF ItemFits, FftOf
  <2>5. CASE n = 3
    <3>1. queue'[n] = Commit(w_4, "W_4")
      BY <1>6, <2>5
    <3> QED BY <1>15, <2>1, <3>1, LabelsDiffer DEF ItemFits, Commit
  <2> QED BY <2>2, <2>3, <2>4, <2>5
<1>21. Sound(u, d, queue', 2 + 1, ThisProof)
  <2>1. Brings(transcript, store, 2, ThisProof, u, d, queue')
    BY <1>1, <1>3, <1>16, <1>17, <1>18, <1>20 DEF Brings
  <2> QED BY <1>1, <2>1, NextRound
<1>22. Len(proofs) < MaxProofs
  BY <1>1 DEF ProverInv, Enter
<1>23. transcript'.current_round = <<0, 1, 1, 2, 3, 4, 5, 6, 6>>[2 + 2]
  BY <1>2, <1>3
<1> QED BY <1>1, <1>2, <1>6, <1>14, <1>19, <1>21, <1>22, <1>23, AfterRound

LEMMA ThirdKeeps == ProverInv /\ ThirdRound => ProverInv'
<1> SUFFICES ASSUME ProverInv, ThirdRound PROVE ProverInv'
  OBVIOUS
<1>1. /\ Enter(3) /\ Sound(transcript, store, queue, 3, ThisProof) /\ transcript.current_round = 2
      /\ \A w \in FirstWires : store[InLagrange(w)].blind = ThisProof
  BY EveryResultIsIn DEF ThirdRound
<1>2. PICK u : u = transcript'
  OBVIOUS
<1>3. IsTranscript(u) /\ u.elements = transcript.elements /\ u.current_round = 3
  BY <1>1, <1>2, HashAt DEF Sound, ThirdRound
<1>4. PICK wires : wires = [k \in 1 .. 4 |-> Lagrange(Wires[k])]
  OBVIOUS
<1>5. PICK z_perm : z_perm = GrandProduct(wires, transcript')
  OBVIOUS
<1>6. PICK z_lookup : z_lookup = LookupProduct(SubSeq(wires, 1, 3), Lagrange("s"), transcript')
  OBVIOUS
<1>7. /\ store' = Put("monomial", "z_perm", z_perm, Put("monomial", "z_lookup", z_lookup, store))
      /\ queue' = <<Commit(z_perm, "Z_PERM"), FftOf("z_perm"), Commit(z_lookup, "Z_LOOKUP"), FftOf("z_lookup")>>
                  \o [k \in 1 .. 4 |-> FftOf(Wires[k])]
      /\ proofs' = proofs
  BY <1>4, <1>5, <1>6 DEF ThirdRound
<1>8. z_perm.blind = ThisProof /\ z_lookup.blind = ThisProof
  BY <1>5, <1>6 DEF GrandProduct, LookupProduct
<1>9. /\ \A w \in AllWires : InLagrange(w) \in DOMAIN store /\ IsWire(store[InLagrange(w)])
      /\ \A p \in Polys : 3 >= FinalFrom[p] => InMonomial(p) \in DOMAIN store
  BY <1>1 DEF Sound, Stored
<1>10. PICK a : a = Put("monomial", "z_lookup", z_lookup, store)
  OBVIOUS
<1>11. PICK d : d = Put("monomial", "z_perm", z_perm, a)
  OBVIOUS
<1>12. store' = d
  BY <1>7, <1>10, <1>11
<1>13. /\ InMonomial("z_perm") \in DOMAIN d /\ d[InMonomial("z_perm")] = z_perm
       /\ InMonomial("z_lookup") \in DOMAIN d /\ d[InMonomial("z_lookup")] = z_lookup
       /\ \A x \in DOMAIN store : x \in DOMAIN d /\
            (x \notin {InMonomial("z_perm"), InMonomial("z_lookup")} => d[x] = store[x])
  <2>1. /\ <<"monomial", "z_lookup">> \in DOMAIN a /\ a[<<"monomial", "z_lookup">>] = z_lookup
        /\ \A x \in DOMAIN store : x \in DOMAIN a /\ (x # <<"monomial", "z_lookup">> => a[x] = store[x])
    BY <1>10, PutAt
  <2>2. /\ <<"monomial", "z_perm">> \in DOMAIN d /\ d[<<"monomial", "z_perm">>] = z_perm
        /\ \A x \in DOMAIN a : x \in DOMAIN d /\ (x # <<"monomial", "z_perm">> => d[x] = a[x])
    BY <1>11, PutAt
  <2> QED BY <2>1, <2>2 DEF InMonomial
<1>14. \A w \in AllWires : InLagrange(w) \in DOMAIN d /\ d[InLagrange(w)] = store[InLagrange(w)]
  <2>1. \A w : InLagrange(w) \notin {InMonomial("z_perm"), InMonomial("z_lookup")}
    BY DEF InLagrange, InMonomial
  <2> QED BY <1>9, <1>13, <2>1
<1>15. \A p \in Polys : 3 >= FinalFrom[p] => InMonomial(p) \in DOMAIN d /\ d[InMonomial(p)] = store[InMonomial(p)]
  <2> SUFFICES ASSUME NEW p \in Polys, 3 >= FinalFrom[p]
               PROVE  InMonomial(p) \in DOMAIN d /\ d[InMonomial(p)] = store[InMonomial(p)]
    OBVIOUS
  <2>1. p # "z_perm" /\ p # "z_lookup"
    BY DEF FinalFrom
  <2>2. InMonomial(p) \notin {InMonomial("z_perm"), InMonomial("z_lookup")}
    BY <2>1 DEF InMonomial
  <2> QED BY <1>9, <1>13, <2>2
<1>16. \A p \in Polys : FinalFrom[p] = 3 + 1 => InMonomial(p) \in DOMAIN d /\ d[InMonomial(p)].blind = ThisProof
  <2>1. \A p \in Polys : FinalFrom[p] = 4 => p = "z_perm" \/ p = "z_lookup"
    BY PolysAre DEF FinalFrom
  <2> QED BY <1>8, <1>13, <2>1
<1>17. PICK first : first = <<Commit(z_perm, "Z_PERM"), FftOf("z_perm"), Commit(z_lookup, "Z_LOOKUP"), FftOf("z_lookup")>>
  OBVIOUS
<1>18. PICK ffts : ffts = [k \in 1 .. 4 |-> FftOf(Wires[k])]
  OBVIOUS
<1>19. PICK S : first \in Seq(S) /\ ffts \in Seq(S)
  <2>1. first \in Seq({first[i] : i \in 1 .. 4} \cup {ffts[i] : i \in 1 .. 4})
    BY <1>17
  <2>2. ffts \in Seq({first[i] : i \in 1 .. 4} \cup {ffts[i] : i \in 1 .. 4})
    BY <1>18
  <2> QED BY <2>1, <2>2
<1>20. Len(first) = 4 /\ Len(ffts) = 4
  BY <1>17, <1>18
<1>21. /\ Len(queue') = 8 /\ DOMAIN queue' = 1 .. 8
       /\ \A n \in 1 .. 4 : queue'[n] = first[n] /\ queue'[n + 4] = ffts[n]
  <2>1. queue' = first \o ffts
    BY <1>7, <1>17, <1>18, Zenon
  <2>2. queue' \in Seq(S) /\ IsJoin(queue', first, ffts)
    BY <1>19, <2>1, Joined, Zenon
  <2> QED BY <1>20, <2>2, FourAndFour
<1>22. ASSUME NEW n \in DOMAIN queue' PROVE ItemFits(queue'[n], d, 3 + 1)
  <2>1. "z_perm" \in Polys /\ "z_lookup" \in Polys /\ Label["z_perm"] = "Z_PERM" /\ Label["z_lookup"] = "Z_LOOKUP"
        /\ FinalFrom["z_perm"] = 4 /\ FinalFrom["z_lookup"] = 4
    BY PolysAre DEF Label, FinalFrom
  <2>2. CASE n = 1
    <3>1. queue'[n] = Commit(z_perm, "Z_PERM")
      BY <1>17, <1>21, <2>2
    <3> QED BY <1>13, <2>1, <3>1, LabelsDiffer DEF ItemFits, Commit
  <2>3. CASE n = 3
    <3>1. queue'[n] = Commit(z_lookup, "Z_LOOKUP")
      BY <1>17, <1>21, <2>3
    <3> QED BY <1>13, <2>1, <3>1, LabelsDiffer DEF ItemFits, Commit
  <2>4. CASE n = 2 \/ n = 4
    <3>1. queue'[n].work_type = "FFT"
      BY <1>17, <1>21, <2>4 DEF FftOf
    <3> QED BY <3>1 DEF ItemFits
  <2>5. CASE n \in 5 .. 8
    <3>1. n - 4 \in 1 .. 4 /\ n = (n - 4) + 4
      BY <2>5
    <3>2. queue'[n] = ffts[n - 4]
      BY <1>21, <3>1
    <3>3. queue'[n].work_type = "FFT"
      BY <1>18, <3>1, <3>2 DEF FftOf
    <3> QED BY <3>3 DEF ItemFits
  <2> QED BY <1>21, <2>2, <2>3, <2>4, <2>5
<1>23. Sound(u, d, queue', 3 + 1, ThisProof)
  <2>1. \A w \in FirstWires : d[InLagrange(w)].blind = ThisProof
    BY <1>1, <1>14, FinalRounds
  <2>2. Brings(transcript, store, 3, ThisProof, u, d, queue')
    BY <1>3, <1>9, <1>14, <1>15, <1>16, <1>22, <2>1 DEF Brings
  <2> QED BY <1>1, <2>2, NextRound
<1>24. Len(proofs) < MaxProofs
  BY <1>1 DEF ProverInv, Enter
<1>25. transcript'.current_round = <<0, 1, 1, 2, 3, 4, 5, 6, 6>>[3 + 2]
  BY <1>2, <1>3
<1> QED BY <1>1, <1>2, <1>7, <1>12, <1>21, <1>23, <1>24, <1>25, AfterRound

\* The rounds after the third commit to nothing that is stored.
LEMMA LateRound ==
    ASSUME ProverInv, NEW r \in 4 .. 6, Enter(r), store' = store, proofs' = proofs,
           IsTranscript(transcript'), transcript'.current_round = transcript.current_round + 1,
           \A p \in Polys : Label[p] \in DOMAIN transcript'.elements =>
                /\ Label[p] \in DOMAIN transcript.elements
                /\ transcript'.elements[Label[p]] = transcript.elements[Label[p]],
           NEW n \in Nat, Len(queue') = n, DOMAIN queue' = 1 .. n,
           \A i \in DOMAIN queue' :
                queue'[i].work_type = "SCALAR_MULTIPLICATION" /\ queue'[i].tag \notin Commitments
    PROVE  ProverInv'
<1>1. /\ r \in 0 .. 7 /\ r \in 1 .. 6 /\ r \in 0 .. 6
      /\ Sound(transcript, store, queue, r, ThisProof)
      /\ \A w \in FirstWires : store[InLagrange(w)].blind = ThisProof
      /\ transcript.current_round = <<0, 1, 1, 2, 3, 4, 5, 6, 6>>[r + 1]
  BY EveryResultIsIn
<1>2. /\ \A w \in AllWires : InLagrange(w) \in DOMAIN store /\ IsWire(store[InLagrange(w)])
      /\ \A p \in Polys : InMonomial(p) \in DOMAIN store
  BY <1>1, FinalRounds DEF Sound, Stored
<1>3. \A i \in DOMAIN queue' : ItemFits(queue'[i], store, r + 1)
  BY DEF ItemFits, Commitments
<1>4. \A p \in Polys : FinalFrom[p] # r + 1
  BY FinalRounds
<1>5. Brings(transcript, store, r, ThisProof, transcript', store, queue')
  BY <1>1, <1>2, <1>3, <1>4 DEF Brings
<1>6. Sound(transcript', store', queue', r + 1, ThisProof)
  BY <1>1, <1>5, NextRound
<1>7. Len(proofs) < MaxProofs
  BY <1>1 DEF ProverInv, Enter
<1>8. r = 4 \/ r = 5 \/ r = 6
  OBVIOUS
<1>9. transcript'.current_round = <<0, 1, 1, 2, 3, 4, 5, 6, 6>>[r + 2]
  BY <1>1, <1>8
<1> QED BY <1>1, <1>6, <1>7, <1>9, AfterRound

LEMMA LabelsAre == Commitments = {"W_1", "W_2", "W_3", "W_4", "S", "Z_PERM", "Z_LOOKUP"}
BY PolysAre DEF Commitments, Label

LEMMA FourthKeeps == ProverInv /\ FourthRound => ProverInv'
<1> SUFFICES ASSUME ProverInv, FourthRound PROVE ProverInv'
  OBVIOUS
<1>1. Enter(4) /\ Sound(transcript, store, queue, 4, ThisProof) /\ store' = store /\ proofs' = proofs
  BY EveryResultIsIn DEF FourthRound
<1>2. /\ IsTranscript(transcript') /\ transcript'.elements = transcript.elements
      /\ transcript'.current_round = transcript.current_round + 1
  BY <1>1, HashAt DEF Sound, FourthRound
<1>3. queue' = [k \in 1 .. 4 |-> Commit(parts'[k - 1], QuotientLabel[k])]
  BY DEF FourthRound
<1>4. Len(queue') = 4 /\ DOMAIN queue' = 1 .. 4
  BY <1>3
<1>5. ASSUME NEW i \in DOMAIN queue'
      PROVE  queue'[i].work_type = "SCALAR_MULTIPLICATION" /\ queue'[i].tag \notin Commitments
  <2>1. queue'[i] = Commit(parts'[i - 1], QuotientLabel[i])
    BY <1>3, <1>4
  <2>2. QuotientLabel[i] \in {"T_1", "T_2", "T_3", "T_4"}
    BY <1>4 DEF QuotientLabel
  <2> QED BY <2>1, <2>2, LabelsAre DEF Commit
<1> QED BY <1>1, <1>2, <1>4, <1>5, LateRound

LEMMA FifthKeeps == ProverInv /\ FifthRound => ProverInv'
<1> SUFFICES ASSUME ProverInv, FifthRound PROVE ProverInv'
  OBVIOUS
<1>1. Enter(5) /\ Sound(transcript, store, queue, 5, ThisProof) /\ store' = store /\ proofs' = proofs
  BY EveryResultIsIn DEF FifthRound, keyVars
<1>2. PICK t : t = apply_fiat_shamir(transcript)
  OBVIOUS
<1>3. PICK z : z = Challenge(t, "z")
  OBVIOUS
<1>4. PICK f : f = Over([t |-> Evaluation(Combined(parts), z, FALSE)], Evaluations([p \in Polys |-> Monomial(p)], z))
  OBVIOUS
<1>5. transcript' = AddElements(t, f) /\ queue' = << >>
  BY <1>2, <1>3, <1>4 DEF FifthRound
<1>6. IsTranscript(t) /\ t.elements = transcript.elements /\ t.current_round = transcript.current_round + 1
  BY <1>1, <1>2, HashAt DEF Sound
<1>7. /\ IsTranscript(transcript') /\ transcript'.current_round = t.current_round
      /\ \A x \in DOMAIN t.elements : transcript'.elements[x] = t.elements[x]
      /\ \A x \in DOMAIN transcript'.elements : x \in DOMAIN t.elements \/ x \in DOMAIN f
  BY <1>5, <1>6, AddElementsAt
<1>8. DOMAIN f = {"t"} \cup Polys \cup {Omega[p] : p \in Polys}
  BY <1>4 DEF Over, Evaluations
<1>9. \A p \in Polys : Label[p] \notin DOMAIN f
  BY <1>8, PolysAre DEF Label, Omega
<1>10. Len(queue') = 0 /\ DOMAIN queue' = 1 .. 0
  BY <1>5
<1> QED BY <1>1, <1>6, <1>7, <1>9, <1>10, LateRound

LEMMA SixthKeeps == ProverInv /\ SixthRound => ProverInv'
<1> SUFFICES ASSUME ProverInv, SixthRound PROVE ProverInv'
  OBVIOUS
<1>1. Enter(6) /\ Sound(transcript, store, queue, 6, ThisProof) /\ store' = store /\ proofs' = proofs
  BY EveryResultIsIn DEF SixthRound, keyVars
<1>2. /\ IsTranscript(transcript') /\ transcript'.elements = transcript.elements
      /\ transcript'.current_round = transcript.current_round + 1
  BY <1>1, HashAt DEF Sound, SixthRound
<1>3. PICK f : f = [p \in Polys |-> Monomial(p)]
  OBVIOUS
<1>4. PICK a : a = Opening(Over([t |-> Combined(parts)], f), transcript')
  OBVIOUS
<1>5. PICK b : b = Opening(f, transcript')
  OBVIOUS
<1>6. queue' = <<Commit(a, "PI_Z"), Commit(b, "PI_Z_OMEGA")>>
  BY <1>3, <1>4, <1>5 DEF SixthRound
<1>7. Len(queue') = 2 /\ DOMAIN queue' = 1 .. 2
  BY <1>6
<1>8. queue'[1] = Commit(a, "PI_Z") /\ queue'[2] = Commit(b, "PI_Z_OMEGA")
  BY <1>6
<1>9. \A i \in DOMAIN queue' : queue'[i].work_type = "SCALAR_MULTIPLICATION" /\ queue'[i].tag \notin Commitments
  BY <1>7, <1>8, LabelsAre DEF Commit
<1> QED BY <1>1, <1>2, <1>7, <1>9, LateRound

\* A proof holds the commitments of the polynomials as they are stored.
LEMMA EveryLabelIsNamed == \A p \in Polys : \E r \in Rounds : Label[p] \in Names(r)
<1>1. num_rounds = 7
  BY ProverAssumption DEF num_rounds, UltraManifest
<1>2. 1 \in Rounds /\ 2 \in Rounds /\ 3 \in Rounds
  BY <1>1 DEF Rounds
<1>3. "W_1" \in Names(1) /\ "W_2" \in Names(1) /\ "W_3" \in Names(1)
  <2>1. Entries(1) = Entry(<<"public_inputs", "W_1", "W_2", "W_3">>, {}, "eta", 1).elements
    BY ProverAssumption DEF Entries, RoundManifest, UltraManifest
  <2>2. DOMAIN Entries(1) = 1 .. 4
    BY <2>1 DEF Entry
  <2>3. Entries(1)[2].name = "W_1" /\ Entries(1)[3].name = "W_2" /\ Entries(1)[4].name = "W_3"
    BY <2>1, <2>2 DEF Entry
  <2> QED BY <2>2, <2>3 DEF Names
<1>4. "W_4" \in Names(2) /\ "S" \in Names(2)
  <2>1. Entries(2) = Entry(<<"W_4", "S">>, {}, "beta", 2).elements
    BY ProverAssumption DEF Entries, RoundManifest, UltraManifest
  <2>2. DOMAIN Entries(2) = 1 .. 2
    BY <2>1 DEF Entry
  <2>3. Entries(2)[1].name = "W_4" /\ Entries(2)[2].name = "S"
    BY <2>1, <2>2 DEF Entry
  <2> QED BY <2>2, <2>3 DEF Names
<1>5. "Z_PERM" \in Names(3) /\ "Z_LOOKUP" \in Names(3)
  <2>1. Entries(3) = Entry(<<"Z_PERM", "Z_LOOKUP">>, {}, "alpha", 1).elements
    BY ProverAssumption DEF Entries, RoundManifest, UltraManifest
  <2>2. DOMAIN Entries(3) = 1 .. 2
    BY <2>1 DEF Entry
  <2>3. Entries(3)[1].name = "Z_PERM" /\ Entries(3)[2].name = "Z_LOOKUP"
    BY <2>1, <2>2 DEF Entry
  <2> QED BY <2>2, <2>3 DEF Names
<1> QED BY <1>2, <1>3, <1>4, <1>5, PolysAre DEF Label

LEMMA ExportKeeps == ProverInv /\ ExportProof => ProverInv'
<1> SUFFICES ASSUME ProverInv, ExportProof PROVE ProverInv'
  OBVIOUS
<1>1. /\ Enter(7) /\ Sound(transcript, store, queue, 7, ThisProof) /\ round = 7
      /\ transcript.current_round = 6
  BY EveryResultIsIn DEF ExportProof, Enter
<1>2. inflight' = {} /\ handled' = {} /\ round' = 8 /\ store' = store /\ transcript' = transcript /\ queue' = << >>
  BY <1>1, EveryResultIsIn DEF ExportProof, Enter, keyVars
<1>3. PICK n \in Nat : n = Len(proofs) /\ n < MaxProofs
  BY <1>1 DEF ProverInv, TypeOK
<1>4. PICK proof : proof = export_transcript(transcript)
  OBVIOUS
<1>5. PICK S : proofs \in Seq(S)
  BY DEF ProverInv, ProofsBlinded
<1>6. proofs' = Append(proofs, proof)
  BY <1>4 DEF ExportProof
<1>7. /\ proofs' \in Seq(S \cup {proof}) /\ Len(proofs') = n + 1 /\ DOMAIN proofs' = 1 .. n + 1
      /\ \A k \in 1 .. n : k \in DOMAIN proofs /\ proofs'[k] = proofs[k]
      /\ proofs'[n + 1] = proof
  BY <1>3, <1>5, <1>6
<1>8. TypeOK'
  <2>1. Len(proofs') \in 0 .. MaxProofs
    BY <1>3, <1>7, ProverAssumption
  <2>2. transcript'.current_round = <<0, 1, 1, 2, 3, 4, 5, 6, 6>>[8 + 1]
    BY <1>1, <1>2
  <2> QED BY <1>2, <2>1, <2>2 DEF TypeOK
<1>9. Len(queue') = 0 /\ DOMAIN queue' = 1 .. 0
  BY <1>2
<1>10. Sound(transcript, store, queue', 8, ThisProof')
  BY <1>1, <1>9, FinalRounds DEF Sound, Stored, Bound, Blinded
<1>11. Transformed(store, queue', 8, ThisProof', Unhandled') /\ WorkersSound'
  BY <1>2 DEF Transformed, WorkersSound
<1>12. ASSUME NEW i \in DOMAIN ProofNames, ProofNames[i] \in Commitments PROVE proof[i].blind = n + 1
  <2>1. PICK p \in Polys : ProofNames[i] = Label[p]
    BY <1>12 DEF Commitments
  <2>2. Label[p] \in DOMAIN transcript.elements
    BY EveryLabelIsNamed DEF ExportProof, Complete
  <2>3. transcript.elements[Label[p]] = store[InMonomial(p)]
    BY <1>1, <2>2 DEF Sound, Bound
  <2>4. store[InMonomial(p)].blind = ThisProof
    BY <1>1, FinalRounds DEF Sound, Blinded
  <2>5. proof[i] = transcript.elements[ProofNames[i]]
    BY <1>4 DEF export_transcript
  <2> QED BY <1>3, <2>1, <2>3, <2>4, <2>5 DEF ThisProof
<1>13. ASSUME NEW k \in DOMAIN proofs', NEW i \in DOMAIN ProofNames, ProofNames[i] \in Commitments
       PROVE  proofs'[k][i].blind = k
  <2>1. CASE k = n + 1
    BY <1>7, <1>12, <1>13, <2>1
  <2>2. CASE k # n + 1
    <3>1. k \in DOMAIN proofs /\ proofs'[k] = proofs[k]
      BY <1>7, <2>2
    <3> QED BY <1>13, <3>1 DEF ProverInv, ProofsBlinded
  <2> QED BY <2>1, <2>2
<1>14. ProofsBlinded'
  BY <1>7, <1>13 DEF ProofsBlinded
<1> QED BY <1>2, <1>8, <1>9, <1>10, <1>11, <1>14 DEF ProverInv

-----------------------------------------------------------------------------
(***************************************************************************)
(* The driver: reset, process_queue and the workers.                       *)
(***************************************************************************)
LEMMA ResetKeeps == ProverInv /\ Reset => ProverInv'
<1> SUFFICES ASSUME ProverInv, Reset PROVE ProverInv'
  OBVIOUS
<1>1. /\ round' = 0 /\ store' = store /\ queue' = << >> /\ inflight' = inflight /\ handled' = handled
      /\ proofs' = proofs /\ queue = << >> /\ transcript' = NewTranscript
  BY DEF ProverInv, Reset, keyVars, driverVars
<1>2. \A type : NumbersOf(type) = {}
  BY <1>1 DEF NumbersOf, PlacesOf
<1>3. inflight = {} /\ handled = {}
  BY <1>2 DEF ProverInv, TypeOK
<1>4. IsTranscript(transcript') /\ transcript'.current_round = 0 /\ transcript'.elements = Nothing
  BY <1>1 DEF NewTranscript, IsTranscript
<1>5. TypeOK'
  <2>1. transcript'.current_round = <<0, 1, 1, 2, 3, 4, 5, 6, 6>>[0 + 1]
    BY <1>4
  <2> QED BY <1>1, <1>3, <2>1 DEF TypeOK, ProverInv
<1>6. Stored(store, 0)
  BY FinalRounds DEF ProverInv, Sound, Stored
<1>7. DOMAIN queue' = {} /\ Len(queue') = 0 /\ DOMAIN queue' = 1 .. 0
  BY <1>1
<1>8. DOMAIN transcript'.elements = {}
  BY <1>4 DEF Nothing
<1>9. Sound(transcript', store, queue', 0, ThisProof')
  BY <1>4, <1>6, <1>7, <1>8, FinalRounds DEF Sound, Bound, Blinded
<1>10. Transformed(store, queue', 0, ThisProof', Unhandled') /\ WorkersSound'
  BY <1>1, <1>3 DEF Transformed, WorkersSound
<1>11. ProofsBlinded'
  BY <1>1 DEF ProverInv, ProofsBlinded
<1> QED BY <1>1, <1>5, <1>7, <1>9, <1>10, <1>11 DEF ProverInv

\* Number by number, process_queue computes what the queue says.
LEMMA ItemByItem ==
    ASSUME Len(queue) \in Nat
    PROVE  /\ ProcessedItems[0] = [t |-> transcript, s |-> store]
           /\ \A n \in 0 .. Len(queue) - 1 :
                ProcessedItems[n + 1] = Delivered(queue[n + 1], Computed(queue[n + 1], ProcessedItems[n].s),
                                                  ProcessedItems[n])
<1> DEFINE step(n, v) == Delivered(queue[n], Computed(queue[n], v.s), v)
           IsUpTo(g, b) == g = [n \in 0 .. b |-> IF n = 0 THEN [t |-> transcript, s |-> store]
                                                 ELSE step(n, g[n - 1])]
           S == {b \in Nat : \E g : IsUpTo(g, b)}
<1>1. 0 \in S
  <2> DEFINE g == [n \in 0 .. 0 |-> [t |-> transcript, s |-> store]]
  <2> HIDE DEF step
  <2>1. IsUpTo(g, 0)
    OBVIOUS
  <2> QED BY <2>1
<1>2. ASSUME NEW b \in Nat, b \in S PROVE b + 1 \in S
  <2> HIDE DEF step
  <2>1. PICK g : IsUpTo(g, b)
    BY <1>2
  <2> DEFINE h == [n \in 0 .. b + 1 |-> IF n = b + 1 THEN step(b + 1, g[b]) ELSE g[n]]
             k == [n \in 0 .. b + 1 |-> IF n = 0 THEN [t |-> transcript, s |-> store] ELSE step(n, h[n - 1])]
  <2>2. ASSUME NEW n \in 0 .. b + 1 PROVE h[n] = k[n]
    <3>1. CASE n = 0
      BY <2>1, <3>1
    <3>2. CASE n = b + 1
      BY <2>1, <3>2
    <3>3. CASE n \in 1 .. b
      <4>1. n - 1 \in 0 .. b /\ n \in 0 .. b /\ n # 0 /\ n # b + 1 /\ n - 1 # b + 1 /\ n - 1 \in 0 .. b + 1
        BY <3>3
      <4>2. g[n] = step(n, g[n - 1])
        BY <2>1, <4>1
      <4> QED BY <4>1, <4>2
    <3> QED BY <3>1, <3>2, <3>3
  <2>3. h = k
    BY <2>2
  <2> HIDE DEF h
  <2>4. IsUpTo(h, b + 1)
    BY <2>3
  <2> QED BY <2>4
<1>3. \E g : IsUpTo(g, Len(queue))
  <2>1. Nat \subseteq S
    <3> HIDE DEF S
    <3> QED BY <1>1, <1>2, InductionOverSet
  <2> QED BY <2>1
<1>4. IsUpTo(ProcessedItems, Len(queue))
  BY <1>3 DEF ProcessedItems
<1>5. ProcessedItems[0] = [t |-> transcript, s |-> store]
  BY <1>4
<1>6. ASSUME NEW n \in 0 .. Len(queue) - 1
      PROVE  ProcessedItems[n + 1] = step(n + 1, ProcessedItems[n])
  <2>1. n + 1 \in 0 .. Len(queue) /\ n + 1 # 0 /\ (n + 1) - 1 = n
    OBVIOUS
  <2> HIDE DEF step
  <2> QED BY <1>4, <2>1
<1> QED BY <1>5, <1>6

\* After n items.
SoundAfter(n) ==
    LET v == ProcessedItems[n]
    IN  /\ v = [t |-> v.t, s |-> v.s]
        /\ Sound(v.t, v.s, queue, round, ThisProof)
        /\ v.t.current_round = transcript.current_round
        /\ Transformed(v.s, queue, round, ThisProof, {m \in Unhandled : m > n})

LEMMA EveryItemIsSound ==
    ASSUME ProverInv, NEW n \in 0 .. Len(queue) - 1, SoundAfter(n)
    PROVE  SoundAfter(n + 1)
<1>1. /\ Len(queue) \in Nat /\ DOMAIN queue = 1 .. Len(queue) /\ n \in Nat /\ n + 1 \in DOMAIN queue
      /\ round \in 0 .. 8 /\ Unhandled \subseteq DOMAIN queue
  BY DEF ProverInv, TypeOK, Unhandled
<1>2. PICK v : v = ProcessedItems[n]
  OBVIOUS
<1>3. PICK ts : ts = ProcessedItems[n + 1]
  OBVIOUS
<1>4. /\ v = [t |-> v.t, s |-> v.s] /\ Sound(v.t, v.s, queue, round, ThisProof)
      /\ v.t.current_round = transcript.current_round
      /\ Transformed(v.s, queue, round, ThisProof, {m \in Unhandled : m > n})
  BY <1>2 DEF SoundAfter
<1>5. PICK t, s : t = v.t /\ s = v.s
  OBVIOUS
<1>6. ts = Delivered(queue[n + 1], Computed(queue[n + 1], s), [t |-> t, s |-> s])
  BY <1>1, <1>2, <1>3, <1>4, <1>5, ItemByItem
<1>7. ResultFits(ts, v.t, v.s, queue[n + 1], queue, round, ThisProof)
  BY <1>1, <1>4, <1>5, <1>6, ResultIsSound
<1>8. ASSUME round = 1, NEW w \in FirstWires
      PROVE  \/ \E m \in {m \in Unhandled : m > n + 1} : queue[m].work_type = "IFFT" /\ queue[m].tag = w
             \/ InMonomial(w) \in DOMAIN ts.s /\ ts.s[InMonomial(w)].blind = ThisProof
  <2>1. CASE InMonomial(w) \in DOMAIN v.s /\ v.s[InMonomial(w)].blind = ThisProof
    BY <1>7, <1>8, <2>1 DEF ResultFits
  <2>2. CASE \E m \in {m \in Unhandled : m > n} : queue[m].work_type = "IFFT" /\ queue[m].tag = w
    <3>1. PICK m \in Unhandled : m > n /\ queue[m].work_type = "IFFT" /\ queue[m].tag = w
      BY <2>2
    <3>2. CASE m = n + 1
      BY <1>7, <1>8, <3>1, <3>2 DEF ResultFits
    <3>3. CASE m # n + 1
      <4>1. m > n + 1
        BY <1>1, <3>1, <3>3
      <4> QED BY <3>1, <4>1
    <3> QED BY <3>2, <3>3
  <2> QED BY <1>4, <1>8, <2>1, <2>2 DEF Transformed
<1>9. Transformed(ts.s, queue, round, ThisProof, {m \in Unhandled : m > n + 1})
  BY <1>8 DEF Transformed
<1> QED BY <1>3, <1>4, <1>7, <1>9 DEF SoundAfter, ResultFits

LEMMA ProcessQueueKeeps == ProverInv /\ ProcessQueue => ProverInv'
<1> SUFFICES ASSUME ProverInv, ProcessQueue PROVE ProverInv'
  OBVIOUS
<1>1. Len(queue) \in Nat /\ DOMAIN queue = 1 .. Len(queue)
  BY DEF ProverInv
<1> DEFINE S == {n \in Nat : n <= Len(queue) => SoundAfter(n)}
<1>2. 0 \in S
  <2>1. PICK v : v = [t |-> transcript, s |-> store]
    OBVIOUS
  <2>2. ProcessedItems[0] = v
    BY <1>1, <2>1, ItemByItem
  <2>3. {m \in Unhandled : m > 0} = Unhandled
    BY <1>1 DEF Unhandled
  <2>4. v = [t |-> v.t, s |-> v.s] /\ v.t = transcript /\ v.s = store
    BY <2>1
  <2>5. SoundAfter(0)
    BY <2>2, <2>3, <2>4 DEF SoundAfter, ProverInv
  <2> QED BY <2>5
<1>3. ASSUME NEW n \in Nat, n \in S PROVE n + 1 \in S
  <2> SUFFICES ASSUME n + 1 <= Len(queue) PROVE SoundAfter(n + 1)
    OBVIOUS
  <2>1. n \in 0 .. Len(queue) - 1 /\ SoundAfter(n)
    BY <1>1, <1>3
  <2> QED BY <2>1, EveryItemIsSound
<1>4. SoundAfter(Len(queue))
  <2>1. Nat \subseteq S
    <3> HIDE DEF S
    <3> QED BY <1>2, <1>3, InductionOverSet
  <2> QED BY <1>1, <2>1
<1>5. PICK v : v = Processed
  OBVIOUS
<1>6. /\ Sound(v.t, v.s, queue, round, ThisProof)
      /\ v.t.current_round = transcript.current_round
      /\ Transformed(v.s, queue, round, ThisProof, {m \in Unhandled : m > Len(queue)})
  BY <1>4, <1>5 DEF SoundAfter, Processed
<1>7. /\ transcript' = v.t /\ store' = v.s /\ queue' = << >> /\ handled' = {} /\ inflight' = {}
      /\ round' = round /\ proofs' = proofs
  BY <1>5 DEF ProcessQueue
<1>8. DOMAIN queue' = {} /\ Len(queue') = 0 /\ DOMAIN queue' = 1 .. 0
  BY <1>7
<1>9. ThisProof' = ThisProof
  BY <1>7 DEF ThisProof
<1>10. Sound(v.t, v.s, queue', round, ThisProof)
  BY <1>6, <1>8 DEF Sound
<1>11. {m \in Unhandled : m > Len(queue)} = {}
  BY <1>1 DEF Unhandled
<1>12. Transformed(v.s, queue', round, ThisProof, Unhandled')
  BY <1>6, <1>11 DEF Transformed
<1>13. TypeOK'
  BY <1>6, <1>7 DEF ProverInv, TypeOK
<1>14. WorkersSound' /\ ProofsBlinded'
  BY <1>7 DEF ProverInv, WorkersSound, ProofsBlinded
<1>15. (round' \in 1 .. 7 => Len(proofs') < MaxProofs) /\ (round' = 8 => queue' = << >>)
  BY <1>7 DEF ProverInv
<1> QED BY <1>7, <1>8, <1>9, <1>10, <1>12, <1>13, <1>14, <1>15 DEF ProverInv

\* Of two items of one type, the later has the greater number.
LEMMA NumbersDiffer ==
    ASSUME ProverInv, NEW m \in DOMAIN queue, NEW n \in DOMAIN queue,
           queue[m].work_type = queue[n].work_type, Number(m) = Number(n)
    PROVE  m = n
<1>1. DOMAIN queue = 1 .. Len(queue) /\ Len(queue) \in Nat
  BY DEF ProverInv
<1>2. ASSUME NEW a \in DOMAIN queue, NEW b \in DOMAIN queue, a < b,
             queue[a].work_type = queue[b].work_type, Number(a) = Number(b)
      PROVE  FALSE
  <2> DEFINE upTo(c) == {k \in 1 .. c : queue[k].work_type = queue[c].work_type}
  <2>1. IsFiniteSet(1 .. b)
    BY <1>1, FS_Interval
  <2>2. upTo(b) \in SUBSET (1 .. b) /\ upTo(a) \in SUBSET upTo(b)
    BY <1>1, <1>2
  <2>3. b \in upTo(b) /\ b \notin upTo(a)
    BY <1>1, <1>2
  <2>4. Number(a) = Cardinality(upTo(a)) /\ Number(b) = Cardinality(upTo(b))
    BY DEF Number
  <2> HIDE DEF upTo
  <2>5. IsFiniteSet(upTo(b))
    BY <2>1, <2>2, FS_Subset
  <2>6. upTo(a) = upTo(b)
    BY <1>2, <2>2, <2>4, <2>5, FS_Subset
  <2> QED BY <2>3, <2>6
<1> QED BY <1>1, <1>2

\* The item a worker holds.
LEMMA TargetIsQueued ==
    ASSUME ProverInv, NEW type, NEW k \in NumbersOf(type)
    PROVE  \E n \in DOMAIN queue : queue[n].work_type = type /\ Number(n) = k /\ Item(type, k) = queue[n]
<1>1. \E n \in PlacesOf(type) : Number(n) = k
  BY DEF NumbersOf
<1>2. PICK n : n = CHOOSE m \in PlacesOf(type) : Number(m) = k
  OBVIOUS
<1>3. n \in PlacesOf(type) /\ Number(n) = k
  BY <1>1, <1>2
<1> QED BY <1>2, <1>3 DEF Item, PlacesOf

LEMMA FetchKeeps ==
    ASSUME ProverInv, NEW type \in WorkerTypes, NEW k, Fetch(type, k)
    PROVE  ProverInv'
<1>1. /\ k \in NumbersOf(type) /\ <<type, k>> \notin handled
      /\ \A r \in inflight : r.item # <<type, k>>
      /\ transcript' = transcript /\ store' = store /\ queue' = queue /\ handled' = handled
      /\ round' = round /\ proofs' = proofs
  BY DEF Fetch, keyVars
<1>2. PICK new : new = [item |-> <<type, k>>, result |-> Computed(Item(type, k), store)]
  OBVIOUS
<1>3. inflight' = inflight \cup {new}
  BY <1>2 DEF Fetch
<1>4. new.item = <<type, k>> /\ new.item[1] = type /\ new.item[2] = k /\ new.result = Computed(Item(type, k), store)
  BY <1>2
<1>5. \A t : NumbersOf(t)' = NumbersOf(t)
  BY <1>1 DEF NumbersOf, PlacesOf, Number
<1>6. Unhandled' = Unhandled /\ ThisProof' = ThisProof
  BY <1>1 DEF Unhandled, Number, ThisProof
<1>7. TypeOK'
  <2>1. \A r \in inflight' : r.item \notin handled'
    BY <1>1, <1>3, <1>4 DEF ProverInv, TypeOK
  <2>2. \A item \in handled' \cup {r.item : r \in inflight'} : item[2] \in NumbersOf(item[1])
    BY <1>1, <1>3, <1>4 DEF ProverInv, TypeOK
  <2>3. \A item \in handled' \cup {r.item : r \in inflight'} : item[2] \in NumbersOf(item[1])'
    BY <1>5, <2>2
  <2> QED BY <1>1, <2>1, <2>3 DEF ProverInv, TypeOK
<1>8. WorkersSound'
  <2>1. ASSUME NEW r \in inflight'
        PROVE  /\ r.item = <<r.item[1], r.item[2]>>
               /\ r.item[1] \in WorkerTypes /\ r.item[2] \in NumbersOf(r.item[1])
               /\ r.item \notin handled
               /\ \A q \in inflight' : q.item = r.item => q = r
               /\ r.result = Computed(Target(r), store)
    <3>1. CASE r \in inflight
      <4>1. /\ r.item = <<r.item[1], r.item[2]>>
            /\ r.item[1] \in WorkerTypes /\ r.item[2] \in NumbersOf(r.item[1])
            /\ r.item \notin handled
            /\ \A q \in inflight : q.item = r.item => q = r
            /\ r.result = Computed(Target(r), store)
        BY <3>1 DEF ProverInv, WorkersSound
      <4>2. r.item # new.item
        BY <1>1, <1>4, <3>1
      <4> QED BY <1>3, <4>1, <4>2
    <3>2. CASE r = new
      <4>1. r.result = Computed(Target(r), store)
        BY <1>4, <3>2 DEF Target
      <4>2. \A q \in inflight' : q.item = r.item => q = r
        BY <1>1, <1>3, <1>4, <3>2
      <4> QED BY <1>1, <1>4, <3>2, <4>1, <4>2
    <3> QED BY <1>3, <3>1, <3>2
  <2>2. \A r : Target(r)' = Target(r)
    BY <1>1 DEF Target, Item, PlacesOf, Number
  <2> QED BY <1>1, <1>5, <2>1, <2>2 DEF WorkersSound
<1>9. ProofsBlinded'
  BY <1>1 DEF ProverInv, ProofsBlinded
<1> QED BY <1>1, <1>6, <1>7, <1>8, <1>9 DEF ProverInv

LEMMA PutBackKeeps ==
    ASSUME ProverInv, NEW r \in inflight, PutBack(r)
    PROVE  ProverInv'
<1>1. /\ r.item = <<r.item[1], r.item[2]>>
      /\ r.item[1] \in WorkerTypes /\ r.item[2] \in NumbersOf(r.item[1])
      /\ \A q \in inflight : q.item = r.item => q = r
      /\ r.result = Computed(Target(r), store)
  BY DEF ProverInv, WorkersSound
<1>2. PICK n \in DOMAIN queue : /\ queue[n].work_type = r.item[1] /\ Number(n) = r.item[2]
                                /\ Target(r) = queue[n]
  BY <1>1, TargetIsQueued DEF Target
<1>3. PICK ts : ts = Delivered(queue[n], Computed(queue[n], store), [t |-> transcript, s |-> store])
  OBVIOUS
<1>4. /\ transcript' = ts.t /\ store' = ts.s
      /\ inflight' = inflight \ {r} /\ handled' = handled \cup {r.item}
      /\ queue' = queue /\ round' = round /\ proofs' = proofs
  BY <1>1, <1>2, <1>3 DEF PutBack
<1>5. ResultFits(ts, transcript, store, queue[n], queue, round, ThisProof)
  BY <1>3, ResultIsSound DEF ProverInv, TypeOK
<1>6. \A t : NumbersOf(t)' = NumbersOf(t)
  BY <1>4 DEF NumbersOf, PlacesOf, Number
<1>7. \A q : Target(q)' = Target(q)
  BY <1>4 DEF Target, Item, PlacesOf, Number
<1>8. ThisProof' = ThisProof
  BY <1>4 DEF ThisProof
<1>9. TypeOK'
  <2>1. \A q \in inflight' : q.item \notin handled'
    BY <1>1, <1>4 DEF ProverInv, TypeOK
  <2>2. \A item \in handled' \cup {q.item : q \in inflight'} : item[2] \in NumbersOf(item[1])
    BY <1>1, <1>4 DEF ProverInv, TypeOK
  <2>3. \A item \in handled' \cup {q.item : q \in inflight'} : item[2] \in NumbersOf(item[1])'
    BY <1>6, <2>2
  <2>4. transcript'.current_round = transcript.current_round
    BY <1>4, <1>5 DEF ResultFits
  <2> QED BY <1>4, <2>1, <2>3, <2>4 DEF ProverInv, TypeOK
<1>10. WorkersSound'
  <2>1. ASSUME NEW q \in inflight'
        PROVE  /\ q.item = <<q.item[1], q.item[2]>>
               /\ q.item[1] \in WorkerTypes /\ q.item[2] \in NumbersOf(q.item[1])
               /\ q.item \notin handled'
               /\ \A p \in inflight' : p.item = q.item => p = q
               /\ q.result = Computed(Target(q), store')
    <3>1. /\ q \in inflight /\ q # r
          /\ q.item = <<q.item[1], q.item[2]>>
          /\ q.item[1] \in WorkerTypes /\ q.item[2] \in NumbersOf(q.item[1])
          /\ q.item \notin handled
          /\ \A p \in inflight : p.item = q.item => p = q
          /\ q.result = Computed(Target(q), store)
      BY <1>4 DEF ProverInv, WorkersSound
    <3>2. q.item \notin handled'
      BY <1>1, <1>4, <3>1
    <3>3. PICK m \in DOMAIN queue : queue[m].work_type = q.item[1] /\ Target(q) = queue[m]
      BY <3>1, TargetIsQueued DEF Target
    <3>4. ItemFits(queue[m], store, round) /\ queue[m].work_type \in WorkerTypes
      BY <3>1, <3>3 DEF ProverInv, Sound
    <3>5. Computed(queue[m], store') = Computed(queue[m], store)
      <4>1. CASE queue[m].work_type = "SCALAR_MULTIPLICATION"
        BY <4>1 DEF Computed
      <4>2. CASE queue[m].work_type = "IFFT"
        <5>1. queue[m].tag \in FirstWires
          BY <3>4, <4>2 DEF ItemFits
        <5>2. store'[InLagrange(queue[m].tag)] = store[InLagrange(queue[m].tag)]
          BY <1>4, <1>5, <5>1, FinalRounds DEF ResultFits
        <5> QED BY <4>2, <5>2 DEF Computed, InLagrange
      <4> QED BY <3>4, <4>1, <4>2 DEF WorkerTypes
    <3> QED BY <1>4, <3>1, <3>2, <3>3, <3>5
  <2> QED BY <1>6, <1>7, <2>1 DEF WorkersSound
<1>11. \A m \in Unhandled : m = n \/ m \in Unhandled'
  <2> SUFFICES ASSUME NEW m \in Unhandled, m # n PROVE m \in Unhandled'
    OBVIOUS
  <2>1. m \in DOMAIN queue /\ <<queue[m].work_type, Number(m)>> \notin handled
    BY DEF Unhandled
  <2>2. <<queue[m].work_type, Number(m)>> # r.item
    BY <1>1, <1>2, <2>1, NumbersDiffer
  <2>3. Number(m)' = Number(m)
    BY <1>4 DEF Number
  <2> QED BY <1>4, <2>1, <2>2, <2>3 DEF Unhandled
<1>12. Transformed(ts.s, queue, round, ThisProof, Unhandled')
  <2> SUFFICES ASSUME round = 1, NEW w \in FirstWires
               PROVE  \/ \E m \in Unhandled' : queue[m].work_type = "IFFT" /\ queue[m].tag = w
                      \/ InMonomial(w) \in DOMAIN ts.s /\ ts.s[InMonomial(w)].blind = ThisProof
    BY DEF Transformed
  <2>1. CASE InMonomial(w) \in DOMAIN store /\ store[InMonomial(w)].blind = ThisProof
    BY <1>5, <2>1 DEF ResultFits
  <2>2. CASE \E m \in Unhandled : queue[m].work_type = "IFFT" /\ queue[m].tag = w
    BY <1>5, <1>11, <2>2 DEF ResultFits
  <2> QED BY <2>1, <2>2 DEF ProverInv, Transformed
<1>13. Sound(ts.t, ts.s, queue, round, ThisProof)
  BY <1>5 DEF ResultFits
<1>14. ProofsBlinded'
  BY <1>4 DEF ProverInv, ProofsBlinded
<1> QED BY <1>4, <1>8, <1>9, <1>10, <1>12, <1>13, <1>14 DEF ProverInv

-----------------------------------------------------------------------------
LEMMA InitIsSound == Init => ProverInv
<1> SUFFICES ASSUME Init PROVE ProverInv
  OBVIOUS
<1>1. /\ transcript = NewTranscript /\ queue = << >> /\ inflight = {} /\ handled = {}
      /\ round = 0 /\ proofs = << >>
      /\ store = [key \in {"lagrange"} \X ToSet(Wires) |-> NewWire(key[2])]
  BY DEF Init
<1>2. IsTranscript(transcript) /\ transcript.current_round = 0 /\ transcript.elements = Nothing
  BY <1>1 DEF NewTranscript, IsTranscript
<1>3. TypeOK
  <2>1. transcript.current_round = <<0, 1, 1, 2, 3, 4, 5, 6, 6>>[0 + 1]
    BY <1>2
  <2>2. Len(proofs) \in 0 .. MaxProofs
    BY <1>1, ProverAssumption
  <2> QED BY <1>1, <2>1, <2>2 DEF TypeOK
<1>4. ToSet(Wires) = AllWires
  BY DEF ToSet, Wires, AllWires
<1>5. Stored(store, 0)
  <2>1. ASSUME NEW w \in AllWires
        PROVE  InLagrange(w) \in DOMAIN store /\ store[InLagrange(w)] = NewWire(w)
    BY <1>1, <1>4 DEF InLagrange
  <2>2. \A w : IsWire(NewWire(w))
    BY DEF IsWire, NewWire
  <2> QED BY <2>1, <2>2, FinalRounds DEF Stored
<1>6. DOMAIN queue = {} /\ Len(queue) = 0 /\ DOMAIN queue = 1 .. 0
  BY <1>1
<1>7. DOMAIN transcript.elements = {}
  BY <1>2 DEF Nothing
<1>8. Sound(transcript, store, queue, 0, ThisProof)
  BY <1>2, <1>5, <1>6, <1>7, FinalRounds DEF Sound, Bound, Blinded
<1>9. Transformed(store, queue, 0, ThisProof, Unhandled) /\ WorkersSound
  BY <1>1 DEF Transformed, WorkersSound
<1>10. ProofsBlinded
  <2>1. proofs \in Seq({})
    BY <1>1
  <2> QED BY <1>1, <2>1 DEF ProofsBlinded
<1> QED BY <1>1, <1>3, <1>6, <1>8, <1>9, <1>10 DEF ProverInv

LEMMA NextKeeps == ProverInv /\ [Next]_vars => ProverInv'
<1> SUFFICES ASSUME ProverInv, [Next]_vars PROVE ProverInv'
  OBVIOUS
<1>1. CASE Round
  BY <1>1, PreambleKeeps, FirstKeeps, SecondKeeps, ThirdKeeps, FourthKeeps, FifthKeeps, SixthKeeps, ExportKeeps
     DEF Round
<1>2. CASE Reset
  BY <1>2, ResetKeeps
<1>3. CASE ProcessQueue
  BY <1>3, ProcessQueueKeeps
<1>4. CASE Worker
  BY <1>4, FetchKeeps, PutBackKeeps DEF Worker
<1>5. CASE UNCHANGED vars
  <2>1. /\ transcript' = transcript /\ store' = store /\ queue' = queue /\ inflight' = inflight
        /\ handled' = handled /\ round' = round /\ proofs' = proofs
    BY <1>5 DEF vars, keyVars, driverVars
  <2>2. /\ \A t : NumbersOf(t)' = NumbersOf(t)
        /\ \A r : Target(r)' = Target(r)
        /\ Unhandled' = Unhandled /\ ThisProof' = ThisProof
    BY <2>1 DEF NumbersOf, PlacesOf, Number, Target, Item, Unhandled, ThisProof
  <2>3. TypeOK' /\ WorkersSound' /\ ProofsBlinded'
    BY <2>1, <2>2 DEF ProverInv, TypeOK, WorkersSound, ProofsBlinded
  <2> QED BY <2>1, <2>2, <2>3 DEF ProverInv
<1> QED BY <1>1, <1>2, <1>3, <1>4, <1>5 DEF Next

THEOREM ProverInvariant == Spec => []ProverInv
<1>1. Init => ProverInv
  BY InitIsSound
<1>2. ProverInv /\ [Next]_vars => ProverInv'
  BY NextKeeps
<1> QED BY <1>1, <1>2, PTL DEF Spec

\* The transcript keeps pace with the rounds, and what is in flight or was
\* handled is an item of the queue, once.
THEOREM ProverTypeCorrect == Spec => []TypeOK
<1>1. ProverInv => TypeOK
  BY DEF ProverInv
<1> QED BY <1>1, ProverInvariant, PTL

\* A commitment is of the polynomial that is stored under its name, in every
\* state: whoever computed it, in whatever order the results came back, and
\* whatever the rounds did to the store since.
THEOREM CommitmentsBindTheStore == Spec => []CommittedIsStored
<1>1. ProverInv => CommittedIsStored
  BY DEF ProverInv, Sound, Bound, CommittedIsStored, Monomial, InMonomial
<1> QED BY <1>1, ProverInvariant, PTL

\* No commitment to a witness polynomial is in two proofs of one prover.
THEOREM NoCommitmentTwice == Spec => []BlindedAfresh
<1>1. ProverInv => BlindedAfresh
  <2> SUFFICES ASSUME ProverInv, NEW j \in DOMAIN proofs, NEW k \in DOMAIN proofs, j # k,
                      NEW i \in DOMAIN ProofNames, ProofNames[i] \in Commitments
               PROVE  proofs[j][i] # proofs[k][i]
    BY DEF BlindedAfresh
  <2>1. proofs[j][i].blind = j /\ proofs[k][i].blind = k
    BY DEF ProverInv, ProofsBlinded
  <2> QED BY <2>1
<1> QED BY <1>1, ProverInvariant, PTL

-----------------------------------------------------------------------------
(***************************************************************************)
(* What the verifier checks.  First the challenges: every one is of the    *)
(* data the transcript holds, in a chain.                                  *)
(***************************************************************************)
Start(t, r) ==
    IF r = 0 THEN NoPrefix ELSE t.challenges[ChallengeName(r - 1)][NumChallenges(r - 1) - 1]

Chained(t) ==
    /\ t.current_round \in 0 .. 7
    /\ t.current_round # 0 => t.current_challenge = Start(t, t.current_round)
    /\ DOMAIN t.challenges = {ChallengeName(r) : r \in 0 .. t.current_round - 1}
    /\ \A r \in 0 .. t.current_round - 1 :
         /\ Names(r) \subseteq DOMAIN t.elements
         /\ t.challenges[ChallengeName(r)] = RoundChallenges(Hash(Start(t, r), RoundData(t, r)), NumChallenges(r))

(***************************************************************************)
(* Then the elements: whatever a result or a round brings to a transcript  *)
(* t is what belongs there, given the monomial forms in the store s and    *)
(* the parts ps of the quotient; r is the round.                           *)
(***************************************************************************)
InFft(p) == <<"fft", p>>
Forms(s) == [p \in Polys |-> s[InMonomial(p)]]

Belongs(x, value, t, s, ps, r) ==
    /\ x \in DOMAIN Sizes => value = Sizes[x]
    /\ \A i \in 1 .. 4 : x = QuotientLabel[i] => r >= 5 /\ value = ps[i - 1]
    /\ x = "t" => r >= 6 /\ value = Evaluation(Combined(ps), Challenge(t, "z"), FALSE)
    /\ x \in Polys => r >= 6 /\ value = Evaluation(s[InMonomial(x)], Challenge(t, "z"), FALSE)
    /\ \A p \in Polys : x = Omega[p] => r >= 6 /\ value = Evaluation(s[InMonomial(p)], Challenge(t, "z"), TRUE)
    /\ x = "PI_Z" => r >= 7 /\ value = Opening(Over([t |-> Combined(ps)], Forms(s)), t)
    /\ x = "PI_Z_OMEGA" => r >= 7 /\ value = Opening(Forms(s), t)

ElementsBelong(t, s, ps, r) == \A x \in DOMAIN t.elements : Belongs(x, t.elements[x], t, s, ps, r)

QueueBelongs(q, t, s, ps, r) ==
    \A n \in DOMAIN q : q[n].work_type = "SCALAR_MULTIPLICATION" =>
        Belongs(q[n].tag, q[n].scalars, t, s, ps, r)

(***************************************************************************)
(* The store: the forms of a polynomial match, unless an item that is      *)
(* still to come will see to that; todo are the places of those items.     *)
(***************************************************************************)
Match(s, x, y) == x \in DOMAIN s /\ y \in DOMAIN s /\ s[x] = s[y]

Pending(q, todo, type, p) == \E n \in todo : q[n].work_type = type /\ q[n].tag = p

FormsMatch(s, q, r, todo) ==
    /\ r = 1 => \A w \in FirstWires : Pending(q, todo, "IFFT", w) \/ Match(s, InMonomial(w), InLagrange(w))
    /\ r \in 2 .. 7 => \A w \in FirstWires : Match(s, InMonomial(w), InLagrange(w))
    /\ r \in 3 .. 7 => Match(s, InMonomial("w_4"), InLagrange("w_4")) /\ Match(s, InMonomial("s"), InLagrange("s"))
    /\ r = 3 => Pending(q, todo, "FFT", "s") \/ Match(s, InFft("s"), InMonomial("s"))
    /\ r = 4 => \A p \in Polys : Pending(q, todo, "FFT", p) \/ Match(s, InFft(p), InMonomial(p))

(***************************************************************************)
(* And the polynomials: they are made of each other as the identities say, *)
(* with the challenges of t; first of all proofs, or of every one when     *)
(* there are no memory records.                                            *)
(***************************************************************************)
SortedListRight(s, t) == s[InMonomial("s")].sorted_by = Challenge(t, "eta")

ProductsRight(s, t) ==
    LET wires == [k \in 1 .. 4 |-> s[InMonomial(Wires[k])]]
    IN  /\ s[InMonomial("z_perm")].product = wires
        /\ s[InMonomial("z_perm")].beta = Challenge(t, "beta")
        /\ s[InMonomial("z_lookup")].lookups = SubSeq(wires, 1, 3)
        /\ s[InMonomial("z_lookup")].s = s[InMonomial("s")]
        /\ s[InMonomial("z_lookup")].eta = Challenge(t, "eta")
        /\ s[InMonomial("z_lookup")].beta = Challenge(t, "beta")

RecordsRight(s, t, r) ==
    IF memory /\ r \in 3 .. 7 THEN s[InLagrange("w_4")].etas = <<Challenge(t, "eta")>>
                              ELSE s[InLagrange("w_4")].etas = << >>

ContentRight(s, t, ps, r, k) ==
    /\ r \in 3 .. 7 => SortedListRight(s, t)
    /\ r \in 4 .. 7 => ProductsRight(s, t)
    /\ r \in 5 .. 7 => ps = QuotientParts(Quotient(Forms(s), t))
    /\ (k = 1 /\ r \in 0 .. 7) \/ ~memory => RecordsRight(s, t, r)

\* The whole, of a transcript t and a store s.
Right(t, s, q, ps, r, todo, k) ==
    /\ ElementsBelong(t, s, ps, r)
    /\ QueueBelongs(q, t, s, ps, r)
    /\ FormsMatch(s, q, r, todo)
    /\ ContentRight(s, t, ps, r, k)

AcceptInv ==
    /\ Chained(transcript)
    /\ round \in 1 .. 7 => DOMAIN Sizes \subseteq DOMAIN transcript.elements
    /\ Right(transcript, store, queue, parts, round, Unhandled, ThisProof)
    /\ round = 8 => Len(proofs) # 0
    /\ ProofAccepted
-----------------------------------------------------------------------------
(***************************************************************************)
(* The manifest, round by round.                                           *)
(***************************************************************************)
LEMMA EntryIs ==
    ASSUME NEW names, NEW derived, NEW name, NEW n, NEW e, e = Entry(names, derived, name, n)
    PROVE  /\ e.challenge = name /\ e.num_challenges = n
           /\ DOMAIN e.elements = DOMAIN names
           /\ \A k \in DOMAIN names : e.elements[k].name = names[k]
                                      /\ e.elements[k].derived_by_verifier = (names[k] \in derived)
BY DEF Entry

LEMMA SevenRounds == num_rounds = 7 /\ Rounds = 0 .. 6
<1>1. num_rounds = 7
  BY ProverAssumption DEF num_rounds, UltraManifest
<1> QED BY <1>1 DEF Rounds

LEMMA ManifestRounds ==
    /\ RoundManifest(0) = Entry(<<"circuit_size", "public_input_size">>, {"circuit_size", "public_input_size"}, "init", 1)
    /\ RoundManifest(1) = Entry(<<"public_inputs", "W_1", "W_2", "W_3">>, {}, "eta", 1)
    /\ RoundManifest(2) = Entry(<<"W_4", "S">>, {}, "beta", 2)
    /\ RoundManifest(3) = Entry(<<"Z_PERM", "Z_LOOKUP">>, {}, "alpha", 1)
    /\ RoundManifest(4) = Entry(QuotientLabel, {}, "z", 1)
    /\ RoundManifest(5) = Entry(<<"t">> \o PolyNames \o [k \in DOMAIN PolyNames |-> Omega[PolyNames[k]]], {"t"}, "nu", 1)
    /\ RoundManifest(6) = Entry(<<"PI_Z", "PI_Z_OMEGA">>, {}, "separator", 1)
BY ProverAssumption DEF RoundManifest, UltraManifest

LEMMA ChallengesAre ==
    /\ ChallengeName(0) = "init" /\ ChallengeName(1) = "eta" /\ ChallengeName(2) = "beta"
    /\ ChallengeName(3) = "alpha" /\ ChallengeName(4) = "z" /\ ChallengeName(5) = "nu"
    /\ ChallengeName(6) = "separator"
    /\ \A r \in Rounds : NumChallenges(r) \in {1, 2}
<1> DEFINE m(r) == RoundManifest(r)
<1>1. m(0).challenge = "init" /\ m(0).num_challenges = 1
  BY ManifestRounds, EntryIs
<1>2. m(1).challenge = "eta" /\ m(1).num_challenges = 1
  BY ManifestRounds, EntryIs
<1>3. m(2).challenge = "beta" /\ m(2).num_challenges = 2
  BY ManifestRounds, EntryIs
<1>4. m(3).challenge = "alpha" /\ m(3).num_challenges = 1
  BY ManifestRounds, EntryIs
<1>5. m(4).challenge = "z" /\ m(4).num_challenges = 1
  BY ManifestRounds, EntryIs
<1>6. m(5).challenge = "nu" /\ m(5).num_challenges = 1
  BY ManifestRounds, EntryIs
<1>7. m(6).challenge = "separator" /\ m(6).num_challenges = 1
  BY ManifestRounds, EntryIs
<1> HIDE DEF m
<1>8. \A r \in Rounds : r = 0 \/ r = 1 \/ r = 2 \/ r = 3 \/ r = 4 \/ r = 5 \/ r = 6
  BY SevenRounds
<1>9. \A r : ChallengeName(r) = m(r).challenge /\ NumChallenges(r) = m(r).num_challenges
  BY DEF ChallengeName, NumChallenges, m
<1> QED BY <1>1, <1>2, <1>3, <1>4, <1>5, <1>6, <1>7, <1>8, <1>9

LEMMA NamesOfRound ==
    ASSUME NEW r, NEW names, NEW derived, NEW name, NEW n, RoundManifest(r) = Entry(names, derived, name, n)
    PROVE  Names(r) = {names[k] : k \in DOMAIN names}
<1>1. PICK e : e = Entry(names, derived, name, n)
  OBVIOUS
<1>2. /\ DOMAIN e.elements = DOMAIN names
      /\ \A k \in DOMAIN names : e.elements[k].name = names[k]
  BY <1>1, EntryIs
<1>3. Names(r) = {e.elements[k].name : k \in DOMAIN e.elements}
  BY <1>1 DEF Names, Entries
<1> QED BY <1>2, <1>3

LEMMA NamesAre ==
    /\ Names(0) = {"circuit_size", "public_input_size"}
    /\ Names(1) = {"public_inputs", "W_1", "W_2", "W_3"}
    /\ Names(2) = {"W_4", "S"}
    /\ Names(3) = {"Z_PERM", "Z_LOOKUP"}
    /\ Names(4) = {"T_1", "T_2", "T_3", "T_4"}
    /\ Names(6) = {"PI_Z", "PI_Z_OMEGA"}
<1>1. Names(0) = {<<"circuit_size", "public_input_size">>[k] : k \in DOMAIN <<"circuit_size", "public_input_size">>}
  BY ManifestRounds, NamesOfRound
<1>2. Names(1) = {<<"public_inputs", "W_1", "W_2", "W_3">>[k] : k \in DOMAIN <<"public_inputs", "W_1", "W_2", "W_3">>}
  BY ManifestRounds, NamesOfRound
<1>3. Names(2) = {<<"W_4", "S">>[k] : k \in DOMAIN <<"W_4", "S">>}
  BY ManifestRounds, NamesOfRound
<1>4. Names(3) = {<<"Z_PERM", "Z_LOOKUP">>[k] : k \in DOMAIN <<"Z_PERM", "Z_LOOKUP">>}
  BY ManifestRounds, NamesOfRound
<1>5. Names(4) = {QuotientLabel[k] : k \in DOMAIN QuotientLabel}
  BY ManifestRounds, NamesOfRound
<1>6. Names(6) = {<<"PI_Z", "PI_Z_OMEGA">>[k] : k \in DOMAIN <<"PI_Z", "PI_Z_OMEGA">>}
  BY ManifestRounds, NamesOfRound
<1> QED BY <1>1, <1>2, <1>3, <1>4, <1>5, <1>6 DEF QuotientLabel

\* The elements of the fifth round, of which the verifier derives one.
OpeningNames == <<"t">> \o PolyNames \o [k \in DOMAIN PolyNames |-> Omega[PolyNames[k]]]

LEMMA OpeningNamesAre ==
    /\ DOMAIN OpeningNames = 1 .. 15
    /\ OpeningNames[1] = "t"
    /\ \A k \in 1 .. 7 : OpeningNames[k + 1] = PolyNames[k] /\ OpeningNames[k + 8] = Omega[PolyNames[k]]
<1> DEFINE S == {"t"} \cup Polys \cup {Omega[p] : p \in Polys}
           omegas == [k \in DOMAIN PolyNames |-> Omega[PolyNames[k]]]
<1>1. PICK a : a = <<"t">>
  OBVIOUS
<1>2. PICK b : b = PolyNames
  OBVIOUS
<1>3. PICK c : c = omegas
  OBVIOUS
<1>4. Len(b) = 7 /\ DOMAIN b = 1 .. 7 /\ \A k \in 1 .. 7 : b[k] \in Polys
  BY <1>2, PolysAre DEF PolyNames
<1>5. a \in Seq(S) /\ b \in Seq(S) /\ c \in Seq(S) /\ Len(a) = 1 /\ Len(c) = 7
  <2>1. a \in Seq(S) /\ Len(a) = 1
    BY <1>1
  <2>2. b \in Seq(S)
    BY <1>2, PolysAre DEF PolyNames
  <2>3. c \in Seq(S) /\ Len(c) = 7
    BY <1>2, <1>3, <1>4
  <2> QED BY <2>1, <2>2, <2>3
<1> HIDE DEF S, omegas
<1>6. PICK d : d = a \o b
  OBVIOUS
<1>7. d \in Seq(S) /\ IsJoin(d, a, b)
  BY <1>5, <1>6, Joined, Zenon
<1>8. PICK f : f = d \o c
  OBVIOUS
<1>9. f \in Seq(S) /\ IsJoin(f, d, c)
  BY <1>5, <1>7, <1>8, Joined, Zenon
<1>10. OpeningNames = f
  BY <1>1, <1>2, <1>3, <1>6, <1>8, Zenon DEF OpeningNames, omegas
<1>11. Len(d) = 8 /\ d[1] = a[1] /\ \A k \in 1 .. 7 : d[k + 1] = b[k]
  <2>1. \A i \in 1 .. 8 : d[i] = IF i <= 1 THEN a[i] ELSE b[i - 1]
    BY <1>4, <1>5, <1>7 DEF IsJoin
  <2>2. \A k \in 1 .. 7 : k + 1 \in 1 .. 8 /\ ~ k + 1 <= 1 /\ (k + 1) - 1 = k
    OBVIOUS
  <2>3. Len(d) = 8
    BY <1>4, <1>5, <1>7 DEF IsJoin
  <2> QED BY <2>1, <2>2, <2>3
<1>12. Len(f) = 15 /\ DOMAIN f = 1 .. 15 /\ \A i \in 1 .. 15 : f[i] = IF i <= 8 THEN d[i] ELSE c[i - 8]
  BY <1>5, <1>9, <1>11 DEF IsJoin
<1>13. \A k \in 1 .. 7 : /\ k + 1 \in 1 .. 15 /\ k + 1 <= 8
                         /\ k + 8 \in 1 .. 15 /\ ~ k + 8 <= 8 /\ (k + 8) - 8 = k
  OBVIOUS
<1>14. \A k \in 1 .. 7 : f[k + 1] = b[k] /\ f[k + 8] = c[k]
  BY <1>11, <1>12, <1>13
<1>15. \A k \in 1 .. 7 : c[k] = Omega[PolyNames[k]]
  BY <1>2, <1>3, <1>4 DEF omegas
<1> QED BY <1>1, <1>2, <1>10, <1>11, <1>12, <1>14, <1>15

LEMMA OpeningNamesOfRound == Names(5) = {"t"} \cup Polys \cup {Omega[p] : p \in Polys}
<1>1. Names(5) = {OpeningNames[k] : k \in 1 .. 15}
  <2>1. RoundManifest(5) = Entry(OpeningNames, {"t"}, "nu", 1)
    BY ManifestRounds, Zenon DEF OpeningNames
  <2> QED BY <2>1, NamesOfRound, OpeningNamesAre
<1>2. Polys = {PolyNames[k] : k \in 1 .. 7}
  BY DEF Polys, ToSet, PolyNames
<1>3. \A k \in 1 .. 15 : k = 1 \/ (k - 1 \in 1 .. 7 /\ k = (k - 1) + 1) \/ (k - 8 \in 1 .. 7 /\ k = (k - 8) + 8)
  OBVIOUS
<1>4. ASSUME NEW x \in Names(5) PROVE x \in {"t"} \cup Polys \cup {Omega[p] : p \in Polys}
  <2>1. PICK k \in 1 .. 15 : x = OpeningNames[k]
    BY <1>1
  <2>2. CASE k = 1
    BY <2>1, <2>2, OpeningNamesAre
  <2>3. CASE k - 1 \in 1 .. 7 /\ k = (k - 1) + 1
    <3>1. x = PolyNames[k - 1]
      BY <2>1, <2>3, OpeningNamesAre
    <3> QED BY <1>2, <2>3, <3>1
  <2>4. CASE k - 8 \in 1 .. 7 /\ k = (k - 8) + 8
    <3>1. x = Omega[PolyNames[k - 8]]
      BY <2>1, <2>4, OpeningNamesAre
    <3> QED BY <1>2, <2>4, <3>1
  <2> QED BY <1>3, <2>2, <2>3, <2>4
<1>5. "t" \in Names(5)
  BY <1>1, OpeningNamesAre
<1>6. \A k \in 1 .. 7 : PolyNames[k] \in Names(5) /\ Omega[PolyNames[k]] \in Names(5)
  <2>1. \A k \in 1 .. 7 : k + 1 \in 1 .. 15 /\ k + 8 \in 1 .. 15
    OBVIOUS
  <2> QED BY <1>1, <2>1, OpeningNamesAre
<1> QED BY <1>2, <1>4, <1>5, <1>6

-----------------------------------------------------------------------------
(***************************************************************************)
(* The chain of the challenges.                                            *)
(***************************************************************************)
LEMMA HashedChallenges ==
    ASSUME NEW t, IsTranscript(t), NEW r, t.current_round = r, NumChallenges(r) # 0,
           NEW cs, cs = RoundChallenges(Hash(Prefix(t), RoundData(t, r)), NumChallenges(r)),
           NEW u, u = apply_fiat_shamir(t)
    PROVE  u.challenges = Inserted(t.challenges, ChallengeName(r), cs) /\ u.current_challenge = cs[NumChallenges(r) - 1]
<1>1. PICK e, c, d : t = [elements |-> e, current_round |-> r, current_challenge |-> c, challenges |-> d]
  BY DEF IsTranscript
<1>2. u = [[t EXCEPT !.current_round = r + 1]
             EXCEPT !.current_challenge = cs[NumChallenges(r) - 1],
                    !.challenges = Inserted(@, ChallengeName(r), cs)]
  BY DEF apply_fiat_shamir
<1>3. [t EXCEPT !.current_round = r + 1] = [elements |-> e, current_round |-> r + 1, current_challenge |-> c, challenges |-> d]
  BY <1>1
<1>4. PICK m, y : m = [t EXCEPT !.current_round = r + 1] /\ y = cs[NumChallenges(r) - 1]
  OBVIOUS
<1>5. u = [m EXCEPT !.current_challenge = y, !.challenges = Inserted(m.challenges, ChallengeName(r), cs)]
  BY <1>2, <1>4
<1>6. m = [elements |-> e, current_round |-> r + 1, current_challenge |-> c, challenges |-> d]
  BY <1>3, <1>4
<1>7. m.challenges = t.challenges
  BY <1>1, <1>6
<1>8. PICK z : z = Inserted(m.challenges, ChallengeName(r), cs)
  OBVIOUS
<1>9. u = [m EXCEPT !.current_challenge = y, !.challenges = z]
  BY <1>5, <1>8
<1>10. u.challenges = z /\ u.current_challenge = y
  BY <1>6, <1>9
<1> QED BY <1>4, <1>7, <1>8, <1>10

LEMMA NamesOfChallengesDiffer == \A q, r \in 0 .. 6 : q # r => ChallengeName(q) # ChallengeName(r)
BY ManifestAssumption, SevenRounds

\* Start and the data of a round are those of another transcript that agrees.
LEMMA SameStart ==
    ASSUME NEW t, NEW u, NEW r \in 0 .. 7,
           \A q \in 0 .. r - 1 : u.challenges[ChallengeName(q)] = t.challenges[ChallengeName(q)]
    PROVE  Start(u, r) = Start(t, r)
<1>1. r # 0 => r - 1 \in 0 .. r - 1
  OBVIOUS
<1> QED BY <1>1 DEF Start

LEMMA SameRoundData ==
    ASSUME NEW t, NEW u, NEW r, \A x \in Names(r) : u.elements[x] = t.elements[x]
    PROVE  RoundData(u, r) = RoundData(t, r)
<1>1. \A k \in DOMAIN Entries(r) : Entries(r)[k].name \in Names(r)
  BY DEF Names
<1> QED BY <1>1 DEF RoundData

LEMMA ChainGrows ==
    ASSUME NEW t, IsTranscript(t), Chained(t), NEW r \in 0 .. 6, t.current_round = r,
           Names(r) \subseteq DOMAIN t.elements, NEW u, u = apply_fiat_shamir(t)
    PROVE  /\ Chained(u) /\ u.current_round = r + 1
           /\ \A q \in 0 .. r - 1 : u.challenges[ChallengeName(q)] = t.challenges[ChallengeName(q)]
<1>1. NumChallenges(r) \in {1, 2}
  BY ChallengesAre, SevenRounds
<1>2. PICK cs : cs = RoundChallenges(Hash(Prefix(t), RoundData(t, r)), NumChallenges(r))
  OBVIOUS
<1>3. u.challenges = Inserted(t.challenges, ChallengeName(r), cs) /\ u.current_challenge = cs[NumChallenges(r) - 1]
  BY <1>1, <1>2, HashedChallenges
<1>4. u.elements = t.elements /\ u.current_round = r + 1
  BY HashAt
<1>5. Prefix(t) = Start(t, r)
  BY DEF Prefix, Chained, Start
<1>6. DOMAIN t.challenges = {ChallengeName(q) : q \in 0 .. r - 1}
  BY DEF Chained
<1>7. ChallengeName(r) \notin DOMAIN t.challenges
  <2>1. \A q \in 0 .. r - 1 : q \in 0 .. 6 /\ q # r
    OBVIOUS
  <2> QED BY <1>6, <2>1, NamesOfChallengesDiffer
<1>8. /\ DOMAIN u.challenges = DOMAIN t.challenges \cup {ChallengeName(r)}
      /\ \A q \in 0 .. r - 1 : u.challenges[ChallengeName(q)] = t.challenges[ChallengeName(q)]
      /\ u.challenges[ChallengeName(r)] = cs
  BY <1>3, <1>6, <1>7 DEF Inserted
<1>9. DOMAIN u.challenges = {ChallengeName(q) : q \in 0 .. (r + 1) - 1}
  <2>1. \A q : q \in 0 .. (r + 1) - 1 <=> q \in 0 .. r - 1 \/ q = r
    OBVIOUS
  <2> QED BY <1>6, <1>8, <2>1
<1>10. u.current_challenge = Start(u, r + 1)
  BY <1>3, <1>8 DEF Start
<1>11. ASSUME NEW q \in 0 .. (r + 1) - 1
       PROVE  /\ Names(q) \subseteq DOMAIN u.elements
              /\ u.challenges[ChallengeName(q)] = RoundChallenges(Hash(Start(u, q), RoundData(u, q)), NumChallenges(q))
  <2>1. Start(u, q) = Start(t, q)
    <3>1. q \in 0 .. 7 /\ \A p \in 0 .. q - 1 : p \in 0 .. r - 1
      OBVIOUS
    <3> QED BY <1>8, <3>1, SameStart
  <2>2. RoundData(u, q) = RoundData(t, q)
    BY <1>4, SameRoundData
  <2>3. CASE q = r
    BY <1>2, <1>4, <1>5, <1>8, <2>1, <2>2, <2>3
  <2>4. CASE q # r
    <3>1. q \in 0 .. r - 1 /\ q \in 0 .. t.current_round - 1
      BY <2>4
    <3> QED BY <1>4, <1>8, <2>1, <2>2, <3>1 DEF Chained
  <2> QED BY <2>3, <2>4
<1> QED BY <1>4, <1>8, <1>9, <1>10, <1>11 DEF Chained

\* Elements that come late change nothing of it.
LEMMA ChainStays ==
    ASSUME NEW t, Chained(t), NEW u, u.current_round = t.current_round,
           u.current_challenge = t.current_challenge, u.challenges = t.challenges,
           \A x \in DOMAIN t.elements : x \in DOMAIN u.elements /\ u.elements[x] = t.elements[x]
    PROVE  Chained(u)
<1>1. ASSUME NEW q \in 0 .. t.current_round - 1
      PROVE  /\ Names(q) \subseteq DOMAIN u.elements
             /\ u.challenges[ChallengeName(q)] = RoundChallenges(Hash(Start(u, q), RoundData(u, q)), NumChallenges(q))
  <2>1. Names(q) \subseteq DOMAIN t.elements
    BY DEF Chained
  <2>2. RoundData(u, q) = RoundData(t, q)
    BY <2>1, SameRoundData
  <2>3. Start(u, q) = Start(t, q)
    BY DEF Start
  <2> QED BY <2>1, <2>2, <2>3 DEF Chained
<1>2. Start(u, u.current_round) = Start(t, t.current_round)
  BY DEF Start
<1> QED BY <1>1, <1>2 DEF Chained

\* Two transcripts with the same data have the same challenges.
LEMMA SameChain ==
    ASSUME NEW t, Chained(t), NEW u, Chained(u), NEW n \in 0 .. 7, n <= t.current_round, n <= u.current_round,
           \A q \in 0 .. n - 1 : \A x \in Names(q) : u.elements[x] = t.elements[x]
    PROVE  \A q \in 0 .. n - 1 : u.challenges[ChallengeName(q)] = t.challenges[ChallengeName(q)]
<1> DEFINE S == {r \in Nat : r < n => u.challenges[ChallengeName(r)] = t.challenges[ChallengeName(r)]}
           D == (0 .. n - 1) \ S
<1>0. t.current_round \in 0 .. 7 /\ u.current_round \in 0 .. 7
  BY DEF Chained
<1> SUFFICES ASSUME D # {} PROVE FALSE
  OBVIOUS
<1>1. PICK r \in D : \A q \in D : r <= q
  <2>1. D \in SUBSET Nat
    OBVIOUS
  <2> HIDE DEF D
  <2> QED BY <2>1, LeastNumber
<1>2. r \in 0 .. n - 1 /\ r \in 0 .. 7 /\ \A q \in 0 .. r - 1 : q \in 0 .. n - 1 /\ q \notin D
  BY <1>1
<1>3. \A q \in 0 .. r - 1 : u.challenges[ChallengeName(q)] = t.challenges[ChallengeName(q)]
  BY <1>2
<1>4. Start(u, r) = Start(t, r)
  BY <1>2, <1>3, SameStart
<1>5. RoundData(u, r) = RoundData(t, r)
  BY <1>2, SameRoundData
<1>6. /\ u.challenges[ChallengeName(r)] = RoundChallenges(Hash(Start(u, r), RoundData(u, r)), NumChallenges(r))
      /\ t.challenges[ChallengeName(r)] = RoundChallenges(Hash(Start(t, r), RoundData(t, r)), NumChallenges(r))
  <2>1. r \in 0 .. t.current_round - 1 /\ r \in 0 .. u.current_round - 1
    BY <1>0, <1>2
  <2> QED BY <2>1 DEF Chained
<1>7. u.challenges[ChallengeName(r)] = t.challenges[ChallengeName(r)]
  BY <1>4, <1>5, <1>6
<1> QED BY <1>1, <1>2, <1>7

-----------------------------------------------------------------------------
(***************************************************************************)
(* The proof, and the transcript the verifier makes of it.                 *)
(***************************************************************************)
LEMMA ProofHasALength ==
    /\ IsFiniteSet(SentPlaces) /\ Cardinality(SentPlaces) \in Nat
    /\ DOMAIN ProofNames = 1 .. Cardinality(SentPlaces)
<1> DEFINE Of(r) == {r} \X DOMAIN Entries(r)
           places == {Of(r) : r \in Rounds}
<1>1. IsFiniteSet(Rounds)
  <2>1. 0 \in Int /\ num_rounds - 1 \in Int
    BY ManifestAssumption
  <2> QED BY <2>1, FS_Interval DEF Rounds
<1>2. IsFiniteSet(places)
  <2>1. [r \in Rounds |-> Of(r)] \in Surjection(Rounds, places)
    BY DEF Surjection
  <2> QED BY <1>1, <2>1, FS_Surjection
<1>3. \A part \in places : IsFiniteSet(part)
  <2> SUFFICES ASSUME NEW r \in Rounds PROVE IsFiniteSet(Of(r))
    OBVIOUS
  <2>1. IsFiniteSet({r}) /\ IsFiniteSet(DOMAIN Entries(r))
    BY ManifestAssumption, FS_Singleton
  <2> QED BY <2>1, FS_Product
<1>4. IsFiniteSet(UNION places)
  <2> HIDE DEF places
  <2> QED BY <1>2, <1>3, FS_UNION
<1>5. SentPlaces \in SUBSET (UNION places)
  BY DEF SentPlaces
<1> HIDE DEF places
<1>6. IsFiniteSet(SentPlaces)
  BY <1>4, <1>5, FS_Subset
<1> QED BY <1>6, FS_CardinalityType DEF ProofNames

LEMMA ProofIsLongEnough == ASSUME NEW t PROVE HasProofSize(export_transcript(t))
<1>1. PICK n \in Nat : DOMAIN ProofNames = 1 .. n
  BY ProofHasALength
<1>2. \A s : DOMAIN s = 1 .. n => Len(s) = n
  BY <1>1
<1> QED BY <1>1, <1>2 DEF HasProofSize, export_transcript

\* An element that is read is the one that was written under its name.
LEMMA ReadsWhatWasWritten ==
    ASSUME NEW t, NEW name \in ToSet(ProofNames)
    PROVE  FromProof(export_transcript(t)).elements[name] = t.elements[name]
<1> DEFINE first(k) == /\ ProofNames[k] = name
                       /\ \A j \in 1 .. k - 1 : ProofNames[j] # name
           At == {k \in DOMAIN ProofNames : ProofNames[k] = name}
<1>1. PICK n \in Nat : DOMAIN ProofNames = 1 .. n
  BY ProofHasALength
<1>2. \E k \in DOMAIN ProofNames : first(k)
  <2>1. At # {} /\ At \in SUBSET Nat
    BY <1>1 DEF ToSet
  <2>2. PICK k \in At : \A j \in At : k <= j
    <3> HIDE DEF At
    <3> QED BY <2>1, LeastNumber
  <2>3. \A j \in 1 .. k - 1 : j \notin At /\ j \in DOMAIN ProofNames
    BY <1>1, <2>2
  <2> QED BY <2>2, <2>3
<1>3. PICK k : k = CHOOSE i \in DOMAIN ProofNames : first(i)
  OBVIOUS
<1>4. k \in DOMAIN ProofNames /\ ProofNames[k] = name
  BY <1>2, <1>3
<1>5. export_transcript(t)[k] = t.elements[name]
  BY <1>4 DEF export_transcript
<1>6. FromProof(export_transcript(t)).elements[name] = export_transcript(t)[CHOOSE i \in DOMAIN ProofNames : first(i)]
  BY DEF FromProof, NewTranscript
<1> QED BY <1>3, <1>5, <1>6

LEMMA PlacesAreNumbers == \A r \in Rounds : r \in Nat /\ DOMAIN Entries(r) \subseteq Nat
<1> DEFINE m(r) == RoundManifest(r)
<1>1. DOMAIN m(0).elements = DOMAIN <<"circuit_size", "public_input_size">>
  BY ManifestRounds, EntryIs
<1>2. DOMAIN m(1).elements = DOMAIN <<"public_inputs", "W_1", "W_2", "W_3">>
  BY ManifestRounds, EntryIs
<1>3. DOMAIN m(2).elements = DOMAIN <<"W_4", "S">>
  BY ManifestRounds, EntryIs
<1>4. DOMAIN m(3).elements = DOMAIN <<"Z_PERM", "Z_LOOKUP">>
  BY ManifestRounds, EntryIs
<1>5. DOMAIN m(4).elements = DOMAIN QuotientLabel
  BY ManifestRounds, EntryIs
<1>6. DOMAIN m(5).elements = DOMAIN OpeningNames
  <2>1. RoundManifest(5) = Entry(OpeningNames, {"t"}, "nu", 1)
    BY ManifestRounds, Zenon DEF OpeningNames
  <2> QED BY <2>1, EntryIs
<1>7. DOMAIN m(6).elements = DOMAIN <<"PI_Z", "PI_Z_OMEGA">>
  BY ManifestRounds, EntryIs
<1> HIDE DEF m
<1>8. \A r \in Rounds : r = 0 \/ r = 1 \/ r = 2 \/ r = 3 \/ r = 4 \/ r = 5 \/ r = 6
  BY SevenRounds
<1>9. /\ DOMAIN m(0).elements \subseteq Nat /\ DOMAIN m(1).elements \subseteq Nat /\ DOMAIN m(2).elements \subseteq Nat
      /\ DOMAIN m(3).elements \subseteq Nat /\ DOMAIN m(4).elements \subseteq Nat /\ DOMAIN m(6).elements \subseteq Nat
  BY <1>1, <1>2, <1>3, <1>4, <1>5, <1>7 DEF QuotientLabel
<1>10. DOMAIN m(5).elements \subseteq Nat
  BY <1>6, OpeningNamesAre
<1>11. \A r : Entries(r) = m(r).elements
  BY DEF Entries, m
<1> QED BY <1>8, <1>9, <1>10, <1>11, SevenRounds

\* The place of an element is the only one with its rank.
LEMMA EveryPlaceHasItsRank ==
    ASSUME NEW p \in SentPlaces
    PROVE  \E n \in 1 .. Cardinality(SentPlaces) :
             \A q \in SentPlaces : Cardinality({x \in SentPlaces : Precedes(x, q)}) = n - 1 <=> q = p
<1> DEFINE Below(q) == {x \in SentPlaces : Precedes(x, q)}
<1>1. \A q \in SentPlaces : q = <<q[1], q[2]>> /\ q[1] \in Nat /\ q[2] \in Nat
  BY PlacesAreNumbers DEF SentPlaces
<1>2. IsFiniteSet(SentPlaces) /\ Cardinality(SentPlaces) \in Nat
  BY ProofHasALength
<1>3. \A q \in SentPlaces : IsFiniteSet(Below(q)) /\ Cardinality(Below(q)) \in Nat
  BY <1>2, FS_Subset, FS_CardinalityType
<1>4. ASSUME NEW q \in SentPlaces, NEW x \in SentPlaces, Precedes(q, x)
      PROVE  Cardinality(Below(q)) # Cardinality(Below(x))
  <2>1. Below(q) \in SUBSET Below(x)
    <3> SUFFICES ASSUME NEW y \in SentPlaces, Precedes(y, q) PROVE Precedes(y, x)
      OBVIOUS
    <3> QED BY <1>1, <1>4 DEF Precedes
  <2>2. q \in Below(x) /\ q \notin Below(q)
    BY <1>1, <1>4 DEF Precedes
  <2> HIDE DEF Below
  <2> QED BY <1>3, <2>1, <2>2, FS_Subset
<1>5. ASSUME NEW q \in SentPlaces, q # p PROVE Cardinality(Below(q)) # Cardinality(Below(p))
  <2>1. Precedes(q, p) \/ Precedes(p, q)
    BY <1>1, <1>5 DEF Precedes
  <2> HIDE DEF Below
  <2> QED BY <1>4, <2>1
<1>6. Cardinality(Below(p)) \in 0 .. Cardinality(SentPlaces) - 1
  <2>1. Below(p) \in SUBSET SentPlaces
    OBVIOUS
  <2>2. p \notin Below(p)
    BY <1>1 DEF Precedes
  <2> HIDE DEF Below
  <2>3. /\ Cardinality(Below(p)) <= Cardinality(SentPlaces)
        /\ Cardinality(Below(p)) = Cardinality(SentPlaces) => Below(p) = SentPlaces
    BY <1>2, <2>1, FS_Subset
  <2> QED BY <1>2, <1>3, <2>2, <2>3
<1>7. PICK n \in 1 .. Cardinality(SentPlaces) : n - 1 = Cardinality(Below(p))
  <2> HIDE DEF Below
  <2>1. Cardinality(Below(p)) + 1 \in 1 .. Cardinality(SentPlaces)
    BY <1>2, <1>6
  <2> QED BY <1>6, <2>1
<1> QED BY <1>5, <1>7

LEMMA SentNamesAreInTheProof ==
    ASSUME NEW r \in Rounds, NEW k \in DOMAIN Entries(r), ~Entries(r)[k].derived_by_verifier
    PROVE  Entries(r)[k].name \in ToSet(ProofNames)
<1>1. PICK p : p = <<r, k>>
  OBVIOUS
<1>2. p \in SentPlaces
  BY <1>1 DEF SentPlaces
<1>3. PICK n \in 1 .. Cardinality(SentPlaces) :
        \A q \in SentPlaces : Cardinality({x \in SentPlaces : Precedes(x, q)}) = n - 1 <=> q = p
  BY <1>2, EveryPlaceHasItsRank
<1>4. p = CHOOSE q \in SentPlaces : Cardinality({x \in SentPlaces : Precedes(x, q)}) = n - 1
  BY <1>2, <1>3
<1>5. n \in DOMAIN ProofNames /\ ProofNames[n] = Entries(p[1])[p[2]].name
  BY <1>4 DEF ProofNames
<1> QED BY <1>1, <1>5 DEF ToSet

\* Every name of the manifest is one of the proof, but for three.
LEMMA ProofNamesAre ==
    \A r \in Rounds : \A x \in Names(r) :
        x \in ToSet(ProofNames) \/ x \in {"circuit_size", "public_input_size", "t"}
<1> SUFFICES ASSUME NEW r \in Rounds, NEW k \in DOMAIN Entries(r),
                    Entries(r)[k].name \notin {"circuit_size", "public_input_size", "t"}
             PROVE  ~Entries(r)[k].derived_by_verifier
  BY SentNamesAreInTheProof DEF Names
<1>1. ASSUME NEW names, NEW derived, NEW name, NEW n, RoundManifest(r) = Entry(names, derived, name, n),
             derived \subseteq {"circuit_size", "public_input_size", "t"}
      PROVE  ~Entries(r)[k].derived_by_verifier
  <2>1. PICK e : e = Entry(names, derived, name, n)
    OBVIOUS
  <2>2. Entries(r) = e.elements
    BY <1>1, <2>1 DEF Entries
  <2>3. e.elements[k].name = names[k] /\ e.elements[k].derived_by_verifier = (names[k] \in derived)
    BY <2>1, <2>2, EntryIs
  <2> QED BY <1>1, <2>2, <2>3
<1>2. r = 0 \/ r = 1 \/ r = 2 \/ r = 3 \/ r = 4 \/ r = 5 \/ r = 6
  BY SevenRounds
<1>3. r = 0 => ~Entries(r)[k].derived_by_verifier
  BY <1>1, ManifestRounds
<1>4. r = 1 => ~Entries(r)[k].derived_by_verifier
  BY <1>1, ManifestRounds
<1>5. r = 2 => ~Entries(r)[k].derived_by_verifier
  BY <1>1, ManifestRounds
<1>6. r = 3 => ~Entries(r)[k].derived_by_verifier
  BY <1>1, ManifestRounds
<1>7. r = 4 => ~Entries(r)[k].derived_by_verifier
  BY <1>1, ManifestRounds
<1>8. r = 5 => ~Entries(r)[k].derived_by_verifier
  BY <1>1, ManifestRounds
<1>9. r = 6 => ~Entries(r)[k].derived_by_verifier
  BY <1>1, ManifestRounds
<1> QED BY <1>2, <1>3, <1>4, <1>5, <1>6, <1>7, <1>8, <1>9

\* A transcript of the verifier, after n rounds, against the prover's t.
Agrees(v, t, n) ==
    /\ IsTranscript(v) /\ Chained(v) /\ v.current_round = n
    /\ \A r \in Rounds : \A x \in Names(r) :
         IF x = "t" THEN x \in DOMAIN v.elements => v.elements[x] = t.elements[x]
                    ELSE x \in DOMAIN v.elements /\ v.elements[x] = t.elements[x]

LEMMA NameOfQuotient == \A r \in 0 .. 6 : r # 5 => "t" \notin Names(r)
BY OpeningNamesOfRound, ManifestAssumption, SevenRounds

LEMMA VerifierStarts ==
    ASSUME NEW t, \A x \in DOMAIN Sizes : t.elements[x] = Sizes[x],
           NEW v, v = AddElements(FromProof(export_transcript(t)), Sizes)
    PROVE  Agrees(v, t, 0)
<1>1. PICK e : e = FromProof(export_transcript(t)).elements
  OBVIOUS
<1>2. /\ DOMAIN e = ToSet(ProofNames)
      /\ \A x \in ToSet(ProofNames) : e[x] = t.elements[x]
  <2>1. DOMAIN e = ToSet(ProofNames)
    BY <1>1 DEF FromProof, NewTranscript
  <2> QED BY <1>1, <2>1, ReadsWhatWasWritten
<1>3. FromProof(export_transcript(t)) = [NewTranscript EXCEPT !.elements = e]
  BY <1>1 DEF FromProof, NewTranscript
<1>4. v = [ elements |-> Over(e, Sizes), current_round |-> 0, current_challenge |-> ZeroChallenge, challenges |-> Nothing ]
  BY <1>3 DEF AddElements, NewTranscript
<1>5. PICK f : f = Over(e, Sizes)
  OBVIOUS
<1>6. IsTranscript(v) /\ v.current_round = 0 /\ v.elements = f /\ v.challenges = Nothing
  BY <1>4, <1>5 DEF IsTranscript
<1>7. Chained(v)
  <2>1. DOMAIN v.challenges = {}
    BY <1>6 DEF Nothing
  <2> QED BY <1>6, <2>1 DEF Chained
<1>8. DOMAIN Sizes = {"circuit_size", "public_input_size"}
  BY DEF Sizes
<1>9. \A x : x \in ToSet(ProofNames) \/ x \in DOMAIN Sizes => x \in DOMAIN f /\ f[x] = t.elements[x]
  BY <1>2, <1>5 DEF Over
<1>10. \A x \in DOMAIN f : x \in ToSet(ProofNames) \/ x \in DOMAIN Sizes
  BY <1>2, <1>5 DEF Over
<1>11. ASSUME NEW r \in Rounds, NEW x \in Names(r)
       PROVE  IF x = "t" THEN x \in DOMAIN v.elements => v.elements[x] = t.elements[x]
                         ELSE x \in DOMAIN v.elements /\ v.elements[x] = t.elements[x]
  BY <1>6, <1>8, <1>9, <1>10, ProofNamesAre
<1> QED BY <1>6, <1>7, <1>11 DEF Agrees

LEMMA VerifierRound ==
    ASSUME NEW t, NEW n \in 0 .. 5, NEW v, Agrees(v, t, n), n = 5 => "t" \in DOMAIN v.elements
    PROVE  Agrees(apply_fiat_shamir(v), t, n + 1)
<1>1. PICK u : u = apply_fiat_shamir(v)
  OBVIOUS
<1>2. IsTranscript(v) /\ Chained(v) /\ v.current_round = n
  BY DEF Agrees
<1>3. IsTranscript(u) /\ u.elements = v.elements
  BY <1>1, <1>2, HashAt
<1>4. Names(n) \subseteq DOMAIN v.elements
  <2>1. n \in Rounds /\ n \in 0 .. 6
    BY SevenRounds
  <2> QED BY <2>1, NameOfQuotient DEF Agrees
<1>5. Chained(u) /\ u.current_round = n + 1
  <2>1. n \in 0 .. 6
    OBVIOUS
  <2> QED BY <1>1, <1>2, <1>4, <2>1, ChainGrows
<1> QED BY <1>1, <1>3, <1>5 DEF Agrees

LEMMA RoundsOfTheVerifier ==
    ASSUME NEW start
    PROVE  /\ VerifierRounds(start)[0] = start
           /\ \A n \in 0 .. 4 : VerifierRounds(start)[n + 1] = apply_fiat_shamir(VerifierRounds(start)[n])
<1> DEFINE IsRounds(g) == g = [n \in 0 .. 5 |-> IF n = 0 THEN start ELSE apply_fiat_shamir(g[n - 1])]
<1>1. PICK a : a = apply_fiat_shamir(start)
  OBVIOUS
<1>2. PICK b : b = apply_fiat_shamir(a)
  OBVIOUS
<1>3. PICK c : c = apply_fiat_shamir(b)
  OBVIOUS
<1>4. PICK d : d = apply_fiat_shamir(c)
  OBVIOUS
<1>5. PICK e : e = apply_fiat_shamir(d)
  OBVIOUS
<1>6. \E g : IsRounds(g)
  <2>1. PICK g : g = [n \in 0 .. 5 |-> IF n = 0 THEN start ELSE IF n = 1 THEN a ELSE IF n = 2 THEN b
                                       ELSE IF n = 3 THEN c ELSE IF n = 4 THEN d ELSE e]
    OBVIOUS
  <2>2. g[0] = start /\ g[1] = a /\ g[2] = b /\ g[3] = c /\ g[4] = d /\ g[5] = e
    BY <2>1
  <2>3. ASSUME NEW n \in 0 .. 5 PROVE g[n] = IF n = 0 THEN start ELSE apply_fiat_shamir(g[n - 1])
    <3>1. n = 0 \/ n = 1 \/ n = 2 \/ n = 3 \/ n = 4 \/ n = 5
      OBVIOUS
    <3>2. 1 - 1 = 0 /\ 2 - 1 = 1 /\ 3 - 1 = 2 /\ 4 - 1 = 3 /\ 5 - 1 = 4
      OBVIOUS
    <3> QED BY <1>1, <1>2, <1>3, <1>4, <1>5, <2>2, <3>1, <3>2
  <2>4. g = [n \in 0 .. 5 |-> g[n]]
    BY <2>1
  <2> QED BY <2>3, <2>4
<1>7. IsRounds(VerifierRounds(start))
  BY <1>6 DEF VerifierRounds
<1>8. VerifierRounds(start)[0] = start
  BY <1>7
<1>9. ASSUME NEW n \in 0 .. 4 PROVE VerifierRounds(start)[n + 1] = apply_fiat_shamir(VerifierRounds(start)[n])
  <2>1. n + 1 \in 0 .. 5 /\ n + 1 # 0 /\ (n + 1) - 1 = n
    OBVIOUS
  <2> QED BY <1>7, <2>1
<1> QED BY <1>8, <1>9

LEMMA VerifierReachesZ ==
    ASSUME NEW t, NEW start, Agrees(start, t, 0)
    PROVE  Agrees(VerifierRounds(start)[5], t, 5)
<1> DEFINE v(n) == VerifierRounds(start)[n]
<1>1. Agrees(v(0), t, 0)
  BY RoundsOfTheVerifier
<1>2. ASSUME NEW n \in 0 .. 4, Agrees(v(n), t, n) PROVE Agrees(v(n + 1), t, n + 1)
  <2>1. v(n + 1) = apply_fiat_shamir(v(n))
    BY RoundsOfTheVerifier
  <2>2. n \in 0 .. 5 /\ n # 5
    OBVIOUS
  <2> HIDE DEF v
  <2> QED BY <1>2, <2>1, <2>2, VerifierRound
<1> HIDE DEF v
<1>3. Agrees(v(0 + 1), t, 0 + 1)
  BY <1>1, <1>2
<1>4. Agrees(v(1 + 1), t, 1 + 1)
  BY <1>2, <1>3
<1>5. Agrees(v(2 + 1), t, 2 + 1)
  BY <1>2, <1>4
<1>6. Agrees(v(3 + 1), t, 3 + 1)
  BY <1>2, <1>5
<1>7. Agrees(v(4 + 1), t, 4 + 1)
  BY <1>2, <1>6
<1> QED BY <1>7 DEF v

\* The challenges of a transcript that agrees.
LEMMA AgreedChallenges ==
    ASSUME NEW t, Chained(t), t.current_round = 6, NEW n \in {5, 6}, NEW v, Agrees(v, t, n),
           n = 6 => "t" \in DOMAIN v.elements
    PROVE  /\ Challenge(v, "eta") = Challenge(t, "eta") /\ Challenge(v, "beta") = Challenge(t, "beta")
           /\ Challenge(v, "alpha") = Challenge(t, "alpha") /\ Challenge(v, "z") = Challenge(t, "z")
           /\ n = 6 => Challenge(v, "nu") = Challenge(t, "nu")
<1>1. ASSUME NEW q \in 0 .. n - 1, NEW x \in Names(q) PROVE v.elements[x] = t.elements[x]
  <2>1. q \in Rounds /\ q \in 0 .. 6 /\ (n = 5 => q # 5)
    BY SevenRounds
  <2>2. CASE x # "t"
    BY <2>1, <2>2 DEF Agrees
  <2>3. CASE x = "t"
    BY <2>1, <2>3, NameOfQuotient DEF Agrees
  <2> QED BY <2>2, <2>3
<1>2. Chained(v) /\ v.current_round = n /\ n \in 0 .. 7 /\ n <= 6
  BY DEF Agrees
<1>3. \A q \in 0 .. n - 1 : v.challenges[ChallengeName(q)] = t.challenges[ChallengeName(q)]
  BY <1>1, <1>2, SameChain
<1>4. 1 \in 0 .. n - 1 /\ 2 \in 0 .. n - 1 /\ 3 \in 0 .. n - 1 /\ 4 \in 0 .. n - 1 /\ (n = 6 => 5 \in 0 .. n - 1)
  OBVIOUS
<1> QED BY <1>3, <1>4, ChallengesAre DEF Challenge

\* The evaluation of the quotient as the verifier derives it.
DerivedQuotient(t) ==
    Evaluation([quotient |-> Quotient([p \in Polys |-> t.elements[p].poly], t), extra |-> [i \in 0 .. 2 |-> 0]],
               Challenge(t, "z"), FALSE)

LEMMA PolysAreSent == \A p \in Polys : p \in Names(5) /\ p # "t" /\ Omega[p] \in Names(5) /\ Omega[p] # "t"
BY OpeningNamesOfRound, PolysAre DEF Omega

LEMMA AgreesAt ==
    ASSUME NEW t, NEW v, NEW n, Agrees(v, t, n), NEW r \in 0 .. 6, NEW x \in Names(r), x # "t"
    PROVE  x \in DOMAIN v.elements /\ v.elements[x] = t.elements[x]
<1>1. r \in Rounds
  BY SevenRounds
<1> QED BY <1>1 DEF Agrees

LEMMA SameQuotient ==
    ASSUME NEW t, Chained(t), t.current_round = 6, NEW v, Agrees(v, t, 5)
    PROVE  DerivedQuotient(v) = DerivedQuotient(t)
<1>1. /\ Challenge(v, "eta") = Challenge(t, "eta") /\ Challenge(v, "beta") = Challenge(t, "beta")
      /\ Challenge(v, "alpha") = Challenge(t, "alpha") /\ Challenge(v, "z") = Challenge(t, "z")
  BY AgreedChallenges
<1>2. v.elements["public_inputs"] = t.elements["public_inputs"]
  <2>1. "public_inputs" \in Names(1) /\ "public_inputs" # "t" /\ 1 \in 0 .. 6
    BY NamesAre
  <2> QED BY <2>1, AgreesAt
<1>3. \A p \in Polys : v.elements[p] = t.elements[p]
  <2>1. 5 \in 0 .. 6
    OBVIOUS
  <2> QED BY <2>1, PolysAreSent, AgreesAt
<1>4. PICK f : f = [p \in Polys |-> t.elements[p].poly]
  OBVIOUS
<1>5. [p \in Polys |-> v.elements[p].poly] = f
  BY <1>3, <1>4
<1>6. Quotient(f, v) = Quotient(f, t)
  BY <1>1, <1>2 DEF Quotient
<1> QED BY <1>1, <1>4, <1>5, <1>6 DEF DerivedQuotient

LEMMA QuotientIsDerived ==
    ASSUME NEW t, Chained(t), t.current_round = 6, t.elements["t"] = DerivedQuotient(t),
           NEW v, Agrees(v, t, 5)
    PROVE  Agrees(WithQuotient(v), t, 5) /\ "t" \in DOMAIN WithQuotient(v).elements
<1>1. PICK y : y = DerivedQuotient(v)
  OBVIOUS
<1>2. PICK u : u = WithQuotient(v)
  OBVIOUS
<1>3. u = add_element(v, "t", y)
  BY <1>1, <1>2 DEF WithQuotient, DerivedQuotient
<1>4. y = t.elements["t"]
  BY <1>1, SameQuotient
<1>5. /\ IsTranscript(u) /\ u.current_round = v.current_round /\ u.challenges = v.challenges
      /\ "t" \in DOMAIN u.elements
      /\ \A x \in DOMAIN v.elements : x \in DOMAIN u.elements /\ u.elements[x] = v.elements[x]
      /\ \A x \in DOMAIN u.elements \ DOMAIN v.elements : x = "t" /\ u.elements[x] = y
  BY <1>3, AddAt DEF Agrees
<1>6. u.current_challenge = v.current_challenge
  <2>1. PICK e, n, c, d : v = [elements |-> e, current_round |-> n, current_challenge |-> c, challenges |-> d]
    BY DEF Agrees, IsTranscript
  <2> QED BY <1>3, <2>1 DEF add_element
<1>7. Chained(u)
  BY <1>5, <1>6, ChainStays DEF Agrees
<1>8. ASSUME NEW r \in Rounds, NEW x \in Names(r)
      PROVE  IF x = "t" THEN x \in DOMAIN u.elements => u.elements[x] = t.elements[x]
                        ELSE x \in DOMAIN u.elements /\ u.elements[x] = t.elements[x]
  <2>1. IF x = "t" THEN x \in DOMAIN v.elements => v.elements[x] = t.elements[x]
                   ELSE x \in DOMAIN v.elements /\ v.elements[x] = t.elements[x]
    BY DEF Agrees
  <2> QED BY <1>4, <1>5, <2>1
<1> QED BY <1>2, <1>5, <1>7, <1>8 DEF Agrees

\* The pairing check, of what the commitments are.
PairingOf(t, e, f, T) ==
    /\ IdentitiesHold(f, t)
    /\ \A i \in 0 .. 3 : T[i].part = i /\ T[i].quotient = T[0].quotient
    /\ e["t"] = Evaluation(Combined(T), Challenge(t, "z"), FALSE)
    /\ \A p \in Polys : /\ e[p] = Evaluation(f[p], Challenge(t, "z"), FALSE)
                        /\ e[Omega[p]] = Evaluation(f[p], Challenge(t, "z"), TRUE)
    /\ e["PI_Z"] = Opening(Over([t |-> Combined(T)], f), t)
    /\ e["PI_Z_OMEGA"] = Opening(f, t)

LEMMA PairingIs ==
    ASSUME NEW t, NEW f, NEW T, f = [p \in Polys |-> t.elements[Label[p]]],
           T = [i \in 0 .. 3 |-> t.elements[QuotientLabel[i + 1]]]
    PROVE  PairingHolds(t) <=> PairingOf(t, t.elements, f, T)
BY Zenon DEF PairingHolds, PairingOf

\* The pairing is checked with what transcripts that agree have in common.
LEMMA SamePairing ==
    ASSUME NEW t, Chained(t), t.current_round = 6, PairingHolds(t),
           NEW v, Agrees(v, t, 6), "t" \in DOMAIN v.elements
    PROVE  PairingHolds(v)
<1>1. /\ Challenge(v, "eta") = Challenge(t, "eta") /\ Challenge(v, "beta") = Challenge(t, "beta")
      /\ Challenge(v, "alpha") = Challenge(t, "alpha") /\ Challenge(v, "z") = Challenge(t, "z")
      /\ Challenge(v, "nu") = Challenge(t, "nu")
  BY AgreedChallenges
<1>2. \A r \in 0 .. 6 : \A x \in Names(r) : v.elements[x] = t.elements[x]
  <2>1. Rounds = 0 .. 6
    BY SevenRounds
  <2> QED BY <2>1 DEF Agrees
<1>3. PICK d, e : d = v.elements /\ e = t.elements
  OBVIOUS
<1>4. \A p \in Polys : d[Label[p]] = e[Label[p]]
  <2>1. Rounds = 0 .. 6
    BY SevenRounds
  <2> QED BY <1>2, <1>3, <2>1, EveryLabelIsNamed
<1>5. \A p \in Polys : d[p] = e[p] /\ d[Omega[p]] = e[Omega[p]]
  <2>1. 5 \in 0 .. 6
    OBVIOUS
  <2> QED BY <1>2, <1>3, <2>1, PolysAreSent
<1>6. d["t"] = e["t"]
  <2>1. 5 \in 0 .. 6 /\ "t" \in Names(5)
    BY OpeningNamesOfRound
  <2> QED BY <1>2, <1>3, <2>1
<1>7. \A i \in 0 .. 3 : d[QuotientLabel[i + 1]] = e[QuotientLabel[i + 1]]
  <2>1. 4 \in 0 .. 6
    OBVIOUS
  <2>2. \A i \in 0 .. 3 : QuotientLabel[i + 1] \in Names(4)
    <3>1. \A i \in 0 .. 3 : i = 0 \/ i = 1 \/ i = 2 \/ i = 3
      OBVIOUS
    <3>2. 0 + 1 = 1 /\ 1 + 1 = 2 /\ 2 + 1 = 3 /\ 3 + 1 = 4
      OBVIOUS
    <3>3. QuotientLabel[1] = "T_1" /\ QuotientLabel[2] = "T_2" /\ QuotientLabel[3] = "T_3" /\ QuotientLabel[4] = "T_4"
      BY DEF QuotientLabel
    <3> QED BY <3>1, <3>2, <3>3, NamesAre
  <2> QED BY <1>2, <1>3, <2>1, <2>2
<1>8. d["PI_Z"] = e["PI_Z"] /\ d["PI_Z_OMEGA"] = e["PI_Z_OMEGA"]
  <2>1. 6 \in 0 .. 6
    OBVIOUS
  <2> QED BY <1>2, <1>3, <2>1, NamesAre
<1>9. PICK f : f = [p \in Polys |-> e[Label[p]]]
  OBVIOUS
<1>10. [p \in Polys |-> d[Label[p]]] = f
  BY <1>4, <1>9
<1>11. PICK T : T = [i \in 0 .. 3 |-> e[QuotientLabel[i + 1]]]
  OBVIOUS
<1>12. [i \in 0 .. 3 |-> d[QuotientLabel[i + 1]]] = T
  BY <1>7, <1>11
<1>13. PairingOf(t, e, f, T)
  BY <1>3, <1>9, <1>11, PairingIs
<1>14. IdentitiesHold(f, v)
  BY <1>1, <1>13 DEF IdentitiesHold, PairingOf
<1>15. \A g : Opening(g, v) = Opening(g, t)
  BY <1>1 DEF Opening
<1>16. PairingOf(v, d, f, T)
  BY <1>1, <1>5, <1>6, <1>8, <1>13, <1>14, <1>15 DEF PairingOf
<1> QED BY <1>3, <1>10, <1>12, <1>16, PairingIs

\* A transcript whose pairing holds gives a proof that is accepted.
LEMMA ExportIsAccepted ==
    ASSUME NEW t, Chained(t), t.current_round = 6,
           \A x \in DOMAIN Sizes : t.elements[x] = Sizes[x],
           t.elements["t"] = DerivedQuotient(t), PairingHolds(t)
    PROVE  Accepts(export_transcript(t))
<1>1. PICK start : start = AddElements(FromProof(export_transcript(t)), Sizes)
  OBVIOUS
<1>2. Agrees(start, t, 0)
  BY <1>1, VerifierStarts
<1>3. PICK v : v = VerifierRounds(start)[5]
  OBVIOUS
<1>4. Agrees(v, t, 5)
  BY <1>2, <1>3, VerifierReachesZ
<1>5. PICK u : u = WithQuotient(v)
  OBVIOUS
<1>6. Agrees(u, t, 5) /\ "t" \in DOMAIN u.elements
  BY <1>4, <1>5, QuotientIsDerived
<1>7. PICK w : w = apply_fiat_shamir(u)
  OBVIOUS
<1>8. Agrees(w, t, 6)
  <2>1. Agrees(apply_fiat_shamir(u), t, 5 + 1)
    BY <1>6, VerifierRound
  <2> QED BY <1>7, <2>1
<1>9. "t" \in DOMAIN w.elements
  BY <1>6, <1>7, HashAt DEF Agrees
<1>10. PairingHolds(w)
  BY <1>8, <1>9, SamePairing
<1>11. VerifierTranscript(export_transcript(t)) = w
  BY <1>1, <1>3, <1>5, <1>7 DEF VerifierTranscript
<1> QED BY <1>10, <1>11, ProofIsLongEnough DEF Accepts

-----------------------------------------------------------------------------
(***************************************************************************)
(* What belongs in a transcript goes on belonging there, and the result of *)
(* an item keeps everything right.                                         *)
(***************************************************************************)
LEMMA BelongsStays ==
    ASSUME NEW x, NEW value, NEW t, NEW s, NEW ps, NEW r \in Nat, Belongs(x, value, t, s, ps, r),
           NEW u, NEW v, NEW qs, NEW q \in Nat, q >= r,
           r >= 5 => qs = ps,
           r >= 6 => Challenge(u, "z") = Challenge(t, "z") /\ Forms(v) = Forms(s),
           r >= 7 => Challenge(u, "nu") = Challenge(t, "nu")
    PROVE  Belongs(x, value, u, v, qs, q)
<1>1. \A p \in Polys : Forms(s)[p] = s[InMonomial(p)] /\ Forms(v)[p] = v[InMonomial(p)]
  BY DEF Forms
<1>2. r >= 6 => \A p \in Polys : v[InMonomial(p)] = s[InMonomial(p)]
  BY <1>1
<1>3. r >= 7 => \A f : Opening(f, u) = Opening(f, t)
  BY DEF Opening
<1>4. x \in DOMAIN Sizes => value = Sizes[x]
  BY DEF Belongs
<1>5. ASSUME NEW i \in 1 .. 4, x = QuotientLabel[i] PROVE q >= 5 /\ value = qs[i - 1]
  BY <1>5 DEF Belongs
<1>6. ASSUME x = "t" PROVE q >= 6 /\ value = Evaluation(Combined(qs), Challenge(u, "z"), FALSE)
  <2>1. r >= 6 /\ value = Evaluation(Combined(ps), Challenge(t, "z"), FALSE)
    BY <1>6 DEF Belongs
  <2>2. qs = ps /\ Challenge(u, "z") = Challenge(t, "z")
    BY <2>1
  <2>3. value = Evaluation(Combined(qs), Challenge(u, "z"), FALSE)
    BY <2>1, <2>2, Zenon
  <2>4. q >= 6
    BY <2>1
  <2> QED BY <2>3, <2>4, Zenon
<1>7. ASSUME x \in Polys PROVE q >= 6 /\ value = Evaluation(v[InMonomial(x)], Challenge(u, "z"), FALSE)
  <2>1. r >= 6 /\ value = Evaluation(s[InMonomial(x)], Challenge(t, "z"), FALSE)
    BY <1>7 DEF Belongs
  <2>2. v[InMonomial(x)] = s[InMonomial(x)] /\ Challenge(u, "z") = Challenge(t, "z")
    BY <1>2, <1>7, <2>1
  <2>3. value = Evaluation(v[InMonomial(x)], Challenge(u, "z"), FALSE)
    BY <2>1, <2>2, Zenon
  <2>4. q >= 6
    BY <2>1
  <2> QED BY <2>3, <2>4, Zenon
<1>8. ASSUME NEW p \in Polys, x = Omega[p]
      PROVE  q >= 6 /\ value = Evaluation(v[InMonomial(p)], Challenge(u, "z"), TRUE)
  <2>1. r >= 6 /\ value = Evaluation(s[InMonomial(p)], Challenge(t, "z"), TRUE)
    BY <1>8 DEF Belongs
  <2>2. v[InMonomial(p)] = s[InMonomial(p)] /\ Challenge(u, "z") = Challenge(t, "z")
    BY <1>2, <2>1
  <2>3. value = Evaluation(v[InMonomial(p)], Challenge(u, "z"), TRUE)
    BY <2>1, <2>2, Zenon
  <2>4. q >= 6
    BY <2>1
  <2> QED BY <2>3, <2>4, Zenon
<1>9. ASSUME x = "PI_Z" PROVE q >= 7 /\ value = Opening(Over([t |-> Combined(qs)], Forms(v)), u)
  <2>1. r >= 7 /\ value = Opening(Over([t |-> Combined(ps)], Forms(s)), t)
    BY <1>9 DEF Belongs
  <2> QED BY <1>3, <2>1
<1>10. ASSUME x = "PI_Z_OMEGA" PROVE q >= 7 /\ value = Opening(Forms(v), u)
  <2>1. r >= 7 /\ value = Opening(Forms(s), t)
    BY <1>10 DEF Belongs
  <2> QED BY <1>3, <2>1
<1> QED BY <1>4, <1>5, <1>6, <1>7, <1>8, <1>9, <1>10 DEF Belongs

\* The transcript keeps its public inputs and challenges, and the store what the
\* polynomials are made of.
SameProof(t, s, u, v, r) ==
    /\ \A name \in {"eta", "beta", "alpha"} : Challenge(u, name) = Challenge(t, name)
    /\ r >= 5 => u.elements["public_inputs"] = t.elements["public_inputs"]
    /\ \A p \in Polys : r \in FinalFrom[p] .. 8 => v[InMonomial(p)] = s[InMonomial(p)]
    /\ v[InLagrange("w_4")] = s[InLagrange("w_4")]

LEMMA ContentStays ==
    ASSUME NEW t, NEW s, NEW ps, NEW r \in 0 .. 8, NEW k, ContentRight(s, t, ps, r, k),
           NEW u, NEW v, SameProof(t, s, u, v, r)
    PROVE  ContentRight(v, u, ps, r, k)
<1>1. /\ r \in 4 .. 7 => \A p \in Polys : v[InMonomial(p)] = s[InMonomial(p)]
      /\ r \in 3 .. 7 => v[InMonomial("s")] = s[InMonomial("s")]
  <2>1. \A p \in Polys : r \in 4 .. 7 => r \in FinalFrom[p] .. 8
    BY FinalRounds
  <2>2. "s" \in Polys /\ FinalFrom["s"] = 3
    BY PolysAre DEF FinalFrom
  <2> QED BY <2>1, <2>2 DEF SameProof
<1>2. Challenge(u, "eta") = Challenge(t, "eta") /\ Challenge(u, "beta") = Challenge(t, "beta")
      /\ Challenge(u, "alpha") = Challenge(t, "alpha")
  BY DEF SameProof
<1>3. "s" \in Polys /\ "z_perm" \in Polys /\ "z_lookup" \in Polys /\ \A i \in 1 .. 4 : Wires[i] \in Polys
  BY PolysAre DEF Wires
<1>4. r \in 3 .. 7 => SortedListRight(v, u)
  BY <1>1, <1>2, <1>3 DEF ContentRight, SortedListRight
<1>5. ASSUME r \in 4 .. 7 PROVE ProductsRight(v, u)
  <2>1. \A p \in Polys : v[InMonomial(p)] = s[InMonomial(p)]
    BY <1>1, <1>5
  <2>2. PICK w : w = [i \in 1 .. 4 |-> s[InMonomial(Wires[i])]]
    OBVIOUS
  <2>3. [i \in 1 .. 4 |-> v[InMonomial(Wires[i])]] = w
    BY <1>3, <2>1, <2>2
  <2>4. ProductsRight(s, t)
    BY <1>5 DEF ContentRight
  <2>5. /\ s[InMonomial("z_perm")].product = w
        /\ s[InMonomial("z_perm")].beta = Challenge(t, "beta")
        /\ s[InMonomial("z_lookup")].lookups = SubSeq(w, 1, 3)
        /\ s[InMonomial("z_lookup")].s = s[InMonomial("s")]
        /\ s[InMonomial("z_lookup")].eta = Challenge(t, "eta")
        /\ s[InMonomial("z_lookup")].beta = Challenge(t, "beta")
    BY <2>2, <2>4 DEF ProductsRight
  <2> QED BY <1>2, <1>3, <2>1, <2>3, <2>5 DEF ProductsRight
<1>6. ASSUME r \in 5 .. 7 PROVE ps = QuotientParts(Quotient(Forms(v), u))
  <2>1. ps = QuotientParts(Quotient(Forms(s), t))
    BY <1>6 DEF ContentRight
  <2>2. Forms(v) = Forms(s) /\ u.elements["public_inputs"] = t.elements["public_inputs"]
    <3>1. \A p \in Polys : v[InMonomial(p)] = s[InMonomial(p)]
      BY <1>1, <1>6
    <3> QED BY <1>6, <3>1 DEF SameProof, Forms
  <2>3. Quotient(Forms(v), u) = Quotient(Forms(s), t)
    BY <1>2, <2>2 DEF Quotient
  <2> QED BY <2>1, <2>3
<1>7. RecordsRight(s, t, r) => RecordsRight(v, u, r)
  BY <1>2 DEF RecordsRight, SameProof
<1> QED BY <1>4, <1>5, <1>6, <1>7 DEF ContentRight

LEMMA AddKeepsTheChain ==
    ASSUME NEW t, IsTranscript(t), Chained(t), NEW x, NEW value, NEW u, u = add_element(t, x, value)
    PROVE  /\ IsTranscript(u) /\ Chained(u) /\ u.current_round = t.current_round
           /\ \A name : Challenge(u, name) = Challenge(t, name)
           /\ \A y \in DOMAIN t.elements : y \in DOMAIN u.elements /\ u.elements[y] = t.elements[y]
           /\ \A y \in DOMAIN u.elements \ DOMAIN t.elements : y = x /\ u.elements[y] = value
<1>1. /\ IsTranscript(u) /\ u.current_round = t.current_round /\ u.challenges = t.challenges
      /\ \A y \in DOMAIN t.elements : y \in DOMAIN u.elements /\ u.elements[y] = t.elements[y]
      /\ \A y \in DOMAIN u.elements \ DOMAIN t.elements : y = x /\ u.elements[y] = value
  BY AddAt
<1>2. u.current_challenge = t.current_challenge
  <2>1. PICK e, n, c, d : t = [elements |-> e, current_round |-> n, current_challenge |-> c, challenges |-> d]
    BY DEF IsTranscript
  <2> QED BY <2>1 DEF add_element
<1>3. Chained(u)
  BY <1>1, <1>2, ChainStays
<1> QED BY <1>1, <1>3 DEF Challenge

\* Another transcript and store of the same round of the same proof.
KeepsRight(u, v, t, q, ps, r, todo, k) ==
    /\ Chained(u)
    /\ \A x \in DOMAIN t.elements : x \in DOMAIN u.elements /\ u.elements[x] = t.elements[x]
    /\ Right(u, v, q, ps, r, todo, k)

LEMMA CommitmentIsRight ==
    ASSUME NEW t, NEW s, NEW q, NEW ps, NEW r \in 0 .. 8, NEW todo, NEW k,
           IsTranscript(t), Chained(t), Right(t, s, q, ps, r, todo, k),
           r >= 5 => "public_inputs" \in DOMAIN t.elements,
           NEW n \in DOMAIN q, q[n].work_type = "SCALAR_MULTIPLICATION",
           NEW u, u = add_element(t, q[n].tag, q[n].scalars)
    PROVE  KeepsRight(u, s, t, q, ps, r, todo \ {n}, k)
<1>1. PICK name, value : name = q[n].tag /\ value = q[n].scalars
  OBVIOUS
<1>2. /\ Chained(u)
      /\ \A x : Challenge(u, x) = Challenge(t, x)
      /\ \A y \in DOMAIN t.elements : y \in DOMAIN u.elements /\ u.elements[y] = t.elements[y]
      /\ \A y \in DOMAIN u.elements \ DOMAIN t.elements : y = name /\ u.elements[y] = value
  <2>1. u = add_element(t, name, value)
    BY <1>1
  <2> QED BY <2>1, AddKeepsTheChain
<1>3. ASSUME NEW x, NEW y, Belongs(x, y, t, s, ps, r) PROVE Belongs(x, y, u, s, ps, r)
  BY <1>2, <1>3, BelongsStays
<1>4. Belongs(name, value, t, s, ps, r)
  BY <1>1 DEF Right, QueueBelongs
<1>5. ElementsBelong(u, s, ps, r)
  <2> SUFFICES ASSUME NEW x \in DOMAIN u.elements PROVE Belongs(x, u.elements[x], u, s, ps, r)
    BY DEF ElementsBelong
  <2>1. CASE x \in DOMAIN t.elements
    BY <1>2, <1>3, <2>1 DEF Right, ElementsBelong
  <2>2. CASE x \notin DOMAIN t.elements
    BY <1>2, <1>3, <1>4, <2>2
  <2> QED BY <2>1, <2>2
<1>6. QueueBelongs(q, u, s, ps, r)
  BY <1>3 DEF Right, QueueBelongs
<1>7. FormsMatch(s, q, r, todo \ {n})
  <2>1. \A p : \A type \in {"IFFT", "FFT"} : Pending(q, todo, type, p) => Pending(q, todo \ {n}, type, p)
    BY DEF Pending
  <2> QED BY <2>1 DEF Right, FormsMatch
<1>8. ContentRight(s, u, ps, r, k)
  <2>1. SameProof(t, s, u, s, r)
    BY <1>2 DEF SameProof
  <2> QED BY <2>1, ContentStays DEF Right
<1> QED BY <1>2, <1>5, <1>6, <1>7, <1>8 DEF KeepsRight, Right

LEMMA MonomialIsRight ==
    ASSUME NEW t, NEW s, NEW q, NEW ps, NEW todo, NEW k,
           Chained(t), Right(t, s, q, ps, 1, todo, k), Stored(s, 1),
           NEW n \in DOMAIN q, q[n].work_type = "IFFT", q[n].tag \in FirstWires,
           NEW v, v = Put("monomial", q[n].tag, s[InLagrange(q[n].tag)], s)
    PROVE  KeepsRight(t, v, t, q, ps, 1, todo \ {n}, k)
<1>1. PICK tag : tag = q[n].tag
  OBVIOUS
<1>2. PICK poly : poly = s[InLagrange(tag)]
  OBVIOUS
<1>3. /\ InMonomial(tag) \in DOMAIN v /\ v[InMonomial(tag)] = poly
      /\ \A x \in DOMAIN s : x \in DOMAIN v /\ (x # InMonomial(tag) => v[x] = s[x])
  <2>1. v = Put("monomial", tag, poly, s)
    BY <1>1, <1>2
  <2> QED BY <2>1, PutAt DEF InMonomial
<1>4. \A w \in AllWires : /\ InLagrange(w) \in DOMAIN s /\ InLagrange(w) \in DOMAIN v
                          /\ v[InLagrange(w)] = s[InLagrange(w)]
  <2>1. \A w : InLagrange(w) # InMonomial(tag)
    BY DEF InLagrange, InMonomial
  <2> QED BY <1>3, <2>1 DEF Stored
<1>5. \A x, y : Belongs(x, y, t, s, ps, 1) => Belongs(x, y, t, v, ps, 1)
  BY BelongsStays
<1>6. ElementsBelong(t, v, ps, 1) /\ QueueBelongs(q, t, v, ps, 1)
  BY <1>5 DEF Right, ElementsBelong, QueueBelongs
<1>7. ASSUME NEW w \in FirstWires
      PROVE  Pending(q, todo \ {n}, "IFFT", w) \/ Match(v, InMonomial(w), InLagrange(w))
  <2>0. w \in AllWires
    BY FinalRounds
  <2>1. CASE w = tag
    <3>1. Match(v, InMonomial(w), InLagrange(w))
      BY <1>2, <1>3, <1>4, <2>0, <2>1 DEF Match
    <3> QED BY <3>1
  <2>2. CASE w # tag
    <3>1. InMonomial(w) # InMonomial(tag)
      BY <2>2 DEF InMonomial
    <3>2. CASE Pending(q, todo, "IFFT", w)
      BY <1>1, <2>2, <3>2 DEF Pending
    <3>3. CASE Match(s, InMonomial(w), InLagrange(w))
      <4>1. Match(v, InMonomial(w), InLagrange(w))
        BY <1>3, <1>4, <2>0, <3>1, <3>3 DEF Match
      <4> QED BY <4>1
    <3>4. FormsMatch(s, q, 1, todo)
      BY DEF Right
    <3> QED BY <3>2, <3>3, <3>4 DEF FormsMatch
  <2> QED BY <2>1, <2>2
<1>8. FormsMatch(v, q, 1, todo \ {n})
  BY <1>7 DEF FormsMatch
<1>9. ContentRight(v, t, ps, 1, k)
  <2>1. "w_4" \in AllWires
    BY DEF AllWires
  <2>2. SameProof(t, s, t, v, 1)
    BY <1>4, <2>1, FinalRounds DEF SameProof
  <2> QED BY <2>2, ContentStays DEF Right
<1> QED BY <1>6, <1>8, <1>9 DEF KeepsRight, Right

LEMMA FftIsRight ==
    ASSUME NEW t, NEW s, NEW q, NEW ps, NEW r \in 0 .. 8, NEW todo, NEW k,
           Chained(t), Right(t, s, q, ps, r, todo, k), Stored(s, r),
           NEW n \in DOMAIN q, q[n].work_type = "FFT",
           NEW v, v = Put("fft", q[n].tag, s[InMonomial(q[n].tag)], s)
    PROVE  KeepsRight(t, v, t, q, ps, r, todo \ {n}, k)
<1>1. PICK tag : tag = q[n].tag
  OBVIOUS
<1>2. PICK poly : poly = s[InMonomial(tag)]
  OBVIOUS
<1>3. /\ InFft(tag) \in DOMAIN v /\ v[InFft(tag)] = poly
      /\ \A x \in DOMAIN s : x \in DOMAIN v /\ (x # InFft(tag) => v[x] = s[x])
  <2>1. v = Put("fft", tag, poly, s)
    BY <1>1, <1>2
  <2> QED BY <2>1, PutAt DEF InFft
<1>4. \A p : /\ InMonomial(p) # InFft(tag) /\ InLagrange(p) # InFft(tag)
             /\ p # tag => InFft(p) # InFft(tag)
  BY DEF InFft, InMonomial, InLagrange
<1>5. \A w \in AllWires : InLagrange(w) \in DOMAIN v /\ v[InLagrange(w)] = s[InLagrange(w)]
  BY <1>3, <1>4 DEF Stored
<1>6. \A p \in Polys : r >= FinalFrom[p] =>
        InMonomial(p) \in DOMAIN s /\ InMonomial(p) \in DOMAIN v /\ v[InMonomial(p)] = s[InMonomial(p)]
  BY <1>3, <1>4 DEF Stored
<1>7. r >= 6 => Forms(v) = Forms(s)
  <2>1. \A p \in Polys : r >= 6 => r >= FinalFrom[p]
    BY FinalRounds
  <2> QED BY <1>6, <2>1 DEF Forms
<1>8. \A x, y : Belongs(x, y, t, s, ps, r) => Belongs(x, y, t, v, ps, r)
  BY <1>7, BelongsStays
<1>9. ElementsBelong(t, v, ps, r) /\ QueueBelongs(q, t, v, ps, r)
  BY <1>8 DEF Right, ElementsBelong, QueueBelongs
<1>10. ASSUME NEW x, NEW y, x # InFft(tag), y # InFft(tag), Match(s, x, y) PROVE Match(v, x, y)
  BY <1>3, <1>10 DEF Match
<1>11. ASSUME NEW p \in Polys, r >= FinalFrom[p],
              Pending(q, todo, "FFT", p) \/ Match(s, InFft(p), InMonomial(p))
       PROVE  Pending(q, todo \ {n}, "FFT", p) \/ Match(v, InFft(p), InMonomial(p))
  <2>1. CASE p = tag
    <3>1. Match(v, InFft(p), InMonomial(p))
      BY <1>2, <1>3, <1>6, <1>11, <2>1 DEF Match
    <3> QED BY <3>1
  <2>2. CASE p # tag
    <3>1. CASE Pending(q, todo, "FFT", p)
      BY <1>1, <2>2, <3>1 DEF Pending
    <3>2. CASE Match(s, InFft(p), InMonomial(p))
      <4>1. Match(v, InFft(p), InMonomial(p))
        BY <1>4, <1>10, <2>2, <3>2
      <4> QED BY <4>1
    <3> QED BY <1>11, <3>1, <3>2
  <2> QED BY <2>1, <2>2
<1>12. FormsMatch(s, q, r, todo)
  BY DEF Right
<1>13. FormsMatch(v, q, r, todo \ {n})
  <2>1. r = 1 => \A w \in FirstWires : Pending(q, todo \ {n}, "IFFT", w) \/ Match(v, InMonomial(w), InLagrange(w))
    <3>1. \A w : Pending(q, todo, "IFFT", w) => Pending(q, todo \ {n}, "IFFT", w)
      BY DEF Pending
    <3> QED BY <1>4, <1>10, <1>12, <3>1 DEF FormsMatch
  <2>2. r \in 2 .. 7 => \A w \in FirstWires : Match(v, InMonomial(w), InLagrange(w))
    BY <1>4, <1>10, <1>12 DEF FormsMatch
  <2>3. r \in 3 .. 7 => Match(v, InMonomial("w_4"), InLagrange("w_4")) /\ Match(v, InMonomial("s"), InLagrange("s"))
    BY <1>4, <1>10, <1>12 DEF FormsMatch
  <2>4. r = 3 => Pending(q, todo \ {n}, "FFT", "s") \/ Match(v, InFft("s"), InMonomial("s"))
    <3>1. "s" \in Polys /\ (r = 3 => r >= FinalFrom["s"])
      BY PolysAre DEF FinalFrom
    <3> QED BY <1>11, <1>12, <3>1 DEF FormsMatch
  <2>5. r = 4 => \A p \in Polys : Pending(q, todo \ {n}, "FFT", p) \/ Match(v, InFft(p), InMonomial(p))
    <3>1. \A p \in Polys : r = 4 => r >= FinalFrom[p]
      BY FinalRounds
    <3> QED BY <1>11, <1>12, <3>1 DEF FormsMatch
  <2> QED BY <2>1, <2>2, <2>3, <2>4, <2>5 DEF FormsMatch
<1>14. ContentRight(v, t, ps, r, k)
  <2>1. "w_4" \in AllWires
    BY DEF AllWires
  <2>2. \A p \in Polys : r \in FinalFrom[p] .. 8 => r >= FinalFrom[p]
    BY FinalRounds
  <2>3. SameProof(t, s, t, v, r)
    BY <1>5, <1>6, <2>1, <2>2 DEF SameProof
  <2> QED BY <2>3, ContentStays DEF Right
<1> QED BY <1>9, <1>13, <1>14 DEF KeepsRight, Right

\* The result of an item, whoever computed it and whatever came before it.
LEMMA ResultIsRight ==
    ASSUME NEW t, NEW s, NEW q, NEW ps, NEW r \in 0 .. 8, NEW todo, NEW k, NEW m,
           Sound(t, s, q, r, m), Chained(t), Right(t, s, q, ps, r, todo, k),
           r >= 5 => "public_inputs" \in DOMAIN t.elements,
           NEW n \in DOMAIN q, NEW ts, ts = Delivered(q[n], Computed(q[n], s), [t |-> t, s |-> s])
    PROVE  KeepsRight(ts.t, ts.s, t, q, ps, r, todo \ {n}, k)
<1>1. IsTranscript(t) /\ Stored(s, r) /\ ItemFits(q[n], s, r)
  BY DEF Sound
<1>2. CASE q[n].work_type = "SCALAR_MULTIPLICATION"
  <2>1. PICK u : u = add_element(t, q[n].tag, q[n].scalars)
    OBVIOUS
  <2>2. ts = [t |-> u, s |-> s]
    BY <1>2, <2>1 DEF Computed, Delivered
  <2>3. ts.t = u /\ ts.s = s
    BY <2>2
  <2> QED BY <1>1, <1>2, <2>1, <2>3, CommitmentIsRight
<1>3. CASE q[n].work_type = "IFFT"
  <2>1. q[n].tag \in FirstWires /\ r = 1
    BY <1>1, <1>3 DEF ItemFits
  <2>2. PICK v : v = Put("monomial", q[n].tag, s[InLagrange(q[n].tag)], s)
    OBVIOUS
  <2>3. ts = [t |-> t, s |-> v]
    BY <1>3, <2>2 DEF Computed, Delivered, InLagrange
  <2>4. ts.t = t /\ ts.s = v
    BY <2>3
  <2> QED BY <1>1, <1>3, <2>1, <2>2, <2>4, MonomialIsRight
<1>4. CASE q[n].work_type = "FFT"
  <2>1. PICK v : v = Put("fft", q[n].tag, s[InMonomial(q[n].tag)], s)
    OBVIOUS
  <2>2. ts = [t |-> t, s |-> v]
    BY <1>4, <2>1 DEF Computed, Delivered, InMonomial
  <2>3. ts.t = t /\ ts.s = v
    BY <2>2
  <2>4. KeepsRight(t, v, t, q, ps, r, todo \ {n}, k)
    BY <1>1, <1>4, <2>1, FftIsRight
  <2> QED BY <2>3, <2>4
<1> QED BY <1>1, <1>2, <1>3, <1>4 DEF ItemFits

-----------------------------------------------------------------------------
(***************************************************************************)
(* The steps between the rounds.                                           *)
(***************************************************************************)
LEMMA AcceptsStays ==
    ASSUME memory' = memory, NEW p, Accepts(p) PROVE Accepts(p)'
<1>1. PICK t : t = VerifierTranscript(p)
  OBVIOUS
<1>2. \A f : IdentitiesHold(f, t)' <=> IdentitiesHold(f, t)
  BY DEF IdentitiesHold
<1> QED BY <1>1, <1>2 DEF Accepts, PairingHolds

\* All of a sequence of proofs are accepted that should be.
AllAccepted(ps) == \A k \in DOMAIN ps : k = 1 \/ ~memory => Accepts(ps[k])

LEMMA AllAcceptedStays ==
    ASSUME memory' = memory, NEW ps, AllAccepted(ps)
    PROVE  AllAccepted(ps)'
<1> SUFFICES ASSUME NEW k \in DOMAIN ps, k = 1 \/ ~memory PROVE Accepts(ps[k])'
  BY DEF AllAccepted
<1>1. PICK p : p = ps[k]
  OBVIOUS
<1>2. Accepts(p)
  BY <1>1 DEF AllAccepted
<1>3. Accepts(p)'
  BY <1>2, AcceptsStays
<1> QED BY <1>1, <1>3

LEMMA ProofsStayAccepted == ASSUME memory' = memory, proofs' = proofs, ProofAccepted PROVE ProofAccepted'
<1>1. PICK ps : ps = proofs
  OBVIOUS
<1>2. AllAccepted(ps)
  BY <1>1 DEF AllAccepted, ProofAccepted
<1>3. AllAccepted(ps)'
  BY <1>2, AllAcceptedStays
<1>4. AllAccepted(proofs)'
  BY <1>1, <1>3
<1> QED BY <1>4 DEF AllAccepted, ProofAccepted

LEMMA RightStays ==
    ASSUME memory' = memory, proofs' = proofs,
           NEW t, NEW s, NEW q, NEW ps, NEW r, NEW todo, NEW k, Right(t, s, q, ps, r, todo, k)
    PROVE  Right(t, s, q, ps, r, todo, k)'
<1>1. QuotientParts(Quotient(Forms(s), t))' = QuotientParts(Quotient(Forms(s), t))
  BY DEF QuotientParts, Blinding, ThisProof
<1>2. RecordsRight(s, t, r)' = RecordsRight(s, t, r)
  BY DEF RecordsRight
<1>3. ContentRight(s, t, ps, r, k)'
  BY <1>1, <1>2 DEF Right, ContentRight
<1> QED BY <1>3 DEF Right

\* More items to come do no harm.
LEMMA RightWithMore ==
    ASSUME NEW t, NEW s, NEW q, NEW ps, NEW r, NEW todo, NEW more, todo \subseteq more, NEW k,
           Right(t, s, q, ps, r, todo, k)
    PROVE  Right(t, s, q, ps, r, more, k)
<1>1. \A type, p : Pending(q, todo, type, p) => Pending(q, more, type, p)
  BY DEF Pending
<1> QED BY <1>1 DEF Right, FormsMatch

LEMMA PublicInputsAreIn ==
    ASSUME ProverInv, AcceptInv, round >= 5
    PROVE  "public_inputs" \in DOMAIN transcript.elements
<1>1. round = 5 \/ round = 6 \/ round = 7 \/ round = 8
  BY DEF ProverInv, TypeOK
<1>2. transcript.current_round \in {4, 5, 6}
  BY <1>1 DEF ProverInv, TypeOK
<1>3. 1 \in 0 .. transcript.current_round - 1
  BY <1>2
<1> QED BY <1>3, NamesAre DEF AcceptInv, Chained

\* A step of the same round.
LEMMA SameRoundAccepts ==
    ASSUME AcceptInv, memory' = memory, proofs' = proofs, parts' = parts, round' = round,
           NEW u, u = transcript', NEW v, v = store', NEW q, q = queue', NEW todo, todo = Unhandled',
           KeepsRight(u, v, transcript, q, parts, round, todo, ThisProof)
    PROVE  AcceptInv'
<1>1. PICK ps, r, k : ps = parts /\ r = round /\ k = ThisProof
  OBVIOUS
<1>2. Right(u, v, q, ps, r, todo, k)
  BY <1>1 DEF KeepsRight
<1>3. Right(u, v, q, ps, r, todo, k)'
  BY <1>2, RightStays
<1>4. ps = parts' /\ r = round' /\ k = ThisProof'
  BY <1>1 DEF ThisProof
<1>5. Right(transcript, store, queue, parts, round, Unhandled, ThisProof)'
  BY <1>3, <1>4
<1>6. ProofAccepted'
  BY ProofsStayAccepted DEF AcceptInv
<1>7. Chained(transcript)' /\ (round' \in 1 .. 7 => DOMAIN Sizes \subseteq DOMAIN transcript'.elements)
  BY DEF KeepsRight, AcceptInv
<1> QED BY <1>5, <1>6, <1>7 DEF AcceptInv

RightAfter(n) ==
    LET v == ProcessedItems[n]
    IN  /\ Sound(v.t, v.s, queue, round, ThisProof) /\ v = [t |-> v.t, s |-> v.s]
        /\ KeepsRight(v.t, v.s, transcript, queue, parts, round, {m \in Unhandled : m > n}, ThisProof)

LEMMA EveryItemIsRight ==
    ASSUME ProverInv, AcceptInv, NEW n \in 0 .. Len(queue) - 1, RightAfter(n)
    PROVE  RightAfter(n + 1)
<1>1. /\ Len(queue) \in Nat /\ DOMAIN queue = 1 .. Len(queue) /\ n \in Nat /\ n + 1 \in DOMAIN queue
      /\ round \in 0 .. 8 /\ Unhandled \subseteq DOMAIN queue
  BY DEF ProverInv, TypeOK, Unhandled
<1>2. PICK v : v = ProcessedItems[n]
  OBVIOUS
<1>3. PICK ts : ts = ProcessedItems[n + 1]
  OBVIOUS
<1>4. /\ v = [t |-> v.t, s |-> v.s] /\ Sound(v.t, v.s, queue, round, ThisProof)
      /\ KeepsRight(v.t, v.s, transcript, queue, parts, round, {m \in Unhandled : m > n}, ThisProof)
  BY <1>2 DEF RightAfter
<1>5. PICK t, s : t = v.t /\ s = v.s
  OBVIOUS
<1>6. ts = Delivered(queue[n + 1], Computed(queue[n + 1], s), [t |-> t, s |-> s])
  BY <1>1, <1>2, <1>3, <1>4, <1>5, ItemByItem
<1>7. PICK todo : todo = {m \in Unhandled : m > n}
  OBVIOUS
<1>8. KeepsRight(t, s, transcript, queue, parts, round, todo, ThisProof) /\ Sound(t, s, queue, round, ThisProof)
  BY <1>4, <1>5, <1>7
<1>9. ResultFits(ts, t, s, queue[n + 1], queue, round, ThisProof)
  BY <1>1, <1>6, <1>8, ResultIsSound
<1>10. round >= 5 => "public_inputs" \in DOMAIN t.elements
  BY <1>8, PublicInputsAreIn DEF KeepsRight
<1>11. Chained(t) /\ Right(t, s, queue, parts, round, todo, ThisProof)
  BY <1>8 DEF KeepsRight
<1>12. KeepsRight(ts.t, ts.s, t, queue, parts, round, todo \ {n + 1}, ThisProof)
  BY <1>1, <1>6, <1>8, <1>10, <1>11, ResultIsRight
<1>13. todo \ {n + 1} = {m \in Unhandled : m > n + 1}
  BY <1>1, <1>7
<1>14. KeepsRight(ts.t, ts.s, transcript, queue, parts, round, {m \in Unhandled : m > n + 1}, ThisProof)
  BY <1>8, <1>12, <1>13 DEF KeepsRight
<1> QED BY <1>3, <1>9, <1>14 DEF RightAfter, ResultFits

LEMMA ProcessQueueAccepts ==
    ASSUME ProverInv, AcceptInv, ProcessQueue PROVE AcceptInv'
<1>1. Len(queue) \in Nat /\ DOMAIN queue = 1 .. Len(queue)
  BY DEF ProverInv
<1> DEFINE S == {n \in Nat : n <= Len(queue) => RightAfter(n)}
<1>2. 0 \in S
  <2>1. PICK v : v = [t |-> transcript, s |-> store]
    OBVIOUS
  <2>2. ProcessedItems[0] = v
    BY <1>1, <2>1, ItemByItem
  <2>3. {m \in Unhandled : m > 0} = Unhandled
    BY <1>1 DEF Unhandled
  <2>4. v = [t |-> v.t, s |-> v.s] /\ v.t = transcript /\ v.s = store
    BY <2>1
  <2>5. KeepsRight(transcript, store, transcript, queue, parts, round, Unhandled, ThisProof)
    BY DEF KeepsRight, AcceptInv
  <2>6. RightAfter(0)
    BY <2>2, <2>3, <2>4, <2>5 DEF RightAfter, ProverInv
  <2> QED BY <2>6
<1>3. ASSUME NEW n \in Nat, n \in S PROVE n + 1 \in S
  <2> SUFFICES ASSUME n + 1 <= Len(queue) PROVE RightAfter(n + 1)
    OBVIOUS
  <2>1. n \in 0 .. Len(queue) - 1 /\ RightAfter(n)
    BY <1>1, <1>3
  <2> QED BY <2>1, EveryItemIsRight
<1>4. RightAfter(Len(queue))
  <2>1. Nat \subseteq S
    <3> HIDE DEF S
    <3> QED BY <1>2, <1>3, InductionOverSet
  <2> QED BY <1>1, <2>1
<1>5. PICK z : z = Processed
  OBVIOUS
<1>6. {m \in Unhandled : m > Len(queue)} = {}
  BY <1>1 DEF Unhandled
<1>7. KeepsRight(z.t, z.s, transcript, queue, parts, round, {}, ThisProof)
  BY <1>4, <1>5, <1>6 DEF RightAfter, Processed
<1>8. /\ transcript' = z.t /\ store' = z.s /\ queue' = << >> /\ parts' = parts
      /\ round' = round /\ proofs' = proofs /\ memory' = memory
  BY <1>5 DEF ProcessQueue
<1>9. PICK u, v, q : u = z.t /\ v = z.s /\ q = << >>
  OBVIOUS
<1>10. Right(u, v, q, parts, round, {}, ThisProof)
  <2>1. Right(u, v, queue, parts, round, {}, ThisProof)
    BY <1>7, <1>9 DEF KeepsRight
  <2>2. DOMAIN q = {}
    BY <1>9
  <2>3. FormsMatch(v, q, round, {})
    BY <2>1 DEF Right, FormsMatch, Pending
  <2> QED BY <2>1, <2>2, <2>3 DEF Right, QueueBelongs
<1>11. KeepsRight(u, v, transcript, q, parts, round, {}, ThisProof)
  BY <1>7, <1>9, <1>10 DEF KeepsRight
<1>12. PICK todo : todo = Unhandled'
  OBVIOUS
<1>13. todo = {}
  BY <1>8, <1>12 DEF Unhandled
<1> QED BY <1>8, <1>9, <1>11, <1>12, <1>13, SameRoundAccepts

LEMMA FetchAccepts ==
    ASSUME ProverInv, AcceptInv, NEW type, NEW n, Fetch(type, n) PROVE AcceptInv'
<1>1. /\ transcript' = transcript /\ store' = store /\ queue' = queue /\ handled' = handled
      /\ parts' = parts /\ round' = round /\ proofs' = proofs /\ memory' = memory
  BY DEF Fetch, keyVars
<1>2. Unhandled' = Unhandled
  BY <1>1 DEF Unhandled, Number
<1>3. PICK u, v, q, todo : u = transcript /\ v = store /\ q = queue /\ todo = Unhandled
  OBVIOUS
<1>4. KeepsRight(u, v, transcript, q, parts, round, todo, ThisProof)
  BY <1>3 DEF KeepsRight, AcceptInv
<1> QED BY <1>1, <1>2, <1>3, <1>4, SameRoundAccepts

LEMMA PutBackAccepts ==
    ASSUME ProverInv, AcceptInv, NEW w \in inflight, PutBack(w) PROVE AcceptInv'
<1>1. /\ w.item = <<w.item[1], w.item[2]>> /\ w.item[2] \in NumbersOf(w.item[1])
      /\ w.result = Computed(Target(w), store)
  BY DEF ProverInv, WorkersSound
<1>2. PICK n \in DOMAIN queue : /\ queue[n].work_type = w.item[1] /\ Number(n) = w.item[2]
                                /\ Target(w) = queue[n]
  BY <1>1, TargetIsQueued DEF Target
<1>3. PICK ts : ts = Delivered(queue[n], Computed(queue[n], store), [t |-> transcript, s |-> store])
  OBVIOUS
<1>4. /\ transcript' = ts.t /\ store' = ts.s /\ handled' = handled \cup {w.item}
      /\ queue' = queue /\ parts' = parts /\ round' = round /\ proofs' = proofs /\ memory' = memory
  BY <1>1, <1>2, <1>3 DEF PutBack
<1>5. KeepsRight(ts.t, ts.s, transcript, queue, parts, round, Unhandled \ {n}, ThisProof)
  <2>1. /\ round \in 0 .. 8 /\ Sound(transcript, store, queue, round, ThisProof) /\ Chained(transcript)
        /\ Right(transcript, store, queue, parts, round, Unhandled, ThisProof)
        /\ round >= 5 => "public_inputs" \in DOMAIN transcript.elements
    BY PublicInputsAreIn DEF ProverInv, AcceptInv, TypeOK
  <2>2. PICK todo, k : todo = Unhandled /\ k = ThisProof
    OBVIOUS
  <2> QED BY <1>3, <2>1, <2>2, ResultIsRight
<1>6. Unhandled \ {n} \subseteq Unhandled'
  <2> SUFFICES ASSUME NEW m \in Unhandled, m # n PROVE m \in Unhandled'
    OBVIOUS
  <2>1. m \in DOMAIN queue /\ <<queue[m].work_type, Number(m)>> \notin handled
    BY DEF Unhandled
  <2>2. <<queue[m].work_type, Number(m)>> # w.item
    BY <1>1, <1>2, <2>1, NumbersDiffer
  <2>3. Number(m)' = Number(m)
    BY <1>4 DEF Number
  <2> QED BY <1>4, <2>1, <2>2, <2>3 DEF Unhandled
<1>7. PICK u, v, q, todo : u = ts.t /\ v = ts.s /\ q = queue /\ todo = Unhandled'
  OBVIOUS
<1>8. KeepsRight(u, v, transcript, q, parts, round, todo, ThisProof)
  <2>1. Right(u, v, q, parts, round, Unhandled \ {n}, ThisProof)
    BY <1>5, <1>7 DEF KeepsRight
  <2>2. Unhandled \ {n} \subseteq todo
    BY <1>6, <1>7
  <2>3. PICK less, k : less = Unhandled \ {n} /\ k = ThisProof
    OBVIOUS
  <2>4. Right(u, v, q, parts, round, todo, ThisProof)
    BY <2>1, <2>2, <2>3, RightWithMore
  <2> QED BY <1>5, <1>7, <2>4 DEF KeepsRight
<1> QED BY <1>4, <1>7, <1>8, SameRoundAccepts

-----------------------------------------------------------------------------
(***************************************************************************)
(* The rounds.                                                             *)
(***************************************************************************)
LEMMA NamesApart ==
    /\ \A i \in 1 .. 4 : QuotientLabel[i] \in {"T_1", "T_2", "T_3", "T_4"}
    /\ \A i, j \in 1 .. 4 : QuotientLabel[i] = QuotientLabel[j] => i = j
    /\ \A p \in Polys : Omega[p] \in {"w_1_omega", "w_2_omega", "w_3_omega", "w_4_omega", "s_omega",
                                      "z_perm_omega", "z_lookup_omega"}
    /\ \A p, q \in Polys : Omega[p] = Omega[q] => p = q
    /\ DOMAIN Sizes = {"circuit_size", "public_input_size"}
<1>1. \A i \in 1 .. 4 : i = 1 \/ i = 2 \/ i = 3 \/ i = 4
  OBVIOUS
<1>2. QuotientLabel[1] = "T_1" /\ QuotientLabel[2] = "T_2" /\ QuotientLabel[3] = "T_3" /\ QuotientLabel[4] = "T_4"
  BY DEF QuotientLabel
<1>3. \A p \in Polys : Omega[p] \in {"w_1_omega", "w_2_omega", "w_3_omega", "w_4_omega", "s_omega",
                                      "z_perm_omega", "z_lookup_omega"}
  BY PolysAre DEF Omega
<1>4. \A p, q \in Polys : Omega[p] = Omega[q] => p = q
  BY PolysAre DEF Omega
<1>5. DOMAIN Sizes = {"circuit_size", "public_input_size"}
  BY DEF Sizes
<1>6. \A i, j \in 1 .. 4 : QuotientLabel[i] = QuotientLabel[j] => i = j
  BY <1>1, <1>2
<1> QED BY <1>1, <1>2, <1>3, <1>4, <1>5, <1>6

LEMMA OthersBelong ==
    ASSUME NEW x \in Commitments \cup {"public_inputs"}, NEW value, NEW t, NEW s, NEW ps, NEW r
    PROVE  Belongs(x, value, t, s, ps, r)
<1>1. x \in {"W_1", "W_2", "W_3", "W_4", "S", "Z_PERM", "Z_LOOKUP", "public_inputs"}
  BY LabelsAre
<1>2. /\ x \notin DOMAIN Sizes /\ x \notin Polys /\ x # "t" /\ x # "PI_Z" /\ x # "PI_Z_OMEGA"
      /\ \A i \in 1 .. 4 : x # QuotientLabel[i]
      /\ \A p \in Polys : x # Omega[p]
  BY <1>1, NamesApart, PolysAre
<1> QED BY <1>2 DEF Belongs

LEMMA SizesBelong ==
    ASSUME NEW x \in DOMAIN Sizes, NEW t, NEW s, NEW ps, NEW r
    PROVE  Belongs(x, Sizes[x], t, s, ps, r)
<1>1. /\ x \notin Polys /\ x # "t" /\ x # "PI_Z" /\ x # "PI_Z_OMEGA"
      /\ \A i \in 1 .. 4 : x # QuotientLabel[i]
      /\ \A p \in Polys : x # Omega[p]
  BY NamesApart, PolysAre
<1> QED BY <1>1 DEF Belongs

LEMMA HashKeeps ==
    ASSUME NEW t, IsTranscript(t), Chained(t), NEW name, ReadyFor(t, name),
           NEW u, u = apply_fiat_shamir(t), NEW r \in 0 .. 6, t.current_round = r
    PROVE  /\ IsTranscript(u) /\ Chained(u) /\ u.elements = t.elements
           /\ \A q \in 0 .. r - 1 : Challenge(u, ChallengeName(q)) = Challenge(t, ChallengeName(q))
<1>1. Names(r) \subseteq DOMAIN t.elements
  <2>1. NumChallenges(r) \in {1, 2}
    BY ChallengesAre, SevenRounds
  <2> QED BY <2>1 DEF ReadyFor
<1>2. Chained(u) /\ \A q \in 0 .. r - 1 : u.challenges[ChallengeName(q)] = t.challenges[ChallengeName(q)]
  BY <1>1, ChainGrows
<1> QED BY <1>2, HashAt DEF Challenge

\* What a round begins with.
LEMMA RoundStart ==
    ASSUME ProverInv, AcceptInv, NEW r \in 0 .. 7, Enter(r)
    PROVE  /\ IsTranscript(transcript) /\ Chained(transcript)
           /\ transcript.current_round = <<0, 1, 1, 2, 3, 4, 5, 6, 6>>[r + 1]
           /\ Stored(store, r)
           /\ ElementsBelong(transcript, store, parts, r)
           /\ FormsMatch(store, queue, r, {})
           /\ ContentRight(store, transcript, parts, r, ThisProof)
           /\ r \in 1 .. 7 => DOMAIN Sizes \subseteq DOMAIN transcript.elements
           /\ memory' = memory /\ round = r
<1>1. Unhandled = {} /\ Sound(transcript, store, queue, r, ThisProof)
  BY EveryResultIsIn
<1>2. memory' = memory /\ round = r
  BY DEF Enter
<1>3. transcript.current_round = <<0, 1, 1, 2, 3, 4, 5, 6, 6>>[r + 1]
  BY EveryResultIsIn
<1> QED BY <1>1, <1>2, <1>3 DEF Sound, AcceptInv, Right

\* What it has to leave.
LEMMA NextRoundAccepts ==
    ASSUME AcceptInv, NEW r \in 0 .. 6, Enter(r), proofs' = proofs,
           NEW u, u = transcript', NEW v, v = store', NEW q, q = queue', NEW ps, ps = parts',
           Chained(u), DOMAIN Sizes \subseteq DOMAIN u.elements,
           Right(u, v, q, ps, r + 1, DOMAIN q, ThisProof)
    PROVE  AcceptInv'
<1>1. memory' = memory /\ round' = r + 1 /\ handled' = {}
  BY DEF Enter
<1>2. PICK n, todo, k : n = r + 1 /\ todo = DOMAIN q /\ k = ThisProof
  OBVIOUS
<1>3. Right(u, v, q, ps, n, todo, k)
  BY <1>2
<1>4. Right(u, v, q, ps, n, todo, k)'
  BY <1>1, <1>3, RightStays
<1>5. todo = Unhandled' /\ n = round' /\ k = ThisProof'
  BY <1>1, <1>2 DEF ThisProof, Unhandled
<1>6. Right(transcript, store, queue, parts, round, Unhandled, ThisProof)'
  BY <1>4, <1>5
<1>7. ProofAccepted'
  BY <1>1, ProofsStayAccepted DEF AcceptInv
<1>8. Chained(transcript)' /\ DOMAIN Sizes \subseteq DOMAIN transcript'.elements /\ round' # 8
  BY <1>1
<1> QED BY <1>6, <1>7, <1>8 DEF AcceptInv

\* The elements of t belong in u.
BelongIn(t, u, v, ps, r) == \A x \in DOMAIN t.elements : Belongs(x, t.elements[x], u, v, ps, r)

LEMMA ElementsStay ==
    ASSUME NEW t, NEW s, NEW ps, NEW r \in 0 .. 6, ElementsBelong(t, s, ps, r),
           NEW u, NEW v, NEW qs, r >= 5 => qs = ps,
           r >= 6 => Challenge(u, "z") = Challenge(t, "z") /\ Forms(v) = Forms(s)
    PROVE  BelongIn(t, u, v, qs, r + 1)
<1> SUFFICES ASSUME NEW x \in DOMAIN t.elements PROVE Belongs(x, t.elements[x], u, v, qs, r + 1)
  BY DEF BelongIn
<1>1. Belongs(x, t.elements[x], t, s, ps, r)
  BY DEF ElementsBelong
<1>2. r \in Nat /\ r + 1 \in Nat /\ r + 1 >= r /\ ~ r >= 7
  OBVIOUS
<1>3. PICK y, n : y = t.elements[x] /\ n = r + 1
  OBVIOUS
<1> QED BY <1>1, <1>2, <1>3, BelongsStays

LEMMA PreambleAccepts == ASSUME ProverInv, AcceptInv, PreambleRound PROVE AcceptInv'
<1>1. Enter(0) /\ proofs' = proofs /\ parts' = parts
  BY DEF PreambleRound
<1>2. /\ IsTranscript(transcript) /\ Chained(transcript) /\ transcript.current_round = 0
      /\ Stored(store, 0) /\ ElementsBelong(transcript, store, parts, 0)
      /\ ContentRight(store, transcript, parts, 0, ThisProof)
  BY <1>1, RoundStart
<1>3. PICK t : t = AddElements(transcript, Sizes)
  OBVIOUS
<1>4. PICK e, c, d : transcript = [elements |-> e, current_round |-> 0, current_challenge |-> c, challenges |-> d]
  BY <1>2 DEF IsTranscript
<1>5. t = [elements |-> Over(e, Sizes), current_round |-> 0, current_challenge |-> c, challenges |-> d]
  BY <1>3, <1>4 DEF AddElements
<1>6. PICK g : g = Over(e, Sizes)
  OBVIOUS
<1>7. /\ IsTranscript(t) /\ t.current_round = 0 /\ t.current_challenge = c /\ t.challenges = d /\ t.elements = g
      /\ transcript.elements = e /\ transcript.challenges = d /\ transcript.current_challenge = c
  BY <1>4, <1>5, <1>6 DEF IsTranscript
<1>8. /\ \A x \in DOMAIN e : x \in DOMAIN g /\ g[x] = e[x]
      /\ \A x \in DOMAIN g \ DOMAIN e : x \in DOMAIN Sizes /\ g[x] = Sizes[x]
      /\ DOMAIN Sizes \subseteq DOMAIN g
  BY <1>6 DEF Over
<1>9. Chained(t)
  BY <1>2, <1>7, <1>8, ChainStays
<1>10. PICK u : u = apply_fiat_shamir(t)
  OBVIOUS
<1>11. Chained(u) /\ u.elements = g
  <2>1. ReadyFor(t, "init")
    BY <1>3 DEF PreambleRound
  <2> QED BY <1>7, <1>9, <1>10, <2>1, HashKeeps
<1>12. u = transcript'
  BY <1>3, <1>10 DEF PreambleRound
<1>13. PICK v, q : v = store' /\ q = queue'
  OBVIOUS
<1>14. v[InLagrange("w_4")] = store[InLagrange("w_4")]
  <2>1. PICK b : b = BlindedWires
    OBVIOUS
  <2>2. v = Over(b, store) /\ DOMAIN b = {"lagrange"} \X {"w_1", "w_2", "w_3"}
    BY <1>13, <2>1 DEF PreambleRound, BlindedWires
  <2>3. InLagrange("w_4") \notin DOMAIN b
    BY <2>2 DEF InLagrange
  <2>4. InLagrange("w_4") \in DOMAIN store
    BY <1>2 DEF Stored, AllWires
  <2> QED BY <2>2, <2>3, <2>4 DEF Over
<1>15. q = <<Ifft("w_1"), Ifft("w_2"), Ifft("w_3")>>
  BY <1>13 DEF PreambleRound
<1>16. DOMAIN q = 1 .. 3 /\ q[1] = Ifft("w_1") /\ q[2] = Ifft("w_2") /\ q[3] = Ifft("w_3")
  BY <1>15
<1>17. \A n \in DOMAIN q : q[n].work_type = "IFFT"
  BY <1>15, <1>16 DEF Ifft
<1>18. ElementsBelong(u, v, parts, 0 + 1)
  <2> SUFFICES ASSUME NEW x \in DOMAIN g PROVE Belongs(x, g[x], u, v, parts, 0 + 1)
    BY <1>11 DEF ElementsBelong
  <2>1. CASE x \in DOMAIN e
    <3>1. x \in DOMAIN transcript.elements /\ g[x] = transcript.elements[x]
      BY <1>7, <1>8, <2>1
    <3>2. BelongIn(transcript, u, v, parts, 0 + 1)
      BY <1>2, ElementsStay
    <3> QED BY <3>1, <3>2 DEF BelongIn
  <2>2. CASE x \notin DOMAIN e
    BY <1>8, <2>2, SizesBelong
  <2> QED BY <2>1, <2>2
<1>19. QueueBelongs(q, u, v, parts, 0 + 1)
  BY <1>17 DEF QueueBelongs
<1>20. FormsMatch(v, q, 0 + 1, DOMAIN q)
  <2>1. \A w \in FirstWires : Pending(q, DOMAIN q, "IFFT", w)
    BY <1>16 DEF Pending, FirstWires, Ifft
  <2> QED BY <2>1 DEF FormsMatch
<1>21. ContentRight(v, u, parts, 0 + 1, ThisProof)
  <2>1. RecordsRight(store, transcript, 0) => RecordsRight(v, u, 1)
    BY <1>14 DEF RecordsRight
  <2> QED BY <1>2, <2>1 DEF ContentRight
<1>22. Right(u, v, q, parts, 0 + 1, DOMAIN q, ThisProof)
  BY <1>18, <1>19, <1>20, <1>21 DEF Right
<1>23. DOMAIN Sizes \subseteq DOMAIN u.elements
  BY <1>8, <1>11
<1> QED BY <1>1, <1>11, <1>12, <1>13, <1>22, <1>23, NextRoundAccepts

LEMMA FirstAccepts == ASSUME ProverInv, AcceptInv, FirstRound PROVE AcceptInv'
<1>1. Enter(1) /\ proofs' = proofs /\ parts' = parts /\ store' = store /\ queue' = WireCommitments
  BY DEF FirstRound, keyVars
<1>2. /\ IsTranscript(transcript) /\ Chained(transcript)
      /\ ElementsBelong(transcript, store, parts, 1)
      /\ FormsMatch(store, queue, 1, {})
      /\ ContentRight(store, transcript, parts, 1, ThisProof)
      /\ DOMAIN Sizes \subseteq DOMAIN transcript.elements
  BY <1>1, RoundStart
<1>3. PICK x : x = PublicInputs(Lagrange("w_2"))
  OBVIOUS
<1>4. PICK u : u = add_element(transcript, "public_inputs", x)
  OBVIOUS
<1>5. u = transcript'
  BY <1>3, <1>4 DEF FirstRound
<1>6. /\ Chained(u)
      /\ \A y \in DOMAIN transcript.elements : y \in DOMAIN u.elements /\ u.elements[y] = transcript.elements[y]
      /\ \A y \in DOMAIN u.elements \ DOMAIN transcript.elements : y = "public_inputs"
  BY <1>2, <1>4, AddKeepsTheChain
<1>7. PICK q : q = queue'
  OBVIOUS
<1>8. DOMAIN q = 1 .. 3 /\ \A n \in DOMAIN q : q[n].work_type = "SCALAR_MULTIPLICATION" /\ q[n].tag \in Commitments
  <2>1. DOMAIN q = 1 .. 3 /\ \A n \in DOMAIN q : q[n] = Commit(Monomial(Wires[n]), Label[Wires[n]])
    BY <1>1, <1>7 DEF WireCommitments
  <2>2. \A n \in 1 .. 3 : Wires[n] \in Polys
    BY PolysAre DEF Wires
  <2> QED BY <2>1, <2>2 DEF Commit, Commitments
<1>9. ElementsBelong(u, store, parts, 1 + 1)
  <2> SUFFICES ASSUME NEW y \in DOMAIN u.elements PROVE Belongs(y, u.elements[y], u, store, parts, 1 + 1)
    BY DEF ElementsBelong
  <2>1. CASE y \in DOMAIN transcript.elements
    <3>1. BelongIn(transcript, u, store, parts, 1 + 1)
      BY <1>2, ElementsStay
    <3> QED BY <1>6, <2>1, <3>1 DEF BelongIn
  <2>2. CASE y \notin DOMAIN transcript.elements
    BY <1>6, <2>2, OthersBelong
  <2> QED BY <2>1, <2>2
<1>10. QueueBelongs(q, u, store, parts, 1 + 1)
  BY <1>8, OthersBelong DEF QueueBelongs
<1>11. FormsMatch(store, q, 1 + 1, DOMAIN q)
  BY <1>2 DEF FormsMatch, Pending
<1>12. ContentRight(store, u, parts, 1 + 1, ThisProof)
  <2>1. RecordsRight(store, transcript, 1) => RecordsRight(store, u, 2)
    BY DEF RecordsRight
  <2> QED BY <1>2, <2>1 DEF ContentRight
<1>13. Right(u, store, q, parts, 1 + 1, DOMAIN q, ThisProof)
  BY <1>9, <1>10, <1>11, <1>12 DEF Right
<1>14. DOMAIN Sizes \subseteq DOMAIN u.elements
  BY <1>2, <1>6
<1>15. PICK v : v = store
  OBVIOUS
<1> QED BY <1>1, <1>5, <1>6, <1>7, <1>13, <1>14, <1>15, NextRoundAccepts

LEMMA SecondAccepts == ASSUME ProverInv, AcceptInv, SecondRound PROVE AcceptInv'
<1>1. Enter(2) /\ proofs' = proofs /\ parts' = parts
  BY DEF SecondRound
<1>2. /\ IsTranscript(transcript) /\ Chained(transcript) /\ transcript.current_round = 1
      /\ Stored(store, 2)
      /\ ElementsBelong(transcript, store, parts, 2)
      /\ FormsMatch(store, queue, 2, {})
      /\ ContentRight(store, transcript, parts, 2, ThisProof)
      /\ DOMAIN Sizes \subseteq DOMAIN transcript.elements
  BY <1>1, RoundStart
<1>3. PICK u : u = apply_fiat_shamir(transcript)
  OBVIOUS
<1>4. u = transcript'
  BY <1>3 DEF SecondRound
<1>5. Chained(u) /\ u.elements = transcript.elements
  <2>1. ReadyFor(transcript, "eta")
    BY DEF SecondRound
  <2> QED BY <1>2, <1>3, <2>1, HashKeeps
<1>6. PICK s : s = SortedList(u)
  OBVIOUS
<1>7. PICK w : w = Lagrange("w_4")
  OBVIOUS
<1>8. PICK w_4 : w_4 = [MemoryRecords(w, u) EXCEPT !.blind = ThisProof]
  OBVIOUS
<1>9. PICK v, q : v = store' /\ q = queue'
  OBVIOUS
<1>10. /\ v = Put("lagrange", "s", s, Put("monomial", "s", s,
                   Put("lagrange", "w_4", w_4, Put("monomial", "w_4", w_4, store))))
       /\ q = <<Commit(s, "S"), FftOf("s"), Commit(w_4, "W_4")>>
  BY <1>4, <1>6, <1>7, <1>8, <1>9 DEF SecondRound
<1>11. /\ v[InMonomial("w_4")] = w_4 /\ v[InLagrange("w_4")] = w_4
       /\ v[InMonomial("s")] = s /\ v[InLagrange("s")] = s
       /\ {InMonomial("w_4"), InLagrange("w_4"), InMonomial("s"), InLagrange("s")} \subseteq DOMAIN v
       /\ \A x \in DOMAIN store : x \in DOMAIN v /\
            (x \notin {InMonomial("w_4"), InMonomial("s"), InLagrange("w_4"), InLagrange("s")} => v[x] = store[x])
  <2>1. PICK a : a = Put("monomial", "w_4", w_4, store)
    OBVIOUS
  <2>2. PICK b : b = Put("lagrange", "w_4", w_4, a)
    OBVIOUS
  <2>3. PICK c : c = Put("monomial", "s", s, b)
    OBVIOUS
  <2>4. v = Put("lagrange", "s", s, c)
    BY <1>10, <2>1, <2>2, <2>3
  <2>5. /\ <<"monomial", "w_4">> \in DOMAIN a /\ a[<<"monomial", "w_4">>] = w_4
        /\ \A x \in DOMAIN store : x \in DOMAIN a /\ (x # <<"monomial", "w_4">> => a[x] = store[x])
    BY <2>1, PutAt
  <2>6. /\ <<"lagrange", "w_4">> \in DOMAIN b /\ b[<<"lagrange", "w_4">>] = w_4
        /\ \A x \in DOMAIN a : x \in DOMAIN b /\ (x # <<"lagrange", "w_4">> => b[x] = a[x])
    BY <2>2, PutAt
  <2>7. /\ <<"monomial", "s">> \in DOMAIN c /\ c[<<"monomial", "s">>] = s
        /\ \A x \in DOMAIN b : x \in DOMAIN c /\ (x # <<"monomial", "s">> => c[x] = b[x])
    BY <2>3, PutAt
  <2>8. /\ <<"lagrange", "s">> \in DOMAIN v /\ v[<<"lagrange", "s">>] = s
        /\ \A x \in DOMAIN c : x \in DOMAIN v /\ (x # <<"lagrange", "s">> => v[x] = c[x])
    BY <2>4, PutAt
  <2> QED BY <2>5, <2>6, <2>7, <2>8 DEF InMonomial, InLagrange
<1>12. DOMAIN q = 1 .. 3 /\ q[1] = Commit(s, "S") /\ q[2] = FftOf("s") /\ q[3] = Commit(w_4, "W_4")
  BY <1>10
<1>13. ElementsBelong(u, v, parts, 2 + 1)
  <2>1. BelongIn(transcript, u, v, parts, 2 + 1)
    BY <1>2, ElementsStay
  <2> QED BY <1>5, <2>1 DEF BelongIn, ElementsBelong
<1>14. QueueBelongs(q, u, v, parts, 2 + 1)
  <2>1. \A n \in DOMAIN q : q[n].work_type = "SCALAR_MULTIPLICATION" => q[n].tag \in Commitments
    BY <1>12, LabelsAre DEF Commit, FftOf
  <2> QED BY <2>1, OthersBelong DEF QueueBelongs
<1>15. FormsMatch(v, q, 2 + 1, DOMAIN q)
  <2>1. ASSUME NEW x \in FirstWires PROVE Match(v, InMonomial(x), InLagrange(x))
    <3>1. /\ InLagrange(x) \notin {InMonomial("w_4"), InMonomial("s"), InLagrange("w_4"), InLagrange("s")}
          /\ InMonomial(x) \notin {InMonomial("w_4"), InMonomial("s"), InLagrange("w_4"), InLagrange("s")}
      BY DEF InLagrange, InMonomial, FirstWires
    <3>2. Match(store, InMonomial(x), InLagrange(x))
      BY <1>2 DEF FormsMatch
    <3> QED BY <1>11, <3>1, <3>2 DEF Match
  <2>2. Match(v, InMonomial("w_4"), InLagrange("w_4")) /\ Match(v, InMonomial("s"), InLagrange("s"))
    BY <1>11 DEF Match
  <2>3. Pending(q, DOMAIN q, "FFT", "s")
    BY <1>12 DEF Pending, FftOf
  <2> QED BY <2>1, <2>2, <2>3 DEF FormsMatch
<1>16. SortedListRight(v, u)
  BY <1>6, <1>11 DEF SortedListRight, SortedList
<1>17. RecordsRight(store, transcript, 2) => RecordsRight(v, u, 2 + 1)
  <2> SUFFICES ASSUME RecordsRight(store, transcript, 2) PROVE RecordsRight(v, u, 2 + 1)
    OBVIOUS
  <2>1. IsWire(w) /\ w.etas = << >>
    BY <1>2, <1>7 DEF RecordsRight, Stored, AllWires, Lagrange, InLagrange
  <2>2. PICK m : m = MemoryRecords(w, u)
    OBVIOUS
  <2>3. PICK x, y : w = [wire |-> x, blind |-> y, etas |-> << >>]
    BY <2>1 DEF IsWire
  <2>4. m = [wire |-> x, blind |-> y, etas |-> IF memory THEN <<Challenge(u, "eta")>> ELSE << >>]
    <3>1. \A e : Append(<< >>, e) = <<e>>
      OBVIOUS
    <3> QED BY <2>2, <2>3, <3>1 DEF MemoryRecords
  <2>5. w_4.etas = IF memory THEN <<Challenge(u, "eta")>> ELSE << >>
    BY <1>8, <2>2, <2>4
  <2> QED BY <1>11, <2>5 DEF RecordsRight
<1>18. ContentRight(v, u, parts, 2 + 1, ThisProof)
  BY <1>2, <1>16, <1>17 DEF ContentRight
<1>19. Right(u, v, q, parts, 2 + 1, DOMAIN q, ThisProof)
  BY <1>13, <1>14, <1>15, <1>18 DEF Right
<1>20. DOMAIN Sizes \subseteq DOMAIN u.elements
  BY <1>2, <1>5
<1> QED BY <1>1, <1>4, <1>5, <1>9, <1>19, <1>20, NextRoundAccepts

LEMMA ThirdAccepts == ASSUME ProverInv, AcceptInv, ThirdRound PROVE AcceptInv'
<1>1. Enter(3) /\ proofs' = proofs /\ parts' = parts
  BY DEF ThirdRound
<1>2. /\ IsTranscript(transcript) /\ Chained(transcript) /\ transcript.current_round = 2
      /\ Stored(store, 3)
      /\ ElementsBelong(transcript, store, parts, 3)
      /\ FormsMatch(store, queue, 3, {})
      /\ ContentRight(store, transcript, parts, 3, ThisProof)
      /\ DOMAIN Sizes \subseteq DOMAIN transcript.elements
  BY <1>1, RoundStart
<1>3. PICK u : u = apply_fiat_shamir(transcript)
  OBVIOUS
<1>4. u = transcript'
  BY <1>3 DEF ThirdRound
<1>5. Chained(u) /\ u.elements = transcript.elements /\ Challenge(u, "eta") = Challenge(transcript, "eta")
  <2>1. ReadyFor(transcript, "beta")
    BY DEF ThirdRound
  <2>2. /\ Chained(u) /\ u.elements = transcript.elements
        /\ \A i \in 0 .. 2 - 1 : Challenge(u, ChallengeName(i)) = Challenge(transcript, ChallengeName(i))
    BY <1>2, <1>3, <2>1, HashKeeps
  <2>3. 1 \in 0 .. 2 - 1
    OBVIOUS
  <2> QED BY <2>2, <2>3, ChallengesAre
<1>6. PICK wires : wires = [k \in 1 .. 4 |-> Lagrange(Wires[k])]
  OBVIOUS
<1>7. PICK s : s = Lagrange("s")
  OBVIOUS
<1>8. PICK z_perm : z_perm = GrandProduct(wires, u)
  OBVIOUS
<1>9. PICK z_lookup : z_lookup = LookupProduct(SubSeq(wires, 1, 3), s, u)
  OBVIOUS
<1>10. PICK v, q : v = store' /\ q = queue'
  OBVIOUS
<1>11. /\ v = Put("monomial", "z_perm", z_perm, Put("monomial", "z_lookup", z_lookup, store))
       /\ q = <<Commit(z_perm, "Z_PERM"), FftOf("z_perm"), Commit(z_lookup, "Z_LOOKUP"), FftOf("z_lookup")>>
              \o [k \in 1 .. 4 |-> FftOf(Wires[k])]
  BY <1>4, <1>6, <1>7, <1>8, <1>9, <1>10 DEF ThirdRound
<1>12. /\ InMonomial("z_perm") \in DOMAIN v /\ v[InMonomial("z_perm")] = z_perm
       /\ InMonomial("z_lookup") \in DOMAIN v /\ v[InMonomial("z_lookup")] = z_lookup
       /\ \A x \in DOMAIN store : x \in DOMAIN v /\
            (x \notin {InMonomial("z_perm"), InMonomial("z_lookup")} => v[x] = store[x])
  <2>1. PICK a : a = Put("monomial", "z_lookup", z_lookup, store)
    OBVIOUS
  <2>2. v = Put("monomial", "z_perm", z_perm, a)
    BY <1>11, <2>1
  <2>3. /\ <<"monomial", "z_lookup">> \in DOMAIN a /\ a[<<"monomial", "z_lookup">>] = z_lookup
        /\ \A x \in DOMAIN store : x \in DOMAIN a /\ (x # <<"monomial", "z_lookup">> => a[x] = store[x])
    BY <2>1, PutAt
  <2>4. /\ <<"monomial", "z_perm">> \in DOMAIN v /\ v[<<"monomial", "z_perm">>] = z_perm
        /\ \A x \in DOMAIN a : x \in DOMAIN v /\ (x # <<"monomial", "z_perm">> => v[x] = a[x])
    BY <2>2, PutAt
  <2> QED BY <2>3, <2>4 DEF InMonomial
<1>13. PICK first : first = <<Commit(z_perm, "Z_PERM"), FftOf("z_perm"), Commit(z_lookup, "Z_LOOKUP"), FftOf("z_lookup")>>
  OBVIOUS
<1>14. PICK ffts : ffts = [k \in 1 .. 4 |-> FftOf(Wires[k])]
  OBVIOUS
<1>15. /\ DOMAIN q = 1 .. 8
       /\ \A n \in 1 .. 4 : q[n] = first[n] /\ q[n + 4] = ffts[n]
  <2>1. q = first \o ffts
    BY <1>11, <1>13, <1>14, Zenon
  <2>2. PICK S : first \in Seq(S) /\ ffts \in Seq(S)
    <3>1. first \in Seq({first[i] : i \in 1 .. 4} \cup {ffts[i] : i \in 1 .. 4})
      BY <1>13
    <3>2. ffts \in Seq({first[i] : i \in 1 .. 4} \cup {ffts[i] : i \in 1 .. 4})
      BY <1>14
    <3> QED BY <3>1, <3>2
  <2>3. Len(first) = 4 /\ Len(ffts) = 4
    BY <1>13, <1>14
  <2>4. q \in Seq(S) /\ IsJoin(q, first, ffts)
    BY <2>1, <2>2, Joined, Zenon
  <2> QED BY <2>3, <2>4, FourAndFour
<1>16. /\ q[1] = Commit(z_perm, "Z_PERM") /\ q[2] = FftOf("z_perm")
       /\ q[3] = Commit(z_lookup, "Z_LOOKUP") /\ q[4] = FftOf("z_lookup")
       /\ q[5] = FftOf("w_1") /\ q[6] = FftOf("w_2") /\ q[7] = FftOf("w_3") /\ q[8] = FftOf("w_4")
  <2>1. 1 + 4 = 5 /\ 2 + 4 = 6 /\ 3 + 4 = 7 /\ 4 + 4 = 8
    OBVIOUS
  <2>2. q[1] = first[1] /\ q[2] = first[2] /\ q[3] = first[3] /\ q[4] = first[4]
        /\ q[5] = ffts[1] /\ q[6] = ffts[2] /\ q[7] = ffts[3] /\ q[8] = ffts[4]
    BY <1>15, <2>1
  <2>3. ffts[1] = FftOf("w_1") /\ ffts[2] = FftOf("w_2") /\ ffts[3] = FftOf("w_3") /\ ffts[4] = FftOf("w_4")
    BY <1>14 DEF Wires
  <2> QED BY <1>13, <2>2, <2>3
<1>17. \A n \in DOMAIN q : n = 1 \/ n = 2 \/ n = 3 \/ n = 4 \/ n = 5 \/ n = 6 \/ n = 7 \/ n = 8
  BY <1>15
<1>18. \A w : InLagrange(w) \notin {InMonomial("z_perm"), InMonomial("z_lookup")}
  BY DEF InLagrange, InMonomial
<1>19. \A p \in AllWires \cup {"s"} :
          /\ InMonomial(p) \notin {InMonomial("z_perm"), InMonomial("z_lookup")}
          /\ InFft(p) \notin {InMonomial("z_perm"), InMonomial("z_lookup")}
  BY DEF InMonomial, InFft, AllWires
<1>20. \A p \in AllWires \cup {"s"} : Match(v, InMonomial(p), InLagrange(p)) /\ Match(store, InMonomial(p), InLagrange(p))
  <2>1. \A p \in AllWires \cup {"s"} : Match(store, InMonomial(p), InLagrange(p))
    <3>1. \A p \in AllWires \cup {"s"} : p \in FirstWires \/ p = "w_4" \/ p = "s"
      BY DEF AllWires, FirstWires
    <3>2. Match(store, InMonomial("w_4"), InLagrange("w_4")) /\ Match(store, InMonomial("s"), InLagrange("s"))
          /\ \A w \in FirstWires : Match(store, InMonomial(w), InLagrange(w))
      BY <1>2 DEF FormsMatch
    <3> QED BY <3>1, <3>2
  <2> QED BY <1>12, <1>18, <1>19, <2>1 DEF Match
<1>21. ElementsBelong(u, v, parts, 3 + 1)
  <2>1. BelongIn(transcript, u, v, parts, 3 + 1)
    BY <1>2, ElementsStay
  <2> QED BY <1>5, <2>1 DEF BelongIn, ElementsBelong
<1>22. QueueBelongs(q, u, v, parts, 3 + 1)
  <2>1. \A n \in DOMAIN q : q[n].work_type = "SCALAR_MULTIPLICATION" => q[n].tag \in Commitments
    BY <1>16, <1>17, LabelsAre DEF Commit, FftOf
  <2> QED BY <2>1, OthersBelong DEF QueueBelongs
<1>23. FormsMatch(v, q, 3 + 1, DOMAIN q)
  <2>1. \A p \in Polys : p # "s" => Pending(q, DOMAIN q, "FFT", p)
    <3>1. \A n \in {2, 4, 5, 6, 7, 8} : n \in DOMAIN q
      BY <1>15
    <3> QED BY <1>16, <3>1, PolysAre DEF Pending, FftOf
  <2>2. Match(v, InFft("s"), InMonomial("s"))
    <3>1. Match(store, InFft("s"), InMonomial("s"))
      BY <1>2 DEF FormsMatch, Pending
    <3> QED BY <1>12, <1>19, <3>1 DEF Match
  <2>3. \A w \in FirstWires : w \in AllWires
    BY FinalRounds
  <2>4. "w_4" \in AllWires
    BY DEF AllWires
  <2> QED BY <1>20, <2>1, <2>2, <2>3, <2>4 DEF FormsMatch
<1>24. v[InMonomial("s")] = s /\ v[InMonomial("s")] = store[InMonomial("s")]
  BY <1>7, <1>12, <1>19, <1>20 DEF Match, Lagrange, InLagrange
<1>25. SortedListRight(v, u)
  BY <1>2, <1>5, <1>24 DEF ContentRight, SortedListRight
<1>26. ProductsRight(v, u)
  <2>1. [k \in 1 .. 4 |-> v[InMonomial(Wires[k])]] = wires
    <3>1. \A k \in 1 .. 4 : Wires[k] \in AllWires
      BY DEF Wires, AllWires
    <3>2. \A k \in 1 .. 4 : v[InMonomial(Wires[k])] = Lagrange(Wires[k])
      BY <1>12, <1>18, <1>20, <3>1 DEF Match, Lagrange, InLagrange
    <3> QED BY <1>6, <3>2
  <2>2. z_perm.product = wires /\ z_perm.beta = Challenge(u, "beta")
    BY <1>8 DEF GrandProduct
  <2>3. /\ z_lookup.lookups = SubSeq(wires, 1, 3) /\ z_lookup.s = s
        /\ z_lookup.eta = Challenge(u, "eta") /\ z_lookup.beta = Challenge(u, "beta")
    BY <1>9 DEF LookupProduct
  <2> QED BY <1>12, <1>24, <2>1, <2>2, <2>3 DEF ProductsRight
<1>27. RecordsRight(store, transcript, 3) => RecordsRight(v, u, 3 + 1)
  <2>1. v[InLagrange("w_4")] = store[InLagrange("w_4")]
    BY <1>2, <1>12, <1>18 DEF Stored, AllWires
  <2> QED BY <1>5, <2>1 DEF RecordsRight
<1>28. ContentRight(v, u, parts, 3 + 1, ThisProof)
  BY <1>2, <1>25, <1>26, <1>27 DEF ContentRight
<1>29. Right(u, v, q, parts, 3 + 1, DOMAIN q, ThisProof)
  BY <1>21, <1>22, <1>23, <1>28 DEF Right
<1>30. DOMAIN Sizes \subseteq DOMAIN u.elements
  BY <1>2, <1>5
<1> QED BY <1>1, <1>4, <1>5, <1>10, <1>29, <1>30, NextRoundAccepts

LEMMA FourthAccepts == ASSUME ProverInv, AcceptInv, FourthRound PROVE AcceptInv'
<1>1. Enter(4) /\ proofs' = proofs /\ store' = store
  BY DEF FourthRound
<1>2. /\ IsTranscript(transcript) /\ Chained(transcript) /\ transcript.current_round = 3
      /\ ElementsBelong(transcript, store, parts, 4)
      /\ FormsMatch(store, queue, 4, {})
      /\ ContentRight(store, transcript, parts, 4, ThisProof)
      /\ DOMAIN Sizes \subseteq DOMAIN transcript.elements
  BY <1>1, RoundStart
<1>3. PICK u : u = apply_fiat_shamir(transcript)
  OBVIOUS
<1>4. u = transcript'
  BY <1>3 DEF FourthRound
<1>5. /\ Chained(u) /\ u.elements = transcript.elements
      /\ Challenge(u, "eta") = Challenge(transcript, "eta") /\ Challenge(u, "beta") = Challenge(transcript, "beta")
  <2>1. ReadyFor(transcript, "alpha")
    BY DEF FourthRound
  <2>2. /\ Chained(u) /\ u.elements = transcript.elements
        /\ \A i \in 0 .. 3 - 1 : Challenge(u, ChallengeName(i)) = Challenge(transcript, ChallengeName(i))
    BY <1>2, <1>3, <2>1, HashKeeps
  <2>3. 1 \in 0 .. 3 - 1 /\ 2 \in 0 .. 3 - 1
    OBVIOUS
  <2> QED BY <2>2, <2>3, ChallengesAre
<1>6. PICK v, q, ps : v = store /\ q = queue' /\ ps = parts'
  OBVIOUS
<1>7. [p \in Polys |-> Fft(p)] = Forms(v)
  <2>1. \A p \in Polys : Fft(p) = v[InMonomial(p)]
    BY <1>2, <1>6 DEF FormsMatch, Pending, Match, Fft, InFft
  <2> QED BY <2>1 DEF Forms
<1>8. ps = QuotientParts(Quotient(Forms(v), u))
  BY <1>4, <1>6, <1>7 DEF FourthRound
<1>9. q = [k \in 1 .. 4 |-> Commit(ps[k - 1], QuotientLabel[k])]
  BY <1>6 DEF FourthRound
<1>10. ElementsBelong(u, v, ps, 4 + 1)
  <2>1. BelongIn(transcript, u, v, ps, 4 + 1)
    BY <1>2, ElementsStay
  <2> QED BY <1>5, <2>1 DEF BelongIn, ElementsBelong
<1>11. QueueBelongs(q, u, v, ps, 4 + 1)
  <2> SUFFICES ASSUME NEW n \in 1 .. 4 PROVE Belongs(QuotientLabel[n], ps[n - 1], u, v, ps, 5)
    BY <1>9 DEF QueueBelongs, Commit
  <2>1. PICK x : x = QuotientLabel[n]
    OBVIOUS
  <2>2. /\ x \notin DOMAIN Sizes /\ x \notin Polys /\ x # "t" /\ x # "PI_Z" /\ x # "PI_Z_OMEGA"
        /\ \A i \in 1 .. 4 : x = QuotientLabel[i] => i = n
        /\ \A p \in Polys : x # Omega[p]
    BY <2>1, NamesApart, PolysAre
  <2>3. Belongs(x, ps[n - 1], u, v, ps, 5)
    BY <2>2 DEF Belongs
  <2> QED BY <2>1, <2>3
<1>12. FormsMatch(v, q, 4 + 1, DOMAIN q)
  BY <1>2, <1>6 DEF FormsMatch, Pending
<1>13. ContentRight(v, u, ps, 4 + 1, ThisProof)
  <2>1. SortedListRight(v, u)
    BY <1>2, <1>5, <1>6 DEF ContentRight, SortedListRight
  <2>2. ProductsRight(v, u)
    BY <1>2, <1>5, <1>6 DEF ContentRight, ProductsRight
  <2>3. RecordsRight(store, transcript, 4) => RecordsRight(v, u, 4 + 1)
    BY <1>5, <1>6 DEF RecordsRight
  <2> QED BY <1>2, <1>8, <2>1, <2>2, <2>3 DEF ContentRight
<1>14. Right(u, v, q, ps, 4 + 1, DOMAIN q, ThisProof)
  BY <1>10, <1>11, <1>12, <1>13 DEF Right
<1>15. DOMAIN Sizes \subseteq DOMAIN u.elements
  BY <1>2, <1>5
<1> QED BY <1>1, <1>4, <1>5, <1>6, <1>14, <1>15, NextRoundAccepts

\* What the rounds after the fourth leave of the store.
LEMMA LateContent ==
    ASSUME NEW r \in {5, 6}, NEW t, NEW s, NEW q, NEW ps, NEW k,
           FormsMatch(s, q, r, {}), ContentRight(s, t, ps, r, k),
           NEW u, NEW z, Challenge(u, "eta") = Challenge(t, "eta"), Challenge(u, "beta") = Challenge(t, "beta"),
           Challenge(u, "alpha") = Challenge(t, "alpha"), u.elements["public_inputs"] = t.elements["public_inputs"]
    PROVE  FormsMatch(s, z, r + 1, DOMAIN z) /\ ContentRight(s, u, ps, r + 1, k)
<1>1. FormsMatch(s, z, r + 1, DOMAIN z)
  BY DEF FormsMatch
<1>2. ContentRight(s, u, ps, r, k)
  <2>1. SameProof(t, s, u, s, r)
    BY DEF SameProof
  <2> QED BY <2>1, ContentStays
<1>3. RecordsRight(s, u, r) => RecordsRight(s, u, r + 1)
  BY DEF RecordsRight
<1>4. ContentRight(s, u, ps, r + 1, k)
  BY <1>2, <1>3 DEF ContentRight
<1> QED BY <1>1, <1>4

\* What the fifth round adds.
LEMMA EvaluationsBelong ==
    ASSUME NEW u, NEW v, NEW ps, NEW z, z = Challenge(u, "z"),
           NEW f, f = Over([t |-> Evaluation(Combined(ps), z, FALSE)], Evaluations(Forms(v), z)),
           NEW x \in DOMAIN f
    PROVE  Belongs(x, f[x], u, v, ps, 6)
<1>1. PICK a : a = [p \in Polys |-> Evaluation(Forms(v)[p], z, FALSE)]
  OBVIOUS
<1>2. PICK b : b = [o \in {Omega[p] : p \in Polys} |-> Evaluation(Forms(v)[CHOOSE p \in Polys : Omega[p] = o], z, TRUE)]
  OBVIOUS
<1>3. PICK c : c = Over(a, b)
  OBVIOUS
<1>4. PICK y : y = Evaluation(Combined(ps), z, FALSE)
  OBVIOUS
<1>5. PICK d : d = [t |-> y]
  OBVIOUS
<1>6. f = Over(d, c)
  BY <1>1, <1>2, <1>3, <1>4, <1>5, Zenon DEF Evaluations
<1>7. DOMAIN a = Polys /\ DOMAIN b = {Omega[p] : p \in Polys} /\ DOMAIN d = {"t"} /\ d["t"] = y
  BY <1>1, <1>2, <1>5
<1>8. \A p \in Polys : a[p] = Evaluation(v[InMonomial(p)], z, FALSE)
  <2>1. \A p \in Polys : Forms(v)[p] = v[InMonomial(p)]
    BY DEF Forms
  <2> QED BY <1>1, <2>1
<1>9. ASSUME NEW p \in Polys PROVE b[Omega[p]] = Evaluation(v[InMonomial(p)], z, TRUE)
  <2>1. PICK r : r = CHOOSE o \in Polys : Omega[o] = Omega[p]
    OBVIOUS
  <2>2. r \in Polys /\ Omega[r] = Omega[p]
    BY <2>1
  <2>3. r = p
    BY <2>2, NamesApart
  <2>4. b[Omega[p]] = Evaluation(Forms(v)[r], z, TRUE)
    BY <1>2, <2>1
  <2>5. Forms(v)[p] = v[InMonomial(p)]
    BY DEF Forms
  <2> QED BY <2>3, <2>4, <2>5
<1>10. DOMAIN c = DOMAIN a \cup DOMAIN b /\ DOMAIN f = DOMAIN d \cup DOMAIN c
  BY <1>3, <1>6 DEF Over
<1>11. \A o \in DOMAIN c : c[o] = IF o \in DOMAIN a THEN a[o] ELSE b[o]
  BY <1>3 DEF Over
<1>12. \A o \in DOMAIN f : f[o] = IF o \in DOMAIN d THEN d[o] ELSE c[o]
  BY <1>6 DEF Over
<1>13. /\ \A i \in 1 .. 4 : QuotientLabel[i] \notin {"t"} \cup Polys \cup {Omega[p] : p \in Polys}
       /\ "t" \notin Polys /\ "t" \notin {Omega[p] : p \in Polys}
       /\ \A p \in Polys : Omega[p] \notin Polys
       /\ \A o \in {"t"} \cup Polys \cup {Omega[p] : p \in Polys} : o \notin DOMAIN Sizes /\ o # "PI_Z" /\ o # "PI_Z_OMEGA"
  BY NamesApart, PolysAre
<1>14. 6 >= 6
  OBVIOUS
<1>15. CASE x = "t"
  <2>1. f[x] = y
    BY <1>7, <1>12, <1>15
  <2>2. /\ x \notin DOMAIN Sizes /\ x # "PI_Z" /\ x # "PI_Z_OMEGA" /\ x \notin Polys
        /\ \A i \in 1 .. 4 : x # QuotientLabel[i]
        /\ \A p \in Polys : x # Omega[p]
    BY <1>13, <1>15
  <2>3. f[x] = Evaluation(Combined(ps), Challenge(u, "z"), FALSE)
    BY <1>4, <2>1, Zenon
  <2> QED BY <1>14, <2>2, <2>3, Zenon DEF Belongs
<1>16. CASE x \in Polys
  <2>1. f[x] = a[x]
    BY <1>7, <1>10, <1>11, <1>12, <1>13, <1>16
  <2>2. /\ x \notin DOMAIN Sizes /\ x # "t" /\ x # "PI_Z" /\ x # "PI_Z_OMEGA"
        /\ \A i \in 1 .. 4 : x # QuotientLabel[i]
        /\ \A p \in Polys : x # Omega[p]
    BY <1>13, <1>16
  <2>3. f[x] = Evaluation(v[InMonomial(x)], Challenge(u, "z"), FALSE)
    BY <1>8, <1>16, <2>1, Zenon
  <2> QED BY <1>14, <2>2, <2>3, Zenon DEF Belongs
<1>17. CASE x \in {Omega[p] : p \in Polys}
  <2>1. PICK p \in Polys : x = Omega[p]
    BY <1>17
  <2>2. f[x] = b[x]
    BY <1>7, <1>10, <1>11, <1>12, <1>13, <1>17, <2>1
  <2>3. f[x] = Evaluation(v[InMonomial(p)], Challenge(u, "z"), TRUE)
    BY <1>9, <2>1, <2>2, Zenon
  <2>4. /\ x \notin DOMAIN Sizes /\ x # "t" /\ x # "PI_Z" /\ x # "PI_Z_OMEGA" /\ x \notin Polys
        /\ \A i \in 1 .. 4 : x # QuotientLabel[i]
        /\ \A r \in Polys : x = Omega[r] => r = p
    BY <1>13, <2>1, NamesApart
  <2>5. \A r \in Polys : x = Omega[r] => 6 >= 6 /\ f[x] = Evaluation(v[InMonomial(r)], Challenge(u, "z"), TRUE)
    BY <1>14, <2>3, <2>4, Zenon
  <2> QED BY <2>4, <2>5, Zenon DEF Belongs
<1> QED BY <1>7, <1>10, <1>15, <1>16, <1>17

LEMMA FifthAccepts == ASSUME ProverInv, AcceptInv, FifthRound PROVE AcceptInv'
<1>1. Enter(5) /\ proofs' = proofs /\ store' = store /\ parts' = parts
  BY DEF FifthRound, keyVars
<1>2. /\ IsTranscript(transcript) /\ Chained(transcript) /\ transcript.current_round = 4
      /\ ElementsBelong(transcript, store, parts, 5)
      /\ FormsMatch(store, queue, 5, {})
      /\ ContentRight(store, transcript, parts, 5, ThisProof)
      /\ DOMAIN Sizes \subseteq DOMAIN transcript.elements
  BY <1>1, RoundStart
<1>3. PICK t : t = apply_fiat_shamir(transcript)
  OBVIOUS
<1>4. PICK z : z = Challenge(t, "z")
  OBVIOUS
<1>5. PICK v, ps, q : v = store /\ ps = parts /\ q = queue'
  OBVIOUS
<1>6. PICK f : f = Over([t |-> Evaluation(Combined(ps), z, FALSE)], Evaluations(Forms(v), z))
  OBVIOUS
<1>7. PICK u : u = AddElements(t, f)
  OBVIOUS
<1>8. u = transcript' /\ q = << >>
  <2>1. [p \in Polys |-> Monomial(p)] = Forms(v)
    BY <1>5 DEF Forms, Monomial, InMonomial
  <2> QED BY <1>3, <1>4, <1>5, <1>6, <1>7, <2>1 DEF FifthRound
<1>9. /\ IsTranscript(t) /\ Chained(t) /\ t.elements = transcript.elements /\ t.current_round = 5
      /\ Challenge(t, "eta") = Challenge(transcript, "eta") /\ Challenge(t, "beta") = Challenge(transcript, "beta")
      /\ Challenge(t, "alpha") = Challenge(transcript, "alpha")
  <2>1. ReadyFor(transcript, "z")
    BY DEF FifthRound
  <2>2. /\ IsTranscript(t) /\ Chained(t) /\ t.elements = transcript.elements
        /\ \A i \in 0 .. 4 - 1 : Challenge(t, ChallengeName(i)) = Challenge(transcript, ChallengeName(i))
    BY <1>2, <1>3, <2>1, HashKeeps
  <2>3. 1 \in 0 .. 4 - 1 /\ 2 \in 0 .. 4 - 1 /\ 3 \in 0 .. 4 - 1
    OBVIOUS
  <2>4. t.current_round = 5
    BY <1>2, <1>3, HashAt
  <2> QED BY <2>2, <2>3, <2>4, ChallengesAre
<1>10. PICK e, c, d : t = [elements |-> e, current_round |-> 5, current_challenge |-> c, challenges |-> d]
  BY <1>9 DEF IsTranscript
<1>11. u = [elements |-> Over(e, f), current_round |-> 5, current_challenge |-> c, challenges |-> d]
  BY <1>7, <1>10 DEF AddElements
<1>12. PICK g : g = Over(e, f)
  OBVIOUS
<1>13. /\ u.current_round = 5 /\ u.current_challenge = c /\ u.challenges = d /\ u.elements = g
       /\ t.elements = e /\ t.challenges = d /\ t.current_challenge = c
  BY <1>10, <1>11, <1>12
<1>14. /\ \A x \in DOMAIN e : x \in DOMAIN g /\ g[x] = e[x]
       /\ \A x \in DOMAIN g \ DOMAIN e : x \in DOMAIN f /\ g[x] = f[x]
  BY <1>12 DEF Over
<1>15. Chained(u)
  BY <1>9, <1>13, <1>14, ChainStays
<1>16. \A name : Challenge(u, name) = Challenge(t, name)
  BY <1>13 DEF Challenge
<1>17. ASSUME NEW x \in DOMAIN f PROVE Belongs(x, f[x], u, v, ps, 5 + 1)
  <2>1. z = Challenge(u, "z")
    BY <1>4, <1>16
  <2>2. Belongs(x, f[x], u, v, ps, 6)
    BY <1>6, <2>1, EvaluationsBelong, Zenon
  <2>3. 5 + 1 = 6
    OBVIOUS
  <2> QED BY <2>2, <2>3, Zenon
<1>18. ElementsBelong(u, v, ps, 5 + 1)
  <2>1. BelongIn(transcript, u, v, ps, 5 + 1)
    BY <1>2, <1>5, ElementsStay
  <2> SUFFICES ASSUME NEW x \in DOMAIN g PROVE Belongs(x, g[x], u, v, ps, 5 + 1)
    BY <1>13 DEF ElementsBelong
  <2>2. CASE x \in DOMAIN e
    BY <1>9, <1>13, <1>14, <2>1, <2>2 DEF BelongIn
  <2>3. CASE x \notin DOMAIN e
    BY <1>14, <1>17, <2>3
  <2> QED BY <2>2, <2>3
<1>19. QueueBelongs(q, u, v, ps, 5 + 1)
  BY <1>8 DEF QueueBelongs
<1>20. u.elements["public_inputs"] = transcript.elements["public_inputs"]
  <2>1. "public_inputs" \in DOMAIN transcript.elements
    BY <1>1, PublicInputsAreIn DEF Enter
  <2> QED BY <1>9, <1>13, <1>14, <2>1
<1>21. FormsMatch(v, q, 5 + 1, DOMAIN q) /\ ContentRight(v, u, ps, 5 + 1, ThisProof)
  BY <1>2, <1>5, <1>9, <1>16, <1>20, LateContent
<1>22. Right(u, v, q, ps, 5 + 1, DOMAIN q, ThisProof)
  BY <1>18, <1>19, <1>21 DEF Right
<1>23. DOMAIN Sizes \subseteq DOMAIN u.elements
  BY <1>2, <1>9, <1>13, <1>14
<1> QED BY <1>1, <1>5, <1>8, <1>15, <1>22, <1>23, NextRoundAccepts

LEMMA SixthAccepts == ASSUME ProverInv, AcceptInv, SixthRound PROVE AcceptInv'
<1>1. Enter(6) /\ proofs' = proofs /\ store' = store /\ parts' = parts
  BY DEF SixthRound, keyVars
<1>2. /\ IsTranscript(transcript) /\ Chained(transcript) /\ transcript.current_round = 5
      /\ ElementsBelong(transcript, store, parts, 6)
      /\ FormsMatch(store, queue, 6, {})
      /\ ContentRight(store, transcript, parts, 6, ThisProof)
      /\ DOMAIN Sizes \subseteq DOMAIN transcript.elements
  BY <1>1, RoundStart
<1>3. PICK u : u = apply_fiat_shamir(transcript)
  OBVIOUS
<1>4. u = transcript'
  BY <1>3 DEF SixthRound
<1>5. /\ Chained(u) /\ u.elements = transcript.elements
      /\ Challenge(u, "eta") = Challenge(transcript, "eta") /\ Challenge(u, "beta") = Challenge(transcript, "beta")
      /\ Challenge(u, "alpha") = Challenge(transcript, "alpha") /\ Challenge(u, "z") = Challenge(transcript, "z")
  <2>1. ReadyFor(transcript, "nu")
    BY DEF SixthRound
  <2>2. /\ Chained(u) /\ u.elements = transcript.elements
        /\ \A i \in 0 .. 5 - 1 : Challenge(u, ChallengeName(i)) = Challenge(transcript, ChallengeName(i))
    BY <1>2, <1>3, <2>1, HashKeeps
  <2>3. 1 \in 0 .. 5 - 1 /\ 2 \in 0 .. 5 - 1 /\ 3 \in 0 .. 5 - 1 /\ 4 \in 0 .. 5 - 1
    OBVIOUS
  <2> QED BY <2>2, <2>3, ChallengesAre
<1>6. PICK v, q, ps : v = store /\ q = queue' /\ ps = parts
  OBVIOUS
<1>7. PICK a, b : a = Opening(Over([t |-> Combined(ps)], Forms(v)), u) /\ b = Opening(Forms(v), u)
  OBVIOUS
<1>8. q = <<Commit(a, "PI_Z"), Commit(b, "PI_Z_OMEGA")>>
  <2>1. [p \in Polys |-> Monomial(p)] = Forms(v)
    BY <1>6 DEF Forms, Monomial, InMonomial
  <2> QED BY <1>4, <1>6, <1>7, <2>1 DEF SixthRound
<1>9. ElementsBelong(u, v, ps, 6 + 1)
  <2>1. BelongIn(transcript, u, v, ps, 6 + 1)
    BY <1>2, <1>5, <1>6, ElementsStay
  <2> QED BY <1>5, <2>1 DEF BelongIn, ElementsBelong
<1>10. QueueBelongs(q, u, v, ps, 6 + 1)
  <2>1. DOMAIN q = 1 .. 2 /\ q[1] = Commit(a, "PI_Z") /\ q[2] = Commit(b, "PI_Z_OMEGA")
    BY <1>8
  <2>2. \A x \in {"PI_Z", "PI_Z_OMEGA"} :
           /\ x \notin DOMAIN Sizes /\ x \notin Polys /\ x # "t"
           /\ \A i \in 1 .. 4 : x # QuotientLabel[i]
           /\ \A p \in Polys : x # Omega[p]
    BY NamesApart, PolysAre
  <2>3. Belongs("PI_Z", a, u, v, ps, 7)
    <3>1. "PI_Z" # "PI_Z_OMEGA" /\ 7 >= 7
      OBVIOUS
    <3> QED BY <1>7, <2>2, <3>1, Zenon DEF Belongs
  <2>4. Belongs("PI_Z_OMEGA", b, u, v, ps, 7)
    <3>1. "PI_Z_OMEGA" # "PI_Z" /\ 7 >= 7
      OBVIOUS
    <3> QED BY <1>7, <2>2, <3>1, Zenon DEF Belongs
  <2>5. ASSUME NEW n \in DOMAIN q PROVE Belongs(q[n].tag, q[n].scalars, u, v, ps, 7)
    <3>1. CASE n = 1
      BY <2>1, <2>3, <3>1 DEF Commit
    <3>2. CASE n = 2
      BY <2>1, <2>4, <3>2 DEF Commit
    <3> QED BY <2>1, <3>1, <3>2
  <2>6. 6 + 1 = 7
    OBVIOUS
  <2> QED BY <2>5, <2>6 DEF QueueBelongs
<1>11. FormsMatch(v, q, 6 + 1, DOMAIN q) /\ ContentRight(v, u, ps, 6 + 1, ThisProof)
  BY <1>2, <1>5, <1>6, LateContent
<1>12. Right(u, v, q, ps, 6 + 1, DOMAIN q, ThisProof)
  BY <1>9, <1>10, <1>11 DEF Right
<1>13. DOMAIN Sizes \subseteq DOMAIN u.elements
  BY <1>2, <1>5
<1> QED BY <1>1, <1>4, <1>5, <1>6, <1>12, <1>13, NextRoundAccepts

-----------------------------------------------------------------------------
(***************************************************************************)
(* The proof that is exported: its pairing holds.                          *)
(***************************************************************************)
LEMMA PartsAre ==
    ASSUME ThisProof \in Nat, NEW q, NEW ps, ps = QuotientParts(q)
    PROVE  /\ ps = [i \in 0 .. 3 |-> ps[i]]
           /\ \A i \in 0 .. 3 : ps[i].part = i /\ ps[i].quotient = q
           /\ Combined(ps) = [quotient |-> q, extra |-> [i \in 0 .. 2 |-> 0]]
<1>1. PICK b : b = [i \in 0 .. 3 |-> Blinding(i)]
  OBVIOUS
<1>2. \A i \in 0 .. 2 : b[i] \in Int /\ b[i] = Blinding(i)
  BY <1>1 DEF Blinding
<1>3. ps = [i \in 0 .. 3 |-> Part(q, i, IF i > 0 THEN -Blinding(i - 1) ELSE 0, IF i < 3 THEN Blinding(i) ELSE 0)]
  BY DEF QuotientParts
<1>4. ps = [i \in 0 .. 3 |-> ps[i]]
  BY <1>3
<1>5. \A i \in 0 .. 3 : ps[i].part = i /\ ps[i].quotient = q
  BY <1>3 DEF Part
<1>6. \A i \in 0 .. 2 : ps[i].high = b[i]
  BY <1>2, <1>3 DEF Part
<1>7. ASSUME NEW i \in 0 .. 2 PROVE ps[i + 1].low = -b[i]
  <2>1. i + 1 \in 0 .. 3 /\ i + 1 > 0 /\ (i + 1) - 1 = i
    OBVIOUS
  <2>2. ps[i + 1].low = -Blinding((i + 1) - 1)
    BY <1>3, <2>1 DEF Part
  <2> QED BY <1>2, <2>1, <2>2
<1>8. \A i \in 0 .. 2 : ps[i].high + ps[i + 1].low = 0
  BY <1>2, <1>6, <1>7
<1>9. [i \in 0 .. 2 |-> ps[i].high + ps[i + 1].low] = [i \in 0 .. 2 |-> 0]
  BY <1>8
<1>10. ps[0].quotient = q
  BY <1>5
<1> QED BY <1>4, <1>5, <1>9, <1>10 DEF Combined

\* The commitments of a complete transcript are to the polynomials stored.
LEMMA CommittedForms ==
    ASSUME NEW t, Complete(t), NEW s, NEW r, Bound(t, s, r)
    PROVE  [p \in Polys |-> t.elements[Label[p]]] = Forms(s)
<1>1. ASSUME NEW p \in Polys PROVE t.elements[Label[p]] = s[InMonomial(p)]
  BY EveryLabelIsNamed DEF Complete, Bound
<1> QED BY <1>1 DEF Forms

\* The identities hold of what the rounds made.
LEMMA IdentitiesOfForms ==
    ASSUME NEW s, NEW t, Match(s, InMonomial("w_4"), InLagrange("w_4")),
           SortedListRight(s, t), ProductsRight(s, t), RecordsRight(s, t, 7)
    PROVE  IdentitiesHold(Forms(s), t)
<1>1. PICK f : f = Forms(s)
  OBVIOUS
<1>2. \A p \in Polys : f[p] = s[InMonomial(p)]
  BY <1>1 DEF Forms
<1>3. "w_4" \in Polys /\ "s" \in Polys /\ "z_perm" \in Polys /\ "z_lookup" \in Polys /\ \A i \in 1 .. 4 : Wires[i] \in Polys
  BY PolysAre DEF Wires
<1>4. PICK w : w = [i \in 1 .. 4 |-> f[Wires[i]]]
  OBVIOUS
<1>5. w = [i \in 1 .. 4 |-> s[InMonomial(Wires[i])]]
  BY <1>2, <1>3, <1>4
<1>6. f["w_4"].etas = IF memory THEN <<Challenge(t, "eta")>> ELSE << >>
  <2>1. f["w_4"] = s[InLagrange("w_4")]
    BY <1>2, <1>3 DEF Match
  <2> QED BY <2>1 DEF RecordsRight
<1>7. f["s"].sorted_by = Challenge(t, "eta")
  BY <1>2, <1>3 DEF SortedListRight
<1>8. /\ f["z_perm"].product = w
      /\ f["z_perm"].beta = Challenge(t, "beta")
      /\ f["z_lookup"].lookups = SubSeq(w, 1, 3)
      /\ f["z_lookup"].s = f["s"]
      /\ f["z_lookup"].eta = Challenge(t, "eta")
      /\ f["z_lookup"].beta = Challenge(t, "beta")
  BY <1>2, <1>3, <1>5 DEF ProductsRight
<1> QED BY <1>1, <1>4, <1>6, <1>7, <1>8 DEF IdentitiesHold

\* What a complete transcript has at the end of the rounds.
AtTheEnd(t, e, f, ps, z) ==
    /\ \A i \in 0 .. 3 : e[QuotientLabel[i + 1]] = ps[i]
    /\ e["t"] = Evaluation(Combined(ps), z, FALSE)
    /\ \A p \in Polys : e[p] = Evaluation(f[p], z, FALSE) /\ e[Omega[p]] = Evaluation(f[p], z, TRUE)
    /\ e["PI_Z"] = Opening(Over([t |-> Combined(ps)], f), t)
    /\ e["PI_Z_OMEGA"] = Opening(f, t)

LEMMA ElementsAtTheEnd ==
    ASSUME NEW t, Complete(t), NEW s, NEW ps, ElementsBelong(t, s, ps, 7), NEW e, e = t.elements, NEW f, f = Forms(s), NEW z, z = Challenge(t, "z")
    PROVE  AtTheEnd(t, e, f, ps, z)
<1>1. \A x \in DOMAIN e : Belongs(x, e[x], t, s, ps, 7)
  BY DEF ElementsBelong
<1>2. \A r \in 0 .. 6 : Names(r) \subseteq DOMAIN e
  BY SevenRounds DEF Complete
<1>3. ASSUME NEW i \in 0 .. 3 PROVE e[QuotientLabel[i + 1]] = ps[i]
  <2>1. PICK j : j = i + 1
    OBVIOUS
  <2>2. j \in 1 .. 4 /\ j - 1 = i /\ 4 \in 0 .. 6
    BY <2>1
  <2>3. PICK x : x = QuotientLabel[j]
    OBVIOUS
  <2>4. x \in DOMAIN e
    BY <1>2, <2>2, <2>3, NamesApart, NamesAre
  <2>5. Belongs(x, e[x], t, s, ps, 7)
    BY <1>1, <2>4
  <2>6. e[x] = ps[j - 1]
    BY <2>2, <2>3, <2>5, Zenon DEF Belongs
  <2> QED BY <2>1, <2>2, <2>3, <2>6
<1>4. "t" \in DOMAIN e /\ \A p \in Polys : p \in DOMAIN e /\ Omega[p] \in DOMAIN e
  <2>1. 5 \in 0 .. 6
    OBVIOUS
  <2> QED BY <1>2, <2>1, OpeningNamesOfRound
<1>5. "PI_Z" \in DOMAIN e /\ "PI_Z_OMEGA" \in DOMAIN e
  <2>1. 6 \in 0 .. 6
    OBVIOUS
  <2> QED BY <1>2, <2>1, NamesAre
<1>6. e["t"] = Evaluation(Combined(ps), z, FALSE)
  <2>1. Belongs("t", e["t"], t, s, ps, 7)
    BY <1>1, <1>4
  <2> QED BY <2>1, Zenon DEF Belongs
<1>7. \A p \in Polys : s[InMonomial(p)] = f[p]
  BY DEF Forms
<1>8. ASSUME NEW p \in Polys PROVE e[p] = Evaluation(f[p], z, FALSE)
  <2>1. Belongs(p, e[p], t, s, ps, 7)
    BY <1>1, <1>4
  <2>2. e[p] = Evaluation(s[InMonomial(p)], Challenge(t, "z"), FALSE)
    BY <2>1, Zenon DEF Belongs
  <2> QED BY <1>7, <2>2, Zenon
<1>9. ASSUME NEW p \in Polys PROVE e[Omega[p]] = Evaluation(f[p], z, TRUE)
  <2>1. Belongs(Omega[p], e[Omega[p]], t, s, ps, 7)
    BY <1>1, <1>4
  <2>2. e[Omega[p]] = Evaluation(s[InMonomial(p)], Challenge(t, "z"), TRUE)
    BY <2>1, Zenon DEF Belongs
  <2> QED BY <1>7, <2>2, Zenon
<1>10. e["PI_Z"] = Opening(Over([t |-> Combined(ps)], f), t)
  <2>1. Belongs("PI_Z", e["PI_Z"], t, s, ps, 7)
    BY <1>1, <1>5
  <2> QED BY <2>1, Zenon DEF Belongs
<1>11. e["PI_Z_OMEGA"] = Opening(f, t)
  <2>1. Belongs("PI_Z_OMEGA", e["PI_Z_OMEGA"], t, s, ps, 7)
    BY <1>1, <1>5
  <2> QED BY <2>1, Zenon DEF Belongs
<1> QED BY <1>3, <1>6, <1>8, <1>9, <1>10, <1>11, Zenon DEF AtTheEnd

LEMMA PairingComesTrue ==
    ASSUME NEW t, Complete(t), NEW s, Bound(t, s, 7), ThisProof \in Nat,
           NEW ps, ElementsBelong(t, s, ps, 7),
           Match(s, InMonomial("w_4"), InLagrange("w_4")), ContentRight(s, t, ps, 7, 1)
    PROVE  PairingHolds(t) /\ t.elements["t"] = DerivedQuotient(t)
<1>1. /\ SortedListRight(s, t) /\ ProductsRight(s, t) /\ RecordsRight(s, t, 7)
      /\ ps = QuotientParts(Quotient(Forms(s), t))
  BY DEF ContentRight
<1>2. PICK e, f, z : e = t.elements /\ f = Forms(s) /\ z = Challenge(t, "z")
  OBVIOUS
<1>3. PICK q : q = Quotient(f, t)
  OBVIOUS
<1>4. /\ ps = [i \in 0 .. 3 |-> ps[i]]
      /\ \A i \in 0 .. 3 : ps[i].part = i /\ ps[i].quotient = q
      /\ Combined(ps) = [quotient |-> q, extra |-> [i \in 0 .. 2 |-> 0]]
  BY <1>1, <1>2, <1>3, PartsAre
<1>5. AtTheEnd(t, e, f, ps, z)
  BY <1>2, ElementsAtTheEnd
<1>6. [p \in Polys |-> e[Label[p]]] = f
  BY <1>2, CommittedForms
<1>7. [i \in 0 .. 3 |-> e[QuotientLabel[i + 1]]] = ps
  BY <1>4, <1>5 DEF AtTheEnd
<1>8. IdentitiesHold(f, t)
  BY <1>1, <1>2, IdentitiesOfForms
<1>9. \A i \in 0 .. 3 : ps[i].part = i /\ ps[i].quotient = ps[0].quotient
  BY <1>4
<1>10. PairingOf(t, e, f, ps)
  BY <1>2, <1>5, <1>8, <1>9, Zenon DEF PairingOf, AtTheEnd
<1>11. PairingHolds(t)
  BY <1>2, <1>6, <1>7, <1>10, PairingIs
<1>12. [p \in Polys |-> e[p].poly] = f
  <2>1. \A p \in Polys : e[p].poly = f[p]
    <3> SUFFICES ASSUME NEW p \in Polys PROVE e[p].poly = f[p]
      OBVIOUS
    <3>1. PICK a, c : a = f[p] /\ c = FALSE
      OBVIOUS
    <3>2. e[p] = Evaluation(a, z, c)
      BY <1>5, <3>1, Zenon DEF AtTheEnd
    <3> QED BY <3>1, <3>2 DEF Evaluation
  <2>2. f = [p \in Polys |-> f[p]]
    BY <1>2 DEF Forms
  <2> QED BY <2>1, <2>2
<1>13. e["t"] = DerivedQuotient(t)
  BY <1>2, <1>3, <1>4, <1>5, <1>12, Zenon DEF DerivedQuotient, AtTheEnd
<1> QED BY <1>2, <1>11, <1>13

\* Between two proofs there is little to get right.
LEMMA RestAccepts ==
    ASSUME memory' = memory, queue' = << >>, NEW r \in {0, 8}, r = round',
           NEW u, u = transcript', NEW v, v = store', NEW ps, ps = parts', NEW k, k = ThisProof',
           Chained(u), ElementsBelong(u, v, ps, r),
           (k = 1 /\ r \in 0 .. 7) \/ ~memory => RecordsRight(v, u, r),
           r = 8 => Len(proofs') # 0, ProofAccepted'
    PROVE  AcceptInv'
<1>1. PICK todo, q : todo = Unhandled' /\ q = << >>
  OBVIOUS
<1>2. QueueBelongs(q, u, v, ps, r) /\ FormsMatch(v, q, r, todo)
  <2>1. DOMAIN q = {}
    BY <1>1
  <2> QED BY <2>1 DEF QueueBelongs, FormsMatch
<1>3. RecordsRight(v, u, r)' = RecordsRight(v, u, r)
  BY DEF RecordsRight
<1>4. ContentRight(v, u, ps, r, k)'
  BY <1>3 DEF ContentRight
<1>5. Right(u, v, q, ps, r, todo, k)'
  BY <1>2, <1>4 DEF Right
<1>6. Right(transcript, store, queue, parts, round, Unhandled, ThisProof)'
  BY <1>1, <1>5
<1> QED BY <1>6 DEF AcceptInv

LEMMA ExportAccepts == ASSUME ProverInv, AcceptInv, ExportProof PROVE AcceptInv'
<1>1. /\ Enter(7) /\ Complete(transcript)
      /\ transcript' = transcript /\ store' = store /\ parts' = parts /\ queue' = << >>
  BY DEF ExportProof, keyVars
<1>2. /\ Chained(transcript) /\ transcript.current_round = 6
      /\ ElementsBelong(transcript, store, parts, 7)
      /\ FormsMatch(store, queue, 7, {})
      /\ ContentRight(store, transcript, parts, 7, ThisProof)
      /\ DOMAIN Sizes \subseteq DOMAIN transcript.elements
      /\ memory' = memory
  BY <1>1, RoundStart
<1>3. round' = 7 + 1 /\ Bound(transcript, store, 7)
  BY <1>1, EveryResultIsIn DEF Enter, Sound
<1>4. PICK n \in Nat : n = Len(proofs)
  BY DEF ProverInv, TypeOK
<1>5. ThisProof = n + 1
  BY <1>4 DEF ThisProof
<1>6. ASSUME n = 0 \/ ~memory PROVE Accepts(export_transcript(transcript))
  <2>1. ContentRight(store, transcript, parts, 7, 1)
    BY <1>2, <1>4, <1>5, <1>6 DEF ContentRight
  <2>2. Match(store, InMonomial("w_4"), InLagrange("w_4"))
    BY <1>2 DEF FormsMatch
  <2>3. PairingHolds(transcript) /\ transcript.elements["t"] = DerivedQuotient(transcript)
    BY <1>1, <1>2, <1>3, <1>5, <2>1, <2>2, PairingComesTrue
  <2>4. \A x \in DOMAIN Sizes : transcript.elements[x] = Sizes[x]
    BY <1>2, Zenon DEF ElementsBelong, Belongs
  <2> QED BY <1>2, <2>3, <2>4, ExportIsAccepted
<1>7. PICK proof : proof = export_transcript(transcript)
  OBVIOUS
<1>8. PICK S : proofs \in Seq(S)
  BY DEF ProverInv, ProofsBlinded
<1>9. proofs' = Append(proofs, proof)
  BY <1>7 DEF ExportProof
<1>10. /\ Len(proofs') = n + 1 /\ DOMAIN proofs' = 1 .. n + 1
       /\ \A k \in 1 .. n : k \in DOMAIN proofs /\ proofs'[k] = proofs[k]
       /\ proofs'[n + 1] = proof
  BY <1>4, <1>8, <1>9
<1>11. PICK all : all = proofs'
  OBVIOUS
<1>12. ProofAccepted'
  <2>1. ASSUME NEW k \in DOMAIN all, k = 1 \/ ~memory PROVE Accepts(all[k])
    <3>1. CASE k = n + 1
      BY <1>6, <1>7, <1>10, <1>11, <2>1, <3>1
    <3>2. CASE k # n + 1
      <4>1. k \in DOMAIN proofs /\ all[k] = proofs[k]
        BY <1>10, <1>11, <3>2
      <4> QED BY <2>1, <4>1 DEF AcceptInv, ProofAccepted
    <3> QED BY <3>1, <3>2
  <2>2. AllAccepted(all)
    BY <2>1 DEF AllAccepted
  <2>3. AllAccepted(all)'
    BY <1>2, <2>2, AllAcceptedStays
  <2>4. AllAccepted(proofs)'
    BY <1>11, <2>3
  <2> QED BY <2>4 DEF AllAccepted, ProofAccepted
<1>13. PICK t, s, ps, k : t = transcript /\ s = store /\ ps = parts /\ k = ThisProof'
  OBVIOUS
<1>14. Chained(t) /\ ElementsBelong(t, s, ps, 8)
  <2>1. \A x \in DOMAIN t.elements : Belongs(x, t.elements[x], t, s, ps, 7)
    BY <1>2, <1>13 DEF ElementsBelong
  <2>2. 7 \in Nat /\ 8 \in Nat /\ 8 >= 7
    OBVIOUS
  <2>3. ASSUME NEW x \in DOMAIN t.elements PROVE Belongs(x, t.elements[x], t, s, ps, 8)
    <3>1. PICK y : y = t.elements[x]
      OBVIOUS
    <3>2. Belongs(x, y, t, s, ps, 7)
      BY <2>1, <3>1
    <3>3. Belongs(x, y, t, s, ps, 8)
      BY <2>2, <3>2, BelongsStays
    <3> QED BY <3>1, <3>3
  <2> QED BY <1>2, <1>13, <2>3 DEF ElementsBelong
<1>15. ~memory => RecordsRight(s, t, 8)
  BY <1>2, <1>13 DEF ContentRight, RecordsRight
<1>16. 8 = round' /\ Len(proofs') # 0 /\ 8 \notin 0 .. 7
  BY <1>3, <1>10
<1> QED BY <1>1, <1>2, <1>12, <1>13, <1>14, <1>15, <1>16, RestAccepts

\* A transcript that is new.
LEMMA NothingYet ==
    ASSUME NEW s, NEW ps, NEW r
    PROVE  Chained(NewTranscript) /\ ElementsBelong(NewTranscript, s, ps, r)
<1>1. /\ NewTranscript.current_round = 0
      /\ NewTranscript.elements = Nothing /\ NewTranscript.challenges = Nothing
  BY DEF NewTranscript
<1>2. DOMAIN Nothing = {}
  BY DEF Nothing
<1>3. Chained(NewTranscript)
  BY <1>1, <1>2 DEF Chained
<1> QED BY <1>1, <1>2, <1>3 DEF ElementsBelong

LEMMA ResetAccepts == ASSUME ProverInv, AcceptInv, Reset PROVE AcceptInv'
<1>1. /\ round = 8 /\ round' = 0 /\ transcript' = NewTranscript /\ store' = store /\ parts' = parts
      /\ queue' = << >> /\ proofs' = proofs /\ memory' = memory
  BY DEF Reset, keyVars, ProverInv
<1>2. ThisProof' # 1
  BY <1>1 DEF ThisProof, AcceptInv, ProverInv, TypeOK
<1>3. PICK u, s, ps, k : u = NewTranscript /\ s = store /\ ps = parts /\ k = ThisProof'
  OBVIOUS
<1>4. Chained(u) /\ ElementsBelong(u, s, ps, 0)
  BY <1>3, NothingYet
<1>5. ~memory => RecordsRight(s, u, 0)
  <2>1. ContentRight(store, transcript, parts, 8, ThisProof)
    BY <1>1 DEF AcceptInv, Right
  <2> QED BY <1>3, <2>1 DEF ContentRight, RecordsRight
<1>6. ProofAccepted'
  BY <1>1, ProofsStayAccepted DEF AcceptInv
<1> QED BY <1>1, <1>2, <1>3, <1>4, <1>5, <1>6, RestAccepts

LEMMA InitAccepts == ASSUME Init PROVE AcceptInv
<1>1. /\ transcript = NewTranscript /\ queue = << >> /\ round = 0 /\ proofs = << >>
      /\ store = [key \in {"lagrange"} \X ToSet(Wires) |-> NewWire(key[2])]
  BY DEF Init
<1>2. Chained(transcript) /\ ElementsBelong(transcript, store, parts, 0)
  BY <1>1, NothingYet
<1>3. DOMAIN queue = {} /\ DOMAIN proofs = {}
  BY <1>1
<1>4. RecordsRight(store, transcript, 0)
  <2>1. <<"lagrange", "w_4">> \in {"lagrange"} \X ToSet(Wires)
    BY DEF ToSet, Wires
  <2>2. store[<<"lagrange", "w_4">>] = NewWire("w_4")
    BY <1>1, <2>1
  <2> QED BY <2>2 DEF RecordsRight, InLagrange, NewWire
<1>5. QueueBelongs(queue, transcript, store, parts, 0) /\ FormsMatch(store, queue, 0, Unhandled)
  BY <1>3 DEF QueueBelongs, FormsMatch
<1>6. ContentRight(store, transcript, parts, 0, ThisProof)
  BY <1>4 DEF ContentRight
<1>7. Right(transcript, store, queue, parts, 0, Unhandled, ThisProof)
  BY <1>2, <1>5, <1>6 DEF Right
<1> QED BY <1>1, <1>2, <1>3, <1>7 DEF AcceptInv, ProofAccepted

LEMMA NextAccepts == ASSUME ProverInv, AcceptInv, [Next]_vars PROVE AcceptInv'
<1>1. CASE Round
  BY <1>1, PreambleAccepts, FirstAccepts, SecondAccepts, ThirdAccepts, FourthAccepts, FifthAccepts, SixthAccepts,
     ExportAccepts DEF Round
<1>2. CASE Reset
  BY <1>2, ResetAccepts
<1>3. CASE ProcessQueue
  BY <1>3, ProcessQueueAccepts
<1>4. CASE Worker
  BY <1>4, FetchAccepts, PutBackAccepts DEF Worker
<1>5. CASE UNCHANGED vars
  <2>1. /\ transcript' = transcript /\ store' = store /\ parts' = parts /\ queue' = queue /\ handled' = handled
        /\ round' = round /\ proofs' = proofs /\ memory' = memory
    BY <1>5 DEF vars, keyVars, driverVars
  <2>2. PICK u, v, q, todo : u = transcript /\ v = store /\ q = queue /\ todo = Unhandled
    OBVIOUS
  <2>3. KeepsRight(u, v, transcript, q, parts, round, todo, ThisProof)
    BY <2>2 DEF KeepsRight, AcceptInv
  <2>4. todo = Unhandled'
    BY <2>1, <2>2 DEF Unhandled, Number
  <2> QED BY <2>1, <2>2, <2>3, <2>4, SameRoundAccepts
<1> QED BY <1>1, <1>2, <1>3, <1>4, <1>5 DEF Next

\* The verifier accepts every first proof of a prover, and every proof it makes
\* when the circuit has no memory records: whatever the order in which the
\* results of the workers came back, and whatever the key held before.
THEOREM ProofsAreAccepted == Spec => []ProofAccepted
<1>1. Init => ProverInv /\ AcceptInv
  BY InitIsSound, InitAccepts
<1>2. ProverInv /\ AcceptInv /\ [Next]_vars => (ProverInv /\ AcceptInv)'
  BY NextKeeps, NextAccepts
<1>3. AcceptInv => ProofAccepted
  BY DEF AcceptInv
<1> QED BY <1>1, <1>2, <1>3, PTL DEF Spec
=============================================================================
