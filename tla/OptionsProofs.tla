--------------------------- MODULE OptionsProofs ---------------------------
(***************************************************************************)
(* The options leave arrays the workers may be given, and own what they    *)
(* allocate: for any number of chains, any arguments and any failures.     *)
(***************************************************************************)
EXTENDS Options, ChainArrayProofs, FiniteSetTheorems, FunctionTheorems, SequenceTheorems

-----------------------------------------------------------------------------
(* The inductive invariant *)

\* What a slot of an array may hold.
SlotOf(v6) == [hosts : Seq([addr : Addrs(v6)]), network : Addrs(v6), prefix : 0 .. inet_size(v6),
               buf : Buffers \cup {NULL, Stray}]

\* The arrays and their lengths.
ArraysTyped ==
  /\ len \in [BOOLEAN -> 0 .. MaxChains]
  /\ slots = [v6 \in BOOLEAN |-> slots[v6]]
  /\ \A v6 \in BOOLEAN : slots[v6] \in Seq(SlotOf(v6))

\* A chain lies within its array, where there is one, with a slot behind it.
Fits ==
  \A v6 \in BOOLEAN : /\ slots[v6] # <<>> => len[v6] < Len(slots[v6])
                      /\ slots[v6] = <<>> => len[v6] = 0

\* The buffers of the chains and those on the heap are the same, each chain's its own.
Owned ==
  /\ heap \subseteq Buffers
  /\ \A v6 \in BOOLEAN : \A k \in 1 .. len[v6] : slots[v6][k].buf \in heap
  /\ \A v, w \in BOOLEAN : \A j \in 1 .. len[v], k \in 1 .. len[w] :
       slots[v][j].buf = slots[w][k].buf => v = w /\ j = k
  /\ \A b \in heap : \E v6 \in BOOLEAN : \E k \in 1 .. len[v6] : slots[v6][k].buf = b

\* The routes are routes.
Routed ==
  \A v6 \in BOOLEAN : \A k \in 1 .. len[v6] :
    slots[v6][k].prefix > 0 => Clear(slots[v6][k].network, slots[v6][k].prefix, inet_size(v6))

\* The rest of the state.
ControlTyped ==
  /\ pc \in {"parse", "fail", "end", "ready", "exit"}
  /\ last_chain_v6 \in BOOLEAN /\ if_name_set \in BOOLEAN
  /\ ret \in {"none", "success", "failure"}
  /\ nthread \in Int /\ (pc \in {"parse", "ready"} => nthread = -1 \/ nthread > 0)

\* An option that fails leaves an array without a chain, and ends the program.
Parsing == pc = "parse" => \A v6 \in BOOLEAN : len[v6] = 0 => slots[v6] = <<>>

IInv ==
  /\ ControlTyped
  /\ ArraysTyped /\ Fits /\ Routed /\ Parsing
  /\ IF pc = "exit" THEN heap = {} ELSE Owned
  /\ ReadyForWorkers

-----------------------------------------------------------------------------
(* Memory *)

\* What the lemmas need of the types.
LEMMA ArraysType ==
  ASSUME ArraysTyped, NEW v6, v6 \in BOOLEAN
  PROVE  /\ MaxChains \in Nat /\ len[v6] \in Nat /\ len[v6] <= MaxChains
         /\ slots[v6] \in Seq(SlotOf(v6)) /\ Len(slots[v6]) \in Nat
<1>1. MaxChains \in Nat
  BY NumbersAssumption
<1>2. len[v6] \in 0 .. MaxChains
  BY DEF ArraysTyped
<1>3. len[v6] \in Nat /\ len[v6] <= MaxChains
  BY <1>1, <1>2
<1>4. slots[v6] \in Seq(SlotOf(v6))
  BY DEF ArraysTyped
<1>5. QED
  BY <1>1, <1>3, <1>4

\* Addresses are numbers from 0.
LEMMA AddrsType ==
  ASSUME NEW v6, v6 \in BOOLEAN
  PROVE  Addrs(v6) \subseteq Nat /\ 0 \in Addrs(v6)
<1>1. 2 ^ inet_size(v6) \in Nat \ {0}
  BY SizeType, PowerPositive
<1>2. QED
  BY <1>1 DEF Addrs

\* A slot nothing has been written to, and the terminator.
LEMMA BlankSlots ==
  ASSUME NEW v6, v6 \in BOOLEAN
  PROVE  Slot(Stray) \in SlotOf(v6) /\ Slot(NULL) \in SlotOf(v6)
<1>1. 0 \in Addrs(v6) /\ 0 \in 0 .. inet_size(v6)
  BY AddrsType, SizeType
<1>2. <<>> \in Seq([addr : Addrs(v6)])
  OBVIOUS
<1>3. ASSUME NEW buf, buf \in Buffers \cup {NULL, Stray} PROVE Slot(buf) \in SlotOf(v6)
  BY <1>1, <1>2, <1>3 DEF Slot, SlotOf
<1>4. QED
  BY <1>3

\* irealloc keeps what there is room for.
LEMMA Reallocated ==
  ASSUME NEW S, NEW array, array \in Seq(S), Slot(Stray) \in S, NEW n, n \in Nat
  PROVE  /\ irealloc(array, n) \in Seq(S) /\ Len(irealloc(array, n)) = n
         /\ DOMAIN irealloc(array, n) = 1 .. n
         /\ \A k \in 1 .. n : k <= Len(array) => irealloc(array, n)[k] = array[k]
<1>1. Len(array) \in Nat
  OBVIOUS
<1>2. PICK grown : grown = irealloc(array, n)
  OBVIOUS
<1>3. grown = [k \in 1 .. n |-> IF k <= Len(array) THEN array[k] ELSE Slot(Stray)]
  BY <1>2 DEF irealloc
<1>4. ASSUME NEW k \in 1 .. n
      PROVE  (IF k <= Len(array) THEN array[k] ELSE Slot(Stray)) \in S
  <2>1. CASE k <= Len(array)
    <3>1. k \in 1 .. Len(array)
      BY <1>1, <2>1
    <3>2. array[k] \in S
      BY <3>1
    <3>3. QED
      BY <2>1, <3>2
  <2>2. CASE ~(k <= Len(array))
    BY <2>2
  <2>3. QED
    BY <2>1, <2>2
<1>5. grown \in [1 .. n -> S]
  BY <1>3, <1>4
<1>6. grown \in Seq(S) /\ Len(grown) = n
  BY <1>5
<1>7. QED
  BY <1>2, <1>3, <1>6

\* As many buffers are on the heap as there are chains.
LEMMA HeapCounts ==
  ASSUME ArraysTyped, Owned
  PROVE  IsFiniteSet(heap) /\ Cardinality(heap) = len[FALSE] + len[TRUE]
<1>1. PICK m : m = len[FALSE]
  OBVIOUS
<1>2. PICK n : n = len[TRUE]
  OBVIOUS
<1>3. m \in Nat /\ n \in Nat
  BY <1>1, <1>2, ArraysType
<1>4. PICK f : f = [i \in 1 .. m + n |-> IF i <= m THEN slots[FALSE][i].buf
                                         ELSE slots[TRUE][i - m].buf]
  OBVIOUS
<1>5. ASSUME NEW i, i \in 1 .. m + n
      PROVE  \/ i \in 1 .. m /\ f[i] = slots[FALSE][i].buf
             \/ ~(i <= m) /\ i - m \in 1 .. n /\ f[i] = slots[TRUE][i - m].buf
  <2>1. \/ i \in 1 .. m /\ i <= m
        \/ ~(i <= m) /\ i - m \in 1 .. n
    BY <1>3, <1>5
  <2>2. f[i] = IF i <= m THEN slots[FALSE][i].buf ELSE slots[TRUE][i - m].buf
    BY <1>4, <1>5
  <2>3. QED
    BY <2>1, <2>2
<1>6. f \in [1 .. m + n -> heap]
  <2>1. ASSUME NEW i, i \in 1 .. m + n PROVE f[i] \in heap
    BY <1>1, <1>2, <1>5, <2>1 DEF Owned
  <2>2. DOMAIN f = 1 .. m + n /\ f = [i \in 1 .. m + n |-> f[i]]
    BY <1>4
  <2>3. QED
    BY <2>1, <2>2
<1>7. ASSUME NEW i, i \in 1 .. m + n, NEW j, j \in 1 .. m + n, f[i] = f[j]
      PROVE  i = j
  <2>1. CASE i \in 1 .. m /\ f[i] = slots[FALSE][i].buf
    <3>1. CASE j \in 1 .. m /\ f[j] = slots[FALSE][j].buf
      BY <1>1, <1>7, <2>1, <3>1 DEF Owned
    <3>2. CASE ~(j <= m) /\ j - m \in 1 .. n /\ f[j] = slots[TRUE][j - m].buf
      BY <1>1, <1>2, <1>7, <2>1, <3>2 DEF Owned
    <3>3. QED
      BY <1>5, <1>7, <3>1, <3>2
  <2>2. CASE ~(i <= m) /\ i - m \in 1 .. n /\ f[i] = slots[TRUE][i - m].buf
    <3>1. CASE j \in 1 .. m /\ f[j] = slots[FALSE][j].buf
      BY <1>1, <1>2, <1>7, <2>2, <3>1 DEF Owned
    <3>2. CASE ~(j <= m) /\ j - m \in 1 .. n /\ f[j] = slots[TRUE][j - m].buf
      <4>1. PICK a : a = i - m
        OBVIOUS
      <4>2. PICK b : b = j - m
        OBVIOUS
      <4>3. a \in 1 .. len[TRUE] /\ b \in 1 .. len[TRUE]
            /\ slots[TRUE][a].buf = slots[TRUE][b].buf
        BY <1>2, <1>7, <2>2, <3>2, <4>1, <4>2
      <4>4. a = b
        BY <4>3 DEF Owned
      <4>5. QED
        BY <1>3, <1>7, <4>1, <4>2, <4>4
    <3>3. QED
      BY <1>5, <1>7, <3>1, <3>2
  <2>3. QED
    BY <1>5, <1>7, <2>1, <2>2
<1>8. ASSUME NEW b \in heap PROVE \E i \in 1 .. m + n : f[i] = b
  <2>1. PICK v6 \in BOOLEAN : \E k \in 1 .. len[v6] : slots[v6][k].buf = b
    BY DEF Owned
  <2>2. PICK k \in 1 .. len[v6] : slots[v6][k].buf = b
    BY <2>1
  <2>3. CASE v6 = FALSE
    <3>1. k \in 1 .. m /\ slots[FALSE][k].buf = b
      BY <1>1, <2>2, <2>3
    <3>2. k \in 1 .. m + n /\ k <= m
      BY <1>3, <3>1
    <3>3. f[k] = b
      BY <1>4, <3>1, <3>2
    <3>4. QED
      BY <3>2, <3>3
  <2>4. CASE v6 = TRUE
    <3>1. k \in 1 .. n /\ slots[TRUE][k].buf = b
      BY <1>2, <2>2, <2>4
    <3>2. k + m \in 1 .. m + n /\ ~(k + m <= m) /\ (k + m) - m = k
      BY <1>3, <3>1
    <3>3. f[k + m] = b
      BY <1>4, <3>1, <3>2
    <3>4. QED
      BY <3>2, <3>3
  <2>5. QED
    BY <2>3, <2>4
<1>9. f \in Bijection(1 .. m + n, heap)
  <2>1. \A a, b \in 1 .. m + n : f[a] = f[b] => a = b
    BY <1>7
  <2>2. \A t \in heap : \E s \in 1 .. m + n : f[s] = t
    BY <1>8
  <2>3. QED
    BY <1>6, <2>1, <2>2, Fun_IsBij
<1>10. ExistsBijection(1 .. m + n, heap)
  BY <1>9 DEF ExistsBijection
<1>11. Cardinality(heap) = m + n
  BY <1>3, <1>10, FS_CountingElements
<1>12. IsFiniteSet(heap)
  BY <1>3, <1>10, FS_NatBijection
<1>13. QED
  BY <1>1, <1>2, <1>11, <1>12

\* malloc returns buffers of its own.
LEMMA Allocated ==
  ASSUME ArraysTyped, Owned, NEW m, m \in Nat, len[FALSE] + len[TRUE] + m <= 2 * MaxChains
  PROVE  /\ malloc(m) \in [1 .. m -> Buffers \ heap]
         /\ \A j, k \in 1 .. m : malloc(m)[j] = malloc(m)[k] => j = k
<1>1. PICK free : free = Buffers \ heap
  OBVIOUS
<1>2. IsFiniteSet(Buffers) /\ Cardinality(Buffers) = 2 * MaxChains
  <2>1. 1 \in Int /\ 2 * MaxChains \in Int /\ MaxChains \in Nat
    BY NumbersAssumption
  <2>2. IsFiniteSet(Buffers) /\ Cardinality(Buffers) = IF 1 > 2 * MaxChains THEN 0
                                                       ELSE 2 * MaxChains - 1 + 1
    BY <2>1, FS_Interval DEF Buffers
  <2>3. QED
    BY <2>1, <2>2
<1>3. IsFiniteSet(heap) /\ Cardinality(heap) = len[FALSE] + len[TRUE]
  BY HeapCounts
<1>4. IsFiniteSet(free) /\ Cardinality(free) = 2 * MaxChains - Cardinality(heap)
  <2>1. Buffers \cap heap = heap
    BY DEF Owned
  <2>2. QED
    BY <1>1, <1>2, <2>1, FS_Difference
<1>5. PICK n : n = Cardinality(free)
  OBVIOUS
<1>6. n \in Nat /\ m <= n
  <2>1. len[FALSE] \in Nat /\ len[TRUE] \in Nat /\ MaxChains \in Nat
    BY ArraysType
  <2>2. n \in Nat
    BY <1>4, <1>5, FS_CardinalityType
  <2>3. PICK a : a = len[FALSE]
    OBVIOUS
  <2>4. PICK b : b = len[TRUE]
    OBVIOUS
  <2>5. a \in Nat /\ b \in Nat /\ n = 2 * MaxChains - (a + b) /\ a + b + m <= 2 * MaxChains
    BY <1>3, <1>4, <1>5, <2>1, <2>3, <2>4
  <2>6. QED
    BY <2>1, <2>2, <2>5
<1>7. PICK g : g \in Bijection(1 .. n, free)
  BY <1>4, <1>5, FS_CardinalityType DEF ExistsBijection
<1>8. g \in [1 .. n -> free] /\ \A a, b \in 1 .. n : g[a] = g[b] => a = b
  BY <1>7, Fun_BijectionProperties
<1>9. PICK s : s = [i \in 1 .. m |-> g[i]]
  OBVIOUS
<1>10. s \in [1 .. m -> free] /\ IsInjective(s)
  BY <1>6, <1>8, <1>9 DEF IsInjective
<1>11. malloc(m) \in [1 .. m -> free] /\ IsInjective(malloc(m))
  BY <1>1, <1>10 DEF malloc
<1>12. QED
  BY <1>1, <1>11 DEF IsInjective

-----------------------------------------------------------------------------
(* Growth *)

\* m chains in new buffers come behind those of an array, whose old ones stay.
Grows(v6, m, array, bufs) ==
  /\ m \in Nat /\ len[v6] + m <= MaxChains
  /\ bufs \in [1 .. m -> Buffers \ heap]
  /\ \A j, k \in 1 .. m : bufs[j] = bufs[k] => j = k
  /\ array \in Seq(SlotOf(v6)) /\ len[v6] + m < Len(array)
  /\ \A k \in 1 .. len[v6] : array[k] = slots[v6][k]
  /\ \A i \in 1 .. m :
       /\ array[len[v6] + i].buf = bufs[i]
       /\ array[len[v6] + i].prefix > 0
            => Clear(array[len[v6] + i].network, array[len[v6] + i].prefix, inet_size(v6))
  /\ slots' = [slots EXCEPT ![v6] = array]
  /\ len' = [len EXCEPT ![v6] = len[v6] + m]
  /\ heap' = heap \cup {bufs[i] : i \in 1 .. m}

\* Where the chains of an array come from that has grown.
LEMMA GrownSlots ==
  ASSUME ArraysTyped, NEW v6, v6 \in BOOLEAN, NEW m, NEW array, NEW bufs,
         Grows(v6, m, array, bufs)
  PROVE  /\ slots'[v6] = array /\ len'[v6] = len[v6] + m
         /\ \A w \in BOOLEAN : w # v6 => slots'[w] = slots[w] /\ len'[w] = len[w]
         /\ slots' = [w \in BOOLEAN |-> slots'[w]]
         /\ \A k \in 1 .. len'[v6] :
              \/ k \in 1 .. len[v6] /\ slots'[v6][k] = slots[v6][k]
              \/ /\ k - len[v6] \in 1 .. m
                 /\ slots'[v6][k].buf = bufs[k - len[v6]]
                 /\ slots'[v6][k].prefix > 0
                      => Clear(slots'[v6][k].network, slots'[v6][k].prefix, inet_size(v6))
<1>1. /\ slots' = [slots EXCEPT ![v6] = array] /\ len' = [len EXCEPT ![v6] = len[v6] + m]
      /\ slots = [w \in BOOLEAN |-> slots[w]] /\ len \in [BOOLEAN -> 0 .. MaxChains]
  BY DEF Grows, ArraysTyped
<1>2. /\ slots'[v6] = array /\ len'[v6] = len[v6] + m
      /\ \A w \in BOOLEAN : w # v6 => slots'[w] = slots[w] /\ len'[w] = len[w]
      /\ slots' = [w \in BOOLEAN |-> slots'[w]]
  BY <1>1
<1>3. PICK l : l = len[v6]
  OBVIOUS
<1>4. l \in Nat /\ m \in Nat
  BY <1>3, ArraysType DEF Grows
<1>5. ASSUME NEW k \in 1 .. l + m
      PROVE  k \in 1 .. l \/ (k - l \in 1 .. m /\ l + (k - l) = k)
  BY <1>4
<1>6. ASSUME NEW k \in 1 .. l + m
      PROVE  \/ k \in 1 .. l /\ array[k] = slots[v6][k]
             \/ /\ k - l \in 1 .. m
                /\ array[k].buf = bufs[k - l]
                /\ array[k].prefix > 0 => Clear(array[k].network, array[k].prefix, inet_size(v6))
  <2>1. CASE k \in 1 .. l
    BY <1>3, <2>1 DEF Grows
  <2>2. CASE k - l \in 1 .. m /\ l + (k - l) = k
    <3>1. PICK i : i = k - l
      OBVIOUS
    <3>2. i \in 1 .. m /\ l + i = k
      BY <2>2, <3>1
    <3>3. /\ array[l + i].buf = bufs[i]
          /\ array[l + i].prefix > 0
               => Clear(array[l + i].network, array[l + i].prefix, inet_size(v6))
      BY <1>3, <3>2 DEF Grows
    <3>4. QED
      BY <3>1, <3>2, <3>3
  <2>3. QED
    BY <1>5, <2>1, <2>2
<1>7. QED
  BY <1>2, <1>3, <1>6

\* An array that grows keeps its type, lies within its slots and holds routes.
LEMMA GrownTyped ==
  ASSUME ArraysTyped, Fits, Routed, NEW v6, v6 \in BOOLEAN, NEW m, NEW array, NEW bufs,
         Grows(v6, m, array, bufs)
  PROVE  ArraysTyped' /\ Fits' /\ Routed'
<1>1. /\ slots'[v6] = array /\ len'[v6] = len[v6] + m
      /\ \A w \in BOOLEAN : w # v6 => slots'[w] = slots[w] /\ len'[w] = len[w]
      /\ slots' = [w \in BOOLEAN |-> slots'[w]]
  BY GrownSlots
<1>2. /\ m \in Nat /\ len[v6] + m <= MaxChains /\ array \in Seq(SlotOf(v6))
      /\ len[v6] + m < Len(array)
  BY DEF Grows
<1>3. len[v6] \in Nat /\ MaxChains \in Nat /\ Len(array) \in Nat
  BY <1>2, ArraysType
<1>4. ArraysTyped'
  <2>1. len' \in [BOOLEAN -> 0 .. MaxChains]
    <3>1. len[v6] + m \in 0 .. MaxChains
      BY <1>2, <1>3
    <3>2. len \in [BOOLEAN -> 0 .. MaxChains] /\ len' = [len EXCEPT ![v6] = len[v6] + m]
      BY DEF ArraysTyped, Grows
    <3>3. QED
      BY <3>1, <3>2
  <2>2. ASSUME NEW w \in BOOLEAN PROVE slots'[w] \in Seq(SlotOf(w))
    <3>1. CASE w = v6
      BY <1>1, <1>2, <3>1
    <3>2. CASE w # v6
      BY <1>1, <3>2 DEF ArraysTyped
    <3>3. QED
      BY <3>1, <3>2
  <2>3. QED
    BY <1>1, <2>1, <2>2 DEF ArraysTyped, SlotOf
<1>5. Fits'
  <2>1. ASSUME NEW w \in BOOLEAN
        PROVE  /\ slots'[w] # <<>> => len'[w] < Len(slots'[w])
               /\ slots'[w] = <<>> => len'[w] = 0
    <3>1. CASE w = v6
      <4>1. array # <<>>
        BY <1>2, <1>3
      <4>2. QED
        BY <1>1, <1>2, <3>1, <4>1
    <3>2. CASE w # v6
      BY <1>1, <3>2 DEF Fits
    <3>3. QED
      BY <3>1, <3>2
  <2>2. QED
    BY <2>1 DEF Fits
<1>6. Routed'
  <2>1. ASSUME NEW w \in BOOLEAN, NEW k \in 1 .. len'[w]
        PROVE  slots'[w][k].prefix > 0
                 => Clear(slots'[w][k].network, slots'[w][k].prefix, inet_size(w))
    <3>1. CASE w = v6
      <4>1. CASE k \in 1 .. len[v6] /\ slots'[v6][k] = slots[v6][k]
        BY <3>1, <4>1 DEF Routed
      <4>2. CASE slots'[v6][k].prefix > 0
                   => Clear(slots'[v6][k].network, slots'[v6][k].prefix, inet_size(v6))
        BY <3>1, <4>2
      <4>3. QED
        BY <2>1, <3>1, <4>1, <4>2, GrownSlots
    <3>2. CASE w # v6
      <4>1. slots'[w] = slots[w] /\ len'[w] = len[w]
        BY <1>1, <3>2
      <4>2. QED
        BY <2>1, <4>1 DEF Routed
    <3>3. QED
      BY <3>1, <3>2
  <2>2. QED
    BY <2>1 DEF Routed
<1>7. QED
  BY <1>4, <1>5, <1>6

\* New buffers have new owners.
LEMMA GrownOwned ==
  ASSUME ArraysTyped, Owned, NEW v6, v6 \in BOOLEAN, NEW m, NEW array, NEW bufs,
         Grows(v6, m, array, bufs)
  PROVE  Owned'
<1>1. /\ slots'[v6] = array /\ len'[v6] = len[v6] + m
      /\ \A w \in BOOLEAN : w # v6 => slots'[w] = slots[w] /\ len'[w] = len[w]
      /\ \A k \in 1 .. len'[v6] :
           \/ k \in 1 .. len[v6] /\ slots'[v6][k] = slots[v6][k]
           \/ k - len[v6] \in 1 .. m /\ slots'[v6][k].buf = bufs[k - len[v6]]
  BY GrownSlots
<1>2. /\ m \in Nat /\ bufs \in [1 .. m -> Buffers \ heap]
      /\ \A j, k \in 1 .. m : bufs[j] = bufs[k] => j = k
      /\ heap' = heap \cup {bufs[i] : i \in 1 .. m}
  BY DEF Grows
<1>3. len[v6] \in Nat
  BY ArraysType
<1>4. heap' \subseteq Buffers
  BY <1>2 DEF Owned
\* A chain is an old one or the owner of a new buffer.
<1> DEFINE Old(w, k) == k \in 1 .. len[w] /\ slots'[w][k] = slots[w][k]
           New(w, k) == w = v6 /\ k - len[v6] \in 1 .. m
                        /\ slots'[w][k].buf = bufs[k - len[v6]]
<1>5. ASSUME NEW w \in BOOLEAN, NEW k \in 1 .. len'[w] PROVE Old(w, k) \/ New(w, k)
  <2>1. CASE w = v6
    BY <1>1, <1>5, <2>1
  <2>2. CASE w # v6
    <3>1. slots'[w] = slots[w] /\ len'[w] = len[w]
      BY <1>1, <2>2
    <3>2. QED
      BY <1>5, <3>1
  <2>3. QED
    BY <2>1, <2>2
<1>6. ASSUME NEW w \in BOOLEAN, NEW k \in 1 .. len'[w]
      PROVE  /\ slots'[w][k].buf \in heap'
             /\ Old(w, k) => slots'[w][k].buf \in heap
             /\ New(w, k) => slots'[w][k].buf \notin heap
  <2>1. ASSUME Old(w, k) PROVE slots'[w][k].buf \in heap
    BY <2>1 DEF Owned
  <2>2. ASSUME New(w, k) PROVE /\ slots'[w][k].buf \notin heap
                               /\ slots'[w][k].buf \in {bufs[i] : i \in 1 .. m}
    <3>1. PICK i : i = k - len[v6]
      OBVIOUS
    <3>2. i \in 1 .. m /\ slots'[w][k].buf = bufs[i]
      BY <2>2, <3>1
    <3>3. QED
      BY <1>2, <3>2
  <2>3. QED
    BY <1>2, <1>5, <2>1, <2>2
<1>7. ASSUME NEW v \in BOOLEAN, NEW w \in BOOLEAN, NEW j \in 1 .. len'[v], NEW k \in 1 .. len'[w],
             slots'[v][j].buf = slots'[w][k].buf
      PROVE  v = w /\ j = k
  <2>1. CASE Old(v, j) /\ Old(w, k)
    BY <1>7, <2>1 DEF Owned
  <2>2. CASE New(v, j) /\ New(w, k)
    <3>1. PICK a : a = j - len[v6]
      OBVIOUS
    <3>2. PICK b : b = k - len[v6]
      OBVIOUS
    <3>3. a \in 1 .. m /\ b \in 1 .. m /\ bufs[a] = bufs[b]
      BY <1>7, <2>2, <3>1, <3>2
    <3>4. a = b
      BY <1>2, <3>3
    <3>5. PICK l : l = len[v6]
      OBVIOUS
    <3>6. l \in Nat /\ j - l = k - l /\ v = w /\ j \in Int /\ k \in Int
      BY <1>3, <2>2, <3>1, <3>2, <3>4, <3>5
    <3>7. QED
      BY <3>6
  <2>3. CASE Old(v, j) /\ New(w, k)
    BY <1>6, <1>7, <2>3
  <2>4. CASE New(v, j) /\ Old(w, k)
    BY <1>6, <1>7, <2>4
  <2> HIDE DEF Old, New
  <2>5. QED
    BY <1>5, <2>1, <2>2, <2>3, <2>4
<1>8. ASSUME NEW b \in heap' PROVE \E w \in BOOLEAN : \E k \in 1 .. len'[w] : slots'[w][k].buf = b
  <2>1. CASE b \in heap
    <3>1. PICK w \in BOOLEAN : \E k \in 1 .. len[w] : slots[w][k].buf = b
      BY <2>1 DEF Owned
    <3>2. PICK k \in 1 .. len[w] : slots[w][k].buf = b
      BY <3>1
    <3>3. CASE w = v6
      <4>1. PICK l : l = len[v6]
        OBVIOUS
      <4>2. k \in 1 .. l + m
        BY <1>2, <1>3, <3>2, <3>3, <4>1
      <4>3. k \in 1 .. len'[v6] /\ array[k] = slots[v6][k]
        BY <1>1, <3>2, <3>3, <4>1, <4>2 DEF Grows
      <4>4. QED
        BY <1>1, <3>2, <3>3, <4>3
    <3>4. CASE w # v6
      <4>1. slots'[w] = slots[w] /\ len'[w] = len[w]
        BY <1>1, <3>4
      <4>2. QED
        BY <3>2, <4>1
    <3>5. QED
      BY <3>3, <3>4
  <2>2. CASE b \notin heap
    <3>1. PICK i \in 1 .. m : b = bufs[i]
      BY <1>2, <2>2
    <3>2. PICK l : l = len[v6]
      OBVIOUS
    <3>3. l + i \in 1 .. l + m
      BY <1>2, <1>3, <3>2
    <3>4. array[l + i].buf = bufs[i]
      BY <3>2 DEF Grows
    <3>5. QED
      BY <1>1, <3>1, <3>2, <3>3, <3>4
  <2>3. QED
    BY <2>1, <2>2
<1>9. QED
  <2> HIDE DEF Old, New
  <2>1. QED
    BY <1>4, <1>6, <1>7, <1>8 DEF Owned

\* What holds of the arrays while the program lives.
Arrays == ArraysTyped /\ Fits /\ Routed /\ Owned

\* They go on holding when an array grows.
LEMMA GrownArrays ==
  ASSUME Arrays, NEW v6, v6 \in BOOLEAN, NEW m, NEW array, NEW bufs, Grows(v6, m, array, bufs)
  PROVE  Arrays'
BY GrownTyped, GrownOwned DEF Arrays

\* There is memory for the chains of both arrays.
LEMMA Affordable ==
  ASSUME Arrays, NEW v6, v6 \in BOOLEAN, NEW m, m \in Nat, len[v6] + m <= MaxChains
  PROVE  /\ malloc(m) \in [1 .. m -> Buffers \ heap]
         /\ \A j, k \in 1 .. m : malloc(m)[j] = malloc(m)[k] => j = k
<1>1. PICK a : a = len[FALSE]
  OBVIOUS
<1>2. PICK b : b = len[TRUE]
  OBVIOUS
<1>3. /\ a \in Nat /\ a <= MaxChains /\ b \in Nat /\ b <= MaxChains /\ MaxChains \in Nat
      /\ a + m <= MaxChains \/ b + m <= MaxChains
  <2>1. /\ a \in Nat /\ a <= MaxChains /\ b \in Nat /\ b <= MaxChains /\ MaxChains \in Nat
    BY <1>1, <1>2, ArraysType DEF Arrays
  <2>2. a + m <= MaxChains \/ b + m <= MaxChains
    <3>1. v6 = FALSE \/ v6 = TRUE
      OBVIOUS
    <3>2. QED
      BY <1>1, <1>2, <3>1
  <2>3. QED
    BY <2>1, <2>2
<1>4. a + b + m <= 2 * MaxChains
  BY <1>3
<1>5. QED
  BY <1>1, <1>2, <1>4, Allocated DEF Arrays

\* A chain the parser lets pass has a route.
LEMMA SpecsRouted ==
  ASSUME NEW v6, v6 \in BOOLEAN, NEW c, c \in Specs[v6]
  PROVE  /\ c.hosts \in Seq([addr : Addrs(v6)]) /\ c.network \in Addrs(v6)
         /\ c.prefix \in 0 .. inet_size(v6)
         /\ c.prefix > 0 => Clear(c.network, c.prefix, inet_size(v6))
<1>1. /\ c.hosts \in Seq([addr : Addrs(v6)]) /\ c.network \in Addrs(v6)
      /\ c.prefix \in 0 .. inet_size(v6) /\ TRUE \in inet_isnetwork(v6, c.network, c.prefix)
  BY SpecsAssumption
<1>2. ASSUME c.prefix > 0 PROVE Clear(c.network, c.prefix, inet_size(v6))
  <2>1. c.prefix \in Nat \ {0} /\ c.prefix <= inet_size(v6)
    BY <1>1, <1>2, SizeType
  <2>2. c.network \in Nat
    BY <1>1, AddrsType
  <2>3. inet_isnetwork(v6, c.network, c.prefix) = {Clear(c.network, c.prefix, inet_size(v6))}
    BY <1>1, <2>1, <2>2, ChecksClear
  <2>4. QED
    BY <1>1, <2>3
<1>3. QED
  BY <1>1, <1>2

\* The array is grown before the chain is parsed.
LEMMA ChainOptionGrows ==
  ASSUME Arrays, NEW v6, v6 \in BOOLEAN, ChainOption(v6)
  PROVE  /\ \/ pc' = "fail" /\ UNCHANGED arrays
            \/ pc' = "fail" /\ \E array, bufs : Grows(v6, 0, array, bufs)
            \/ pc' = pc /\ \E array, bufs : Grows(v6, 1, array, bufs)
         /\ UNCHANGED <<nthread, if_name_set, ret>>
         /\ last_chain_v6' \in {last_chain_v6, v6}
<1>1. PICK n : n = len[v6]
  OBVIOUS
<1>2. PICK grown : grown = irealloc(slots[v6], n + 2)
  OBVIOUS
<1>3. n \in Nat /\ MaxChains \in Nat /\ n < MaxChains
  BY <1>1, ArraysType DEF Arrays, ChainOption
<1>4. n <= Len(slots[v6])
  <2>1. Len(slots[v6]) \in Nat
    BY ArraysType DEF Arrays
  <2>2. QED
    BY <1>1, <1>3, <2>1 DEF Arrays, Fits
<1>5. /\ grown \in Seq(SlotOf(v6)) /\ Len(grown) = n + 2
      /\ \A k \in 1 .. n : grown[k] = slots[v6][k]
  <2>1. slots[v6] \in Seq(SlotOf(v6)) /\ Len(slots[v6]) \in Nat
    BY ArraysType DEF Arrays
  <2>2. n + 2 \in Nat
    BY <1>3
  <2>3. /\ grown \in Seq(SlotOf(v6)) /\ Len(grown) = n + 2
        /\ \A k \in 1 .. n + 2 : k <= Len(slots[v6]) => grown[k] = slots[v6][k]
    BY <1>2, <2>1, <2>2, BlankSlots, Reallocated
  <2>4. ASSUME NEW k \in 1 .. n PROVE grown[k] = slots[v6][k]
    <3>1. k \in 1 .. n + 2 /\ k <= Len(slots[v6])
      BY <1>3, <1>4, <2>1
    <3>2. QED
      BY <2>3, <3>1
  <2>5. QED
    BY <2>3, <2>4
<1>6. ASSUME NEW slot, slot \in SlotOf(v6)
      PROVE  LET array == Store(grown, n + 1, slot)
             IN  /\ array \in Seq(SlotOf(v6)) /\ Len(array) = n + 2 /\ array[n + 1] = slot
                 /\ \A k \in 1 .. n : array[k] = slots[v6][k]
  <2>1. n + 1 \in 1 .. Len(grown)
    BY <1>3, <1>5
  <2>2. PICK array : array = Store(grown, n + 1, slot)
    OBVIOUS
  <2>3. /\ array \in Seq(SlotOf(v6)) /\ Len(array) = Len(grown)
        /\ \A j \in 1 .. Len(grown) : array[j] = IF j = n + 1 THEN slot ELSE grown[j]
    BY <1>5, <1>6, <2>1, <2>2, ExceptSeq DEF Store
  <2>4. \A k \in 1 .. n : k \in 1 .. n + 2 /\ k # n + 1
    BY <1>3
  <2>5. QED
    BY <1>5, <2>1, <2>2, <2>3, <2>4
<1>7. CASE pc' = "fail" /\ UNCHANGED <<len, heap, last_chain_v6>>
           /\ slots' = [slots EXCEPT ![v6] = Store(grown, n + 1, Slot(Stray))]
  <2>1. PICK array : array = Store(grown, n + 1, Slot(Stray))
    OBVIOUS
  <2>2. PICK bufs : bufs = [i \in 1 .. 0 |-> i]
    OBVIOUS
  <2>3. /\ array \in Seq(SlotOf(v6)) /\ Len(array) = n + 2
        /\ \A k \in 1 .. n : array[k] = slots[v6][k]
    BY <1>6, <2>1, BlankSlots
  <2>4. 1 .. 0 = {} /\ n + 0 = n /\ n + 0 <= MaxChains /\ n + 0 < n + 2
    BY <1>3
  <2>5. bufs \in [1 .. 0 -> Buffers \ heap]
    BY <2>2, <2>4
  <2>6. len' = [len EXCEPT ![v6] = n + 0]
    BY <1>1, <1>7, <2>4 DEF Arrays, ArraysTyped
  <2>7. heap' = heap \cup {bufs[i] : i \in 1 .. 0}
    BY <1>7, <2>4
  <2>8. Grows(v6, 0, array, bufs)
    BY <1>1, <1>7, <2>1, <2>3, <2>4, <2>5, <2>6, <2>7 DEF Grows
  <2>9. QED
    BY <1>7, <2>8 DEF ChainOption
<1>8. ASSUME NEW c \in Specs[v6], NEW buf, buf = malloc(1)[1],
             slots' = [slots EXCEPT ![v6] = Store(grown, n + 1,
                        [hosts |-> c.hosts, network |-> c.network, prefix |-> c.prefix,
                         buf |-> buf])],
             heap' = heap \cup {buf}, len' = [len EXCEPT ![v6] = n + 1], pc' = pc
      PROVE  \E array, bufs : Grows(v6, 1, array, bufs)
  <2>1. PICK chain : chain = [hosts |-> c.hosts, network |-> c.network, prefix |-> c.prefix,
                              buf |-> buf]
    OBVIOUS
  <2>2. PICK array : array = Store(grown, n + 1, chain)
    OBVIOUS
  <2>3. PICK bufs : bufs = malloc(1)
    OBVIOUS
  <2>4. /\ bufs \in [1 .. 1 -> Buffers \ heap]
        /\ \A j, k \in 1 .. 1 : bufs[j] = bufs[k] => j = k
    <3>1. 1 \in Nat /\ n + 1 <= MaxChains
      BY <1>3
    <3>2. QED
      BY <1>1, <2>3, <3>1, Affordable
  <2>5. 1 .. 1 = {1}
    OBVIOUS
  <2>6. buf \in Buffers \ heap /\ {bufs[i] : i \in 1 .. 1} = {buf}
    BY <1>8, <2>3, <2>4, <2>5
  <2>7. chain \in SlotOf(v6)
    BY <2>1, <2>6, SpecsRouted DEF SlotOf
  <2>8. /\ array \in Seq(SlotOf(v6)) /\ Len(array) = n + 2 /\ array[n + 1] = chain
        /\ \A k \in 1 .. n : array[k] = slots[v6][k]
    BY <1>6, <2>2, <2>7
  <2>9. chain.buf = bufs[1]
        /\ (chain.prefix > 0 => Clear(chain.network, chain.prefix, inet_size(v6)))
    BY <1>8, <2>1, <2>3, SpecsRouted
  <2>10. \A i \in 1 .. 1 : /\ array[n + i].buf = bufs[i]
                           /\ array[n + i].prefix > 0
                                => Clear(array[n + i].network, array[n + i].prefix, inet_size(v6))
    BY <2>5, <2>8, <2>9
  <2>11. n + 1 <= MaxChains /\ n + 1 < n + 2 /\ 1 \in Nat
    BY <1>3
  <2>12. Grows(v6, 1, array, bufs)
    BY <1>1, <1>8, <2>1, <2>2, <2>4, <2>6, <2>8, <2>10, <2>11 DEF Grows
  <2>13. QED
    BY <2>12
<1>9. \/ pc' = "fail" /\ UNCHANGED <<len, heap, last_chain_v6>>
         /\ \/ slots' = slots
            \/ slots' = [slots EXCEPT ![v6] = Store(grown, n + 1, Slot(Stray))]
      \/ \E c \in Specs[v6] :
           /\ slots' = [slots EXCEPT ![v6] = Store(grown, n + 1,
                          [hosts |-> c.hosts, network |-> c.network, prefix |-> c.prefix,
                           buf |-> malloc(1)[1]])]
           /\ heap' = heap \cup {malloc(1)[1]} /\ len' = [len EXCEPT ![v6] = n + 1]
           /\ last_chain_v6' = v6 /\ pc' = pc
  BY <1>1, <1>2 DEF ChainOption, Fail
<1>10. UNCHANGED <<nthread, if_name_set, ret>>
  BY DEF ChainOption
<1>11. CASE pc' = "fail" /\ UNCHANGED <<len, heap, last_chain_v6>> /\ slots' = slots
  BY <1>10, <1>11 DEF arrays
<1>12. CASE \E c \in Specs[v6] :
             /\ slots' = [slots EXCEPT ![v6] = Store(grown, n + 1,
                            [hosts |-> c.hosts, network |-> c.network, prefix |-> c.prefix,
                             buf |-> malloc(1)[1]])]
             /\ heap' = heap \cup {malloc(1)[1]} /\ len' = [len EXCEPT ![v6] = n + 1]
             /\ last_chain_v6' = v6 /\ pc' = pc
  BY <1>8, <1>10, <1>12
<1>13. QED
  BY <1>7, <1>9, <1>10, <1>11, <1>12

-----------------------------------------------------------------------------
(* Numbers *)

\* An int has two halves.
LEMMA IntType ==
  /\ INT_MAX \in Nat /\ 2 ^ WordBits = 2 * (INT_MAX + 1) /\ 2 ^ WordBits \in Nat \ {0}
<1>1. PICK m : m = WordBits - 1
  OBVIOUS
<1>2. WordBits \in Nat \ {0}
  BY WidthAssumption
<1>3. m \in Nat /\ m \in 0 .. 4 * WordBits - 1 /\ m \in Widths /\ m + 1 = WordBits
  BY <1>1, <1>2 DEF Widths
<1>4. PICK x : x = 2 ^ m
  OBVIOUS
<1>5. x \in Nat \ {0}
  BY <1>3, <1>4, PowerPositive
<1>6. 2 ^ (m + 1) = 2 * x
  BY <1>3, <1>4, PowerAssumption
<1>7. INT_MAX = x - 1
  BY <1>1, <1>4 DEF INT_MAX
<1>8. QED
  BY <1>3, <1>5, <1>6, <1>7

\* What is cut to an int differs by a multiple of what an int counts, and not at all
\* if it fits.
LEMMA Wraps ==
  ASSUME NEW x, x \in Int
  PROVE  /\ int(x) \in Int
         /\ \E q \in Int : x = int(x) + q * 2 ^ WordBits
         /\ x >= 0 /\ x <= INT_MAX => int(x) = x
<1>1. PICK h : h = INT_MAX
  OBVIOUS
<1>2. PICK d : d = 2 ^ WordBits
  OBVIOUS
<1>3. h \in Nat /\ d \in Nat \ {0} /\ d = 2 * (h + 1)
  BY <1>1, <1>2, IntType
<1>4. PICK y : y = x + h + 1
  OBVIOUS
<1>5. y \in Int
  BY <1>3, <1>4
<1>6. PICK q : q = y \div d
  OBVIOUS
<1>7. PICK r : r = y % d
  OBVIOUS
<1>8. q \in Int /\ r \in Nat /\ y = d * q + r
  BY <1>3, <1>5, <1>6, <1>7, Division
<1>9. int(x) = r - h - 1
  BY <1>1, <1>2, <1>4, <1>7 DEF int
<1>10. int(x) \in Int /\ x = int(x) + q * d
  <2>1. d * q \in Int /\ d * q = q * d
    BY <1>3, <1>8
  <2>2. QED
    BY <1>3, <1>4, <1>8, <1>9, <2>1
<1>11. ASSUME x >= 0, x <= h PROVE int(x) = x
  <2>1. y \in Nat /\ y < d /\ 0 \in Int /\ y = d * 0 + y
    BY <1>3, <1>4, <1>11
  <2>2. r = y
    BY <1>3, <1>7, <2>1, DivisionUnique
  <2>3. QED
    BY <1>3, <1>4, <1>9, <2>2
<1>12. QED
  BY <1>1, <1>2, <1>8, <1>10, <1>11

-----------------------------------------------------------------------------
(* Duplicates *)

\* A copy has the hosts before the terminator, and all of them.
LEMMA CopyHosts ==
  ASSUME NEW v6, v6 \in BOOLEAN, NEW c, c \in SlotOf(v6)
  PROVE  LET n == HostChain_nitem(c)
             copy == HostChain_copy(c)
         IN  /\ n \in Nat /\ copy.hosts \in Seq([addr : Addrs(v6)]) /\ Len(copy.hosts) = n
             /\ \A k \in 1 .. n : copy.hosts[k] = c.hosts[k]
             /\ HostChain_nitem(copy) = n
             /\ copy = [c EXCEPT !.hosts = copy.hosts]
<1>1. PICK n : n = HostChain_nitem(c)
  OBVIOUS
<1>2. PICK copy : copy = HostChain_copy(c)
  OBVIOUS
<1>3. PICK H : H = [addr : Addrs(v6)]
  OBVIOUS
<1>4. c.hosts \in Seq(H)
  BY <1>3 DEF SlotOf
<1>5. n \in 0 .. Len(c.hosts) /\ \A i \in 1 .. n : c.hosts[i].addr # Null
  BY <1>1, <1>4, NitemIsTerminator
<1>6. n \in Nat /\ 1 .. n \subseteq 1 .. Len(c.hosts)
  <2>1. Len(c.hosts) \in Nat
    BY <1>4
  <2>2. QED
    BY <1>5, <2>1
<1>7. copy = [c EXCEPT !.hosts = SubSeq(c.hosts, 1, n)]
  BY <1>1, <1>2 DEF HostChain_copy
<1>8. copy.hosts = SubSeq(c.hosts, 1, n)
  BY <1>7 DEF SlotOf
<1>9. /\ copy.hosts \in Seq(H) /\ Len(copy.hosts) = n
      /\ \A k \in 1 .. n : copy.hosts[k] = c.hosts[k]
  <2>1. \A i \in 1 .. n : c.hosts[i] \in H
    BY <1>4, <1>6
  <2>2. 1 \in Int /\ n \in Int /\ n - 1 + 1 = n /\ (1 <= n => n - 1 + 1 = n) /\ (~(1 <= n) => n = 0)
    BY <1>6
  <2>3. PICK hosts : hosts = SubSeq(c.hosts, 1, n)
    OBVIOUS
  <2>4. /\ hosts \in Seq(H) /\ Len(hosts) = (IF 1 <= n THEN n - 1 + 1 ELSE 0)
        /\ \A i \in 1 .. n - 1 + 1 : hosts[i] = c.hosts[1 + i - 1]
    BY <2>1, <2>2, <2>3, SubSeqProperties
  <2>5. \A k \in 1 .. n : 1 + k - 1 = k
    BY <1>6
  <2>6. QED
    BY <1>8, <2>2, <2>3, <2>4, <2>5
<1>10. HostChain_nitem(copy) = n
  <2>1. PICK m : m = HostChain_nitem(copy)
    OBVIOUS
  <2>2. m \in 0 .. n /\ (m < n => copy.hosts[m + 1].addr = Null)
    BY <1>9, <2>1, NitemIsTerminator
  <2>3. ~(m < n)
    <3>1. SUFFICES ASSUME m < n PROVE FALSE
      OBVIOUS
    <3>2. m + 1 \in 1 .. n
      BY <1>6, <2>2, <3>1
    <3>3. QED
      BY <1>5, <1>9, <2>2, <3>1, <3>2
  <2>4. QED
    BY <1>6, <2>1, <2>2, <2>3
<1>11. QED
  BY <1>1, <1>2, <1>3, <1>6, <1>7, <1>8, <1>9, <1>10

\* A duplicate is a chain in a buffer of its own, its route a route again.
Moved(v6, base, offset, prefix, d) ==
  /\ d \in SlotOf(v6)
  /\ d.prefix > 0 => Clear(d.network, d.prefix, inet_size(v6))
  /\ d.prefix = base.prefix /\ d.network = inet_shift(v6, base.network, offset, prefix)
  /\ \A k \in 1 .. HostChain_nitem(base) :
       d.hosts[k].addr = inet_shift(v6, base.hosts[k].addr, offset, prefix)

\* A copy that is shifted is.
LEMMA MovedCopy ==
  ASSUME NEW v6, v6 \in BOOLEAN, NEW base, base \in SlotOf(v6),
         NEW offset, offset \in Int, NEW prefix, prefix \in 0 .. base.prefix,
         NEW buf, buf \in Buffers,
         base.prefix > 0 => Clear(base.network, base.prefix, inet_size(v6)),
         NEW d, d = [HostChain_shift(v6, HostChain_copy(base), offset, prefix) EXCEPT !.buf = buf]
  PROVE  Moved(v6, base, offset, prefix, d) /\ d.buf = buf
<1>1. PICK copy : copy = HostChain_copy(base)
  OBVIOUS
<1>2. PICK n : n = HostChain_nitem(base)
  OBVIOUS
<1>3. /\ n \in Nat /\ copy.hosts \in Seq([addr : Addrs(v6)]) /\ Len(copy.hosts) = n
      /\ \A k \in 1 .. n : copy.hosts[k] = base.hosts[k]
      /\ HostChain_nitem(copy) = n
      /\ copy = [base EXCEPT !.hosts = copy.hosts]
  BY <1>1, <1>2, CopyHosts
<1>4. /\ base.network \in Addrs(v6) /\ base.prefix \in Nat /\ base.prefix <= inet_size(v6)
      /\ base.prefix \in 0 .. inet_size(v6)
  BY SizeType DEF SlotOf
<1>5. ASSUME NEW addr, addr \in Addrs(v6)
      PROVE  /\ inet_shift(v6, addr, offset, prefix) \in Addrs(v6)
             /\ Moves(addr, inet_shift(v6, addr, offset, prefix),
                      offset * 2 ^ (base.prefix - prefix), base.prefix, inet_size(v6))
  BY <1>4, <1>5, ShiftMoves
<1>6. PICK network : network = inet_shift(v6, base.network, offset, prefix)
  OBVIOUS
<1> DEFINE host(k) == IF k <= HostChain_nitem(copy)
                      THEN [copy.hosts[k] EXCEPT !.addr = inet_shift(v6, @, offset, prefix)]
                      ELSE copy.hosts[k]
<1>7. PICK hosts : hosts = [k \in DOMAIN copy.hosts |-> host(k)]
  OBVIOUS
<1>8. d = [hosts |-> hosts, network |-> network, prefix |-> base.prefix, buf |-> buf]
  <2>1. PICK own : own = copy.hosts
    OBVIOUS
  <2>2. copy = [hosts |-> own, network |-> base.network, prefix |-> base.prefix,
                buf |-> base.buf]
    BY <1>3, <2>1 DEF SlotOf
  <2>3. PICK moved : moved = HostChain_shift(v6, copy, offset, prefix)
    OBVIOUS
  <2>4. moved = [copy EXCEPT !.network = inet_shift(v6, copy.network, offset, prefix),
                             !.hosts = [k \in DOMAIN copy.hosts |-> host(k)]]
    BY <2>3, Zenon DEF HostChain_shift
  <2> HIDE DEF host
  <2>5. moved = [copy EXCEPT !.network = network, !.hosts = hosts]
    BY <1>6, <1>7, <2>2, <2>4
  <2>6. d = [moved EXCEPT !.buf = buf]
    BY <1>1, <2>3
  <2>7. moved = [hosts |-> hosts, network |-> network, prefix |-> base.prefix,
                 buf |-> base.buf]
    BY <2>2, <2>5
  <2>8. QED
    BY <2>6, <2>7
<1>9. DOMAIN copy.hosts = 1 .. n
  BY <1>3
<1>10. ASSUME NEW k \in 1 .. n
       PROVE  hosts[k] = [addr |-> inet_shift(v6, base.hosts[k].addr, offset, prefix)]
              /\ base.hosts[k].addr \in Addrs(v6)
  <2>1. PICK h : h = copy.hosts[k]
    OBVIOUS
  <2>2. k <= n
    BY <1>3
  <2>3. h = base.hosts[k]
    BY <1>3, <2>1
  <2>4. h \in [addr : Addrs(v6)]
    BY <1>3, <2>1, ElementOfSeq
  <2>5. hosts[k] = [h EXCEPT !.addr = inet_shift(v6, @, offset, prefix)]
    BY <1>3, <1>7, <1>9, <2>1, <2>2
  <2>6. [h EXCEPT !.addr = inet_shift(v6, @, offset, prefix)]
          = [addr |-> inet_shift(v6, h.addr, offset, prefix)]
    BY <2>4
  <2>7. QED
    BY <2>3, <2>4, <2>5, <2>6
<1>11. hosts \in Seq([addr : Addrs(v6)])
  <2>1. ASSUME NEW k \in 1 .. n PROVE hosts[k] \in [addr : Addrs(v6)]
    <3>1. PICK addr : addr = base.hosts[k].addr
      OBVIOUS
    <3>2. inet_shift(v6, addr, offset, prefix) \in Addrs(v6)
          /\ hosts[k] = [addr |-> inet_shift(v6, addr, offset, prefix)]
      BY <1>5, <1>10, <3>1
    <3>3. QED
      BY <3>2
  <2> HIDE DEF host
  <2>2. hosts = [k \in 1 .. n |-> hosts[k]]
    BY <1>7, <1>9
  <2>3. hosts \in [1 .. n -> [addr : Addrs(v6)]]
    BY <2>1, <2>2
  <2>4. QED
    BY <1>3, <2>3
<1>12. /\ network = inet_shift(v6, base.network, offset, prefix) /\ network \in Addrs(v6)
       /\ base.prefix > 0 => Clear(network, base.prefix, inet_size(v6))
  BY <1>4, <1>5, <1>6 DEF Moves
<1>13. d \in SlotOf(v6)
  <2>1. /\ hosts \in Seq([addr : Addrs(v6)]) /\ network \in Addrs(v6)
        /\ base.prefix \in 0 .. inet_size(v6) /\ buf \in Buffers \cup {NULL, Stray}
    BY <1>4, <1>11, <1>12
  <2>2. QED
    BY ONLY <1>8, <2>1 DEF SlotOf
<1>14. d.hosts = hosts /\ d.network = network /\ d.prefix = base.prefix /\ d.buf = buf
  BY <1>8
<1>15. ASSUME NEW k \in 1 .. n
       PROVE  d.hosts[k].addr = inet_shift(v6, base.hosts[k].addr, offset, prefix)
  <2>1. PICK addr : addr = inet_shift(v6, base.hosts[k].addr, offset, prefix)
    OBVIOUS
  <2>2. hosts[k] = [addr |-> addr]
    BY <1>10, <2>1
  <2>3. QED
    BY <1>14, <2>1, <2>2
<1>16. d.prefix > 0 => Clear(d.network, d.prefix, inet_size(v6))
  BY <1>12, <1>14
<1>17. d.network = inet_shift(v6, base.network, offset, prefix)
  BY <1>12, <1>14
<1> HIDE DEF host
<1>18. Moved(v6, base, offset, prefix, d)
  <2>1. ASSUME NEW k \in 1 .. HostChain_nitem(base)
        PROVE  d.hosts[k].addr = inet_shift(v6, base.hosts[k].addr, offset, prefix)
    <3>1. k \in 1 .. n
      BY <1>2
    <3>2. QED
      BY <1>15, <3>1
  <2>2. QED
    BY <1>13, <1>14, <1>16, <1>17, <2>1 DEF Moved
<1>19. QED
  BY <1>14, <1>18

\* An array that is grown keeps its chains.
LEMMA Regrown ==
  ASSUME Arrays, NEW v6, v6 \in BOOLEAN, NEW n, n \in Nat, n >= len[v6], NEW grown,
         grown = irealloc(slots[v6], n)
  PROVE  /\ grown \in Seq(SlotOf(v6)) /\ Len(grown) = n /\ DOMAIN grown = 1 .. n
         /\ \A k \in 1 .. len[v6] : grown[k] = slots[v6][k]
<1>1. slots[v6] \in Seq(SlotOf(v6)) /\ Len(slots[v6]) \in Nat /\ len[v6] \in Nat
  BY ArraysType DEF Arrays
<1>2. len[v6] <= Len(slots[v6])
  BY <1>1 DEF Arrays, Fits
<1>3. /\ grown \in Seq(SlotOf(v6)) /\ Len(grown) = n /\ DOMAIN grown = 1 .. n
      /\ \A k \in 1 .. n : k <= Len(slots[v6]) => grown[k] = slots[v6][k]
  <2>1. PICK array : array = slots[v6]
    OBVIOUS
  <2>2. PICK S : S = SlotOf(v6)
    OBVIOUS
  <2>3. array \in Seq(S) /\ Slot(Stray) \in S /\ n \in Nat
    BY <1>1, <2>1, <2>2, BlankSlots
  <2>4. grown = irealloc(array, n)
    BY <2>1
  <2>5. irealloc(array, n) \in Seq(S) /\ Len(irealloc(array, n)) = n
    BY <2>3, Reallocated
  <2>6. DOMAIN irealloc(array, n) = 1 .. n
    BY <2>3, Reallocated
  <2>7. ASSUME NEW k \in 1 .. n, k <= Len(array) PROVE irealloc(array, n)[k] = array[k]
    BY <2>3, <2>7, Reallocated
  <2>8. QED
    BY <2>1, <2>2, <2>4, <2>5, <2>6, <2>7
<1>4. ASSUME NEW k \in 1 .. len[v6] PROVE grown[k] = slots[v6][k]
  <2>1. k \in 1 .. n /\ k <= Len(slots[v6])
    BY <1>1, <1>2
  <2>2. QED
    BY <1>3, <2>1
<1>5. QED
  BY <1>3, <1>4

\* The chains behind the last one are it, moved by step blocks each.
Spaced(v6, step, prefix, m, array) ==
  /\ step \in 1 .. SHRT_MAX /\ prefix \in 1 .. slots[v6][len[v6]].prefix
  /\ \A i \in 1 .. m :
      Moved(v6, slots[v6][len[v6]], int(step * i), prefix, array[len[v6] + i])

\* -E makes an array grow by spaced duplicates.
LEMMA DuplicateGrows ==
  ASSUME Arrays, last_chain_v6 \in BOOLEAN, NEW step_arg, step_arg \in Steps,
         NEW prefix_arg, prefix_arg \in ShiftPrefixes, NEW n_arg, n_arg \in Counts,
         Duplicate(step_arg, prefix_arg, n_arg)
  PROVE  /\ \E m, array, bufs :
              /\ Grows(last_chain_v6, m, array, bufs)
              /\ m > 0 => Spaced(last_chain_v6, int(step_arg), int(prefix_arg), m, array)
              /\ pc' = "parse" => m = int(n_arg)
         /\ pc' \in {pc, "fail"} /\ len[last_chain_v6] > 0
         /\ UNCHANGED <<last_chain_v6, nthread, if_name_set, ret>>
<1>1. PICK v6 : v6 = last_chain_v6
  OBVIOUS
<1>2. PICK l : l = len[v6]
  OBVIOUS
<1>3. PICK step : step = argtoi(step_arg, 1, SHRT_MAX).res
  OBVIOUS
<1>4. PICK prefix : prefix = argtoi(prefix_arg, 1, inet_size(v6)).res
  OBVIOUS
<1>5. PICK n : n = argtoi(n_arg, 0, INT_MAX).res
  OBVIOUS
<1>6. PICK grown : grown = irealloc(slots[v6], l + n + 1)
  OBVIOUS
<1>7. PICK base : base = grown[l]
  OBVIOUS
<1>8. /\ argtoi(step_arg, 1, SHRT_MAX).ok /\ argtoi(prefix_arg, 1, inet_size(v6)).ok
      /\ argtoi(n_arg, 0, INT_MAX).ok
      /\ l > 0 /\ l + n <= MaxChains
      /\ UNCHANGED <<last_chain_v6, nthread, if_name_set, ret>>
  BY <1>1, <1>2, <1>5 DEF Duplicate
<1>20. step = int(step_arg) /\ prefix = int(prefix_arg) /\ n = int(n_arg)
  BY <1>3, <1>4, <1>5 DEF argtoi
<1>9. v6 \in BOOLEAN /\ l \in Nat /\ MaxChains \in Nat /\ SHRT_MAX \in Int /\ INT_MAX \in Int
      /\ inet_size(v6) \in Nat /\ step_arg \in Int /\ prefix_arg \in Int /\ n_arg \in Int
  <2>1. v6 \in BOOLEAN /\ l \in Nat /\ MaxChains \in Nat
    BY <1>1, <1>2, ArraysType DEF Arrays
  <2>2. INT_MAX \in Nat /\ SHRT_MAX \in Int
    BY IntType, NumbersAssumption
  <2>3. step_arg \in Int /\ prefix_arg \in Int /\ n_arg \in Int
    BY NumbersAssumption
  <2>4. QED
    BY <2>1, <2>2, <2>3, SizeType
<1>10. step \in 1 .. SHRT_MAX
  BY <1>3, <1>8 DEF argtoi
<1>11. prefix \in 1 .. inet_size(v6)
  BY <1>4, <1>8 DEF argtoi
<1>12. n \in Nat
  <2>1. n \in 0 .. INT_MAX
    BY <1>5, <1>8 DEF argtoi
  <2>2. QED
    BY <1>9, <2>1
<1>13. /\ grown \in Seq(SlotOf(v6)) /\ Len(grown) = l + n + 1 /\ DOMAIN grown = 1 .. l + n + 1
       /\ \A k \in 1 .. l : grown[k] = slots[v6][k]
  <2>1. l + n + 1 \in Nat /\ l + n + 1 >= l
    BY <1>9, <1>12
  <2>2. QED
    BY <1>2, <1>6, <1>9, <2>1, Regrown
<1>14. /\ l \in 1 .. l /\ base = slots[v6][l] /\ base \in SlotOf(v6)
       /\ base.prefix > 0 => Clear(base.network, base.prefix, inet_size(v6))
  <2>1. l \in 1 .. l /\ l \in 1 .. l + n + 1
    BY <1>8, <1>9, <1>12
  <2>2. base = slots[v6][l]
    BY <1>7, <1>13, <2>1
  <2>3. base \in SlotOf(v6)
    BY <1>7, <1>13, <2>1, ElementOfSeq
  <2>4. QED
    BY <1>2, <1>9, <2>1, <2>2, <2>3 DEF Arrays, Routed
\* Too long a prefix.
<1>15. CASE pc' = "fail" /\ slots' = [slots EXCEPT ![v6] = grown] /\ UNCHANGED <<len, heap>>
  <2>1. PICK bufs : bufs = [i \in 1 .. 0 |-> i]
    OBVIOUS
  <2>2. 1 .. 0 = {} /\ l + 0 = l /\ l + 0 <= MaxChains /\ l + 0 < l + n + 1
    BY <1>8, <1>9, <1>12
  <2>3. bufs \in [1 .. 0 -> Buffers \ heap]
    BY <2>1, <2>2
  <2>4. len' = [len EXCEPT ![v6] = l + 0]
    BY <1>2, <1>15, <2>2 DEF Arrays, ArraysTyped
  <2>5. heap' = heap \cup {bufs[i] : i \in 1 .. 0}
    BY <1>15, <2>2
  <2>6. Grows(v6, 0, grown, bufs)
    BY <1>2, <1>13, <1>15, <2>2, <2>3, <2>4, <2>5 DEF Grows
  <2>7. QED
    BY <1>1, <1>2, <1>8, <1>15, <2>6
\* Some duplicates are made.
<1>16. ASSUME ~(prefix > base.prefix), NEW done \in 0 .. n, NEW bufs, bufs = malloc(done),
              NEW made,
              made = [k \in DOMAIN grown |->
                        IF k \in l + 1 .. l + done
                        THEN duplicate(v6, base, step, prefix, k - l, bufs[k - l])
                        ELSE IF k = l + done + 1 /\ done < n
                        THEN [base EXCEPT !.buf = NULL]
                        ELSE grown[k]],
              slots' = [slots EXCEPT ![v6] = made], heap' = heap \cup Range(bufs),
              len' = [len EXCEPT ![v6] = l + done]
       PROVE  Grows(v6, done, made, bufs) /\ Spaced(v6, step, prefix, done, made)
  <2>1. /\ done \in Nat /\ done <= n /\ l + done <= MaxChains /\ l + done < l + n + 1
        /\ l + n + 1 \in Nat
    BY <1>8, <1>9, <1>12
  <2>2. /\ bufs \in [1 .. done -> Buffers \ heap]
        /\ \A j, k \in 1 .. done : bufs[j] = bufs[k] => j = k
    BY <1>2, <1>9, <1>16, <2>1, Affordable
  <2>3. prefix \in 1 .. base.prefix /\ prefix \in 0 .. base.prefix
    <3>1. base.prefix \in 0 .. inet_size(v6)
      BY <1>14 DEF SlotOf
    <3>2. QED
      BY <1>9, <1>11, <1>16, <3>1
  <2>4. ASSUME NEW i \in 1 .. done
        PROVE  /\ made[l + i] \in SlotOf(v6) /\ made[l + i].buf = bufs[i]
               /\ made[l + i].prefix > 0
                    => Clear(made[l + i].network, made[l + i].prefix, inet_size(v6))
               /\ Moved(v6, base, int(step * i), prefix, made[l + i])
    <3>1. l + i \in 1 .. l + n + 1 /\ l + i \in l + 1 .. l + done /\ (l + i) - l = i
      BY <1>9, <1>12, <2>1
    <3>2. PICK d : d = made[l + i]
      OBVIOUS
    <3>3. d = duplicate(v6, base, step, prefix, (l + i) - l, bufs[(l + i) - l])
      BY <1>13, <1>16, <3>1, <3>2
    <3>4. d = [HostChain_shift(v6, HostChain_copy(base), int(step * i), prefix)
                 EXCEPT !.buf = bufs[i]]
      BY <3>1, <3>3 DEF duplicate
    <3>5. int(step * i) \in Int
      <4>1. step * i \in Int
        BY <1>9, <1>10
      <4>2. QED
        BY <4>1, Wraps
    <3>6. bufs[i] \in Buffers
      BY <2>2
    <3>7. Moved(v6, base, int(step * i), prefix, d) /\ d.buf = bufs[i]
      BY <1>9, <1>14, <2>3, <3>4, <3>5, <3>6, MovedCopy
    <3>8. QED
      BY <3>2, <3>7 DEF Moved
  <2>5. ASSUME NEW k \in 1 .. l PROVE made[k] = slots[v6][k]
    <3>1. k \in 1 .. l + n + 1 /\ k \notin l + 1 .. l + done /\ k # l + done + 1
      BY <1>9, <1>12, <2>1
    <3>2. QED
      BY <1>13, <1>16, <3>1
  <2>6. ASSUME NEW k \in 1 .. l + n + 1 PROVE made[k] \in SlotOf(v6)
    <3>1. CASE k \in l + 1 .. l + done
      <4>1. PICK i : i = k - l
        OBVIOUS
      <4>2. i \in 1 .. done /\ l + i = k
        BY <1>9, <2>1, <3>1, <4>1
      <4>3. QED
        BY <2>4, <4>2
    <3>2. CASE k \notin l + 1 .. l + done /\ k = l + done + 1 /\ done < n
      <4>1. made[k] = [base EXCEPT !.buf = NULL]
        BY <1>13, <1>16, <3>2
      <4>2. QED
        BY <1>14, <4>1 DEF SlotOf
    <3>3. CASE k \notin l + 1 .. l + done /\ ~(k = l + done + 1 /\ done < n)
      <4>1. made[k] = grown[k]
        BY <1>13, <1>16, <3>3
      <4>2. QED
        BY <1>13, <4>1, ElementOfSeq
    <3>4. QED
      BY <3>1, <3>2, <3>3
  <2>7. made \in Seq(SlotOf(v6)) /\ Len(made) = l + n + 1
    <3>1. DOMAIN made = 1 .. l + n + 1 /\ made = [k \in 1 .. l + n + 1 |-> made[k]]
      BY <1>13, <1>16
    <3>2. made \in [1 .. l + n + 1 -> SlotOf(v6)]
      BY <2>6, <3>1
    <3>3. QED
      BY <2>1, <3>2
  <2>8. heap' = heap \cup {bufs[i] : i \in 1 .. done}
    <3>1. DOMAIN bufs = 1 .. done
      BY <2>2
    <3>2. QED
      BY <1>16, <3>1 DEF Range
  <2>9. Grows(v6, done, made, bufs)
    BY <1>2, <1>16, <2>1, <2>2, <2>4, <2>5, <2>7, <2>8 DEF Grows
  <2>10. \A i \in 1 .. done : Moved(v6, base, int(step * i), prefix, made[l + i])
    BY <2>4
  <2>11. Spaced(v6, step, prefix, done, made)
    BY <1>2, <1>10, <1>14, <2>3, <2>10 DEF Spaced
  <2>12. QED
    BY <2>9, <2>11
<1>17. \/ pc' = "fail" /\ slots' = [slots EXCEPT ![v6] = grown] /\ UNCHANGED <<len, heap>>
       \/ /\ ~(prefix > base.prefix) /\ pc' \in {pc, "fail"}
          /\ \E done \in 0 .. n :
               /\ done < n => pc' = "fail"
               /\ slots' = [slots EXCEPT ![v6] =
                              [k \in DOMAIN grown |->
                                 IF k \in l + 1 .. l + done
                                 THEN duplicate(v6, base, step, prefix, k - l,
                                                malloc(done)[k - l])
                                 ELSE IF k = l + done + 1 /\ done < n
                                 THEN [base EXCEPT !.buf = NULL]
                                 ELSE grown[k]]]
               /\ heap' = heap \cup Range(malloc(done))
               /\ len' = [len EXCEPT ![v6] = l + done]
  BY <1>1, <1>2, <1>3, <1>4, <1>5, <1>6, <1>7 DEF Duplicate, Fail
<1>18. CASE /\ ~(prefix > base.prefix) /\ pc' \in {pc, "fail"}
            /\ \E done \in 0 .. n :
               /\ done < n => pc' = "fail"
               /\ slots' = [slots EXCEPT ![v6] =
                              [k \in DOMAIN grown |->
                                 IF k \in l + 1 .. l + done
                                 THEN duplicate(v6, base, step, prefix, k - l,
                                                malloc(done)[k - l])
                                 ELSE IF k = l + done + 1 /\ done < n
                                 THEN [base EXCEPT !.buf = NULL]
                                 ELSE grown[k]]]
               /\ heap' = heap \cup Range(malloc(done))
               /\ len' = [len EXCEPT ![v6] = l + done]
  <2>1. \E m, array, bufs :
           /\ m \in 0 .. n
           /\ Grows(v6, m, array, bufs) /\ Spaced(v6, step, prefix, m, array)
           /\ m < n => pc' = "fail"
    BY <1>16, <1>18
  <2>2. PICK m, array, bufs :
          /\ m \in 0 .. n
          /\ Grows(v6, m, array, bufs) /\ Spaced(v6, step, prefix, m, array)
          /\ m < n => pc' = "fail"
    BY <2>1
  <2>3. pc' = "parse" => m = n
    BY <1>12, <2>2
  <2>4. QED
    BY <1>1, <1>2, <1>8, <1>18, <1>20, <2>2, <2>3
<1>19. QED
  BY <1>15, <1>17, <1>18

-----------------------------------------------------------------------------
(* The end of the options *)

\* The first n of two arrays are the same chains, in another order.
Permuted(new, old, n) ==
  /\ \A k \in 1 .. n : \E j \in 1 .. n : new[k] = old[j]
  /\ \A j \in 1 .. n : \E k \in 1 .. n : new[k] = old[j]
  /\ \A j, k \in 1 .. n : new[j].buf = new[k].buf => j = k

\* Sorting an array that is terminated behind its n chains.
LEMMA SortedArray ==
  ASSUME Arrays, NEW v6, v6 \in BOOLEAN, slots[v6] # <<>>, NEW n, n = len[v6],
         NEW s, s \in HostChainArray_sort(Store(slots[v6], n + 1, Slot(NULL)))
  PROVE  /\ s \in Seq(SlotOf(v6)) /\ Len(s) = Len(slots[v6])
         /\ Permuted(s, slots[v6], n)
         /\ HostChainArray_nitem(s) = n /\ HostChainArray_sorted(SubSeq(s, 1, n))
<1>1. PICK old : old = slots[v6]
  OBVIOUS
<1>2. PICK array : array = Store(old, n + 1, Slot(NULL))
  OBVIOUS
<1>3. PICK m : m = Len(old)
  OBVIOUS
<1>4. PICK S : S = SlotOf(v6)
  OBVIOUS
<1>5. n \in Nat /\ m \in Nat /\ n < m /\ old \in Seq(S)
  BY <1>1, <1>3, <1>4, ArraysType DEF Arrays, Fits
<1>6. Slot(NULL) \in S
  BY <1>4, BlankSlots
<1>7. /\ array \in Seq(S) /\ Len(array) = m
      /\ \A k \in 1 .. m : array[k] = IF k = n + 1 THEN Slot(NULL) ELSE old[k]
  <2>1. n + 1 \in 1 .. Len(old)
    BY <1>3, <1>5
  <2>2. QED
    BY <1>2, <1>3, <1>5, <1>6, <2>1, ExceptSeq DEF Store
<1>8. ASSUME NEW k \in 1 .. n PROVE array[k] = old[k] /\ array[k] \in S /\ array[k].buf \in heap
  <2>1. k \in 1 .. m /\ k # n + 1
    BY <1>5
  <2>2. array[k] = old[k] /\ array[k] \in S
    BY <1>7, <2>1, ElementOfSeq
  <2>3. old[k].buf \in heap
    BY <1>1 DEF Arrays, Owned
  <2>4. QED
    BY <2>2, <2>3
<1>9. ASSUME NEW j \in 1 .. n, NEW k \in 1 .. n, array[j].buf = array[k].buf PROVE j = k
  <2>1. slots[v6][j].buf = slots[v6][k].buf
    BY <1>1, <1>8, <1>9
  <2>2. QED
    BY <2>1 DEF Arrays, Owned
\* The terminator is the first null buffer.
<1>10. ASSUME NEW t \in Seq(S), Len(t) = m, \A k \in 1 .. n : t[k].buf \in heap,
              t[n + 1] = Slot(NULL)
       PROVE  HostChainArray_nitem(t) = n
  <2> DEFINE nulls == {k \in 0 .. Len(t) - 1 : t[k + 1].buf = NULL}
  <2>1. n \in nulls
    <3>1. n \in 0 .. Len(t) - 1
      BY <1>5, <1>10
    <3>2. QED
      BY <1>10, <3>1 DEF Slot
  <2>2. ASSUME NEW k \in nulls PROVE n <= k
    <3>1. SUFFICES ASSUME ~(n <= k) PROVE FALSE
      OBVIOUS
    <3>2. k \in Nat /\ k + 1 \in 1 .. n
      BY <1>5, <1>10, <3>1
    <3>3. t[k + 1].buf \in Buffers
      BY <1>10, <3>2 DEF Arrays, Owned
    <3>4. t[k + 1].buf # NULL
      BY <3>3 DEF Buffers, NULL
    <3>5. QED
      BY <3>4
  <2>3. nulls \subseteq Int
    BY <1>5, <1>10
  <2>4. HostChainArray_nitem(t) = CHOOSE x \in nulls : \A y \in nulls : x <= y
    BY DEF HostChainArray_nitem, Min
  <2> HIDE DEF nulls
  <2>5. \E x \in nulls : \A y \in nulls : x <= y
    BY <2>1, <2>2
  <2>6. PICK x : x = HostChainArray_nitem(t)
    OBVIOUS
  <2>7. x \in nulls /\ x <= n /\ n <= x
    BY <2>1, <2>2, <2>4, <2>5, <2>6
  <2>8. x \in Int /\ n \in Int
    <3>1. x \in Int
      BY ONLY <2>3, <2>7
    <3>2. QED
      BY <1>5, <3>1
  <2>9. x = n
    BY ONLY <2>7, <2>8
  <2>10. QED
    BY <2>6, <2>9
<1>11. HostChainArray_nitem(array) = n
  <2>1. array[n + 1] = Slot(NULL)
    <3>1. n + 1 \in 1 .. m
      BY <1>5
    <3>2. QED
      BY <1>7, <3>1
  <2>2. QED
    BY <1>7, <1>8, <1>10, <2>1
<1>12. PICK Q : Q = {array[k] : k \in 1 .. n}
  OBVIOUS
<1>13. PICK t \in SetToSeqs(Q) : HostChainArray_sorted(t) /\ s = t \o SubSeq(array, n + 1, Len(array))
  BY <1>1, <1>2, <1>11, <1>12 DEF HostChainArray_sort
\* As many chains as there are buffers.
<1>14. IsFiniteSet(Q) /\ Cardinality(Q) = n
  <2>1. PICK f : f = [k \in 1 .. n |-> array[k]]
    OBVIOUS
  <2>2. f \in [1 .. n -> Q] /\ \A q \in Q : \E k \in 1 .. n : f[k] = q
    BY <1>12, <2>1
  <2>3. \A j, k \in 1 .. n : f[j] = f[k] => j = k
    BY <1>9, <2>1
  <2>4. f \in Bijection(1 .. n, Q)
    BY <2>2, <2>3, Fun_IsBij
  <2>5. ExistsBijection(1 .. n, Q)
    BY <2>4 DEF ExistsBijection
  <2>6. QED
    BY <1>5, <2>5, FS_CountingElements, FS_NatBijection
<1>15. t \in [1 .. n -> Q] /\ \A j, k \in 1 .. n : j # k => t[j] # t[k]
  BY <1>13, <1>14 DEF SetToSeqs
<1>16. \A q \in Q : \E k \in 1 .. n : t[k] = q
  <2>1. \A j, k \in 1 .. n : t[j] = t[k] => j = k
    BY <1>15
  <2>2. t \in Injection(1 .. n, Q)
    BY <1>15, <2>1, Fun_IsInj
  <2>3. IsFiniteSet(1 .. n) /\ Cardinality(1 .. n) = n
    <3>1. 1 \in Int /\ n \in Int
      BY <1>5
    <3>2. IsFiniteSet(1 .. n) /\ Cardinality(1 .. n) = IF 1 > n THEN 0 ELSE n - 1 + 1
      BY <3>1, FS_Interval
    <3>3. QED
      BY <1>5, <3>2
  <2>4. t \in Surjection(1 .. n, Q)
    <3>1. PICK D : D = 1 .. n
      OBVIOUS
    <3>2. t \in Injection(D, Q) /\ Cardinality(D) = Cardinality(Q) /\ IsFiniteSet(Q)
      BY <1>14, <2>2, <2>3, <3>1
    <3>3. Cardinality(D) = Cardinality(Q) <=> t \in Surjection(D, Q)
      BY <3>2, FS_Injection
    <3>4. QED
      BY <3>1, <3>2, <3>3
  <2>5. QED
    BY <2>4 DEF Surjection
<1>17. Q \subseteq S
  BY <1>8, <1>12
<1>18. t \in Seq(S) /\ Len(t) = n
  <2>1. t \in [1 .. n -> S]
    BY <1>15, <1>17
  <2>2. QED
    BY <1>5, <2>1
<1>19. PICK rest : rest = SubSeq(array, n + 1, m)
  OBVIOUS
<1>20. rest \in Seq(S) /\ Len(rest) = m - n /\ rest[1] = Slot(NULL)
  <2>1. n + 1 \in Int /\ m \in Int /\ n + 1 <= m /\ m - (n + 1) + 1 = m - n /\ 1 \in 1 .. m - n
        /\ n + 1 + 1 - 1 = n + 1 /\ n + 1 \in 1 .. m
    BY <1>5
  <2>2. \A i \in n + 1 .. m : array[i] \in S
    <3>1. \A i \in n + 1 .. m : i \in 1 .. m
      BY <1>5
    <3>2. QED
      BY <1>7, <3>1, ElementOfSeq
  <2>3. PICK k : k = n + 1
    OBVIOUS
  <2>4. k \in Int /\ \A i \in k .. m : array[i] \in S
    BY <2>1, <2>2, <2>3
  <2>5. /\ SubSeq(array, k, m) \in Seq(S)
        /\ Len(SubSeq(array, k, m)) = IF k <= m THEN m - k + 1 ELSE 0
        /\ \A i \in 1 .. m - k + 1 : SubSeq(array, k, m)[i] = array[k + i - 1]
    BY <2>1, <2>4, SubSeqProperties
  <2>6. k <= m /\ m - k + 1 = m - n /\ 1 \in 1 .. m - k + 1 /\ k + 1 - 1 = k
    BY <2>1, <2>3
  <2>7. array[k] = Slot(NULL)
    BY <1>7, <2>1, <2>3
  <2>8. QED
    BY <1>19, <2>3, <2>5, <2>6, <2>7
<1>21. s = t \o rest
  BY <1>7, <1>13, <1>19
<1>22. /\ s \in Seq(S) /\ Len(s) = m /\ s[n + 1] = Slot(NULL)
       /\ \A k \in 1 .. n : s[k] = t[k]
  <2>1. /\ s \in Seq(S) /\ Len(s) = Len(t) + Len(rest)
        /\ \A i \in 1 .. Len(t) + Len(rest) : s[i] = IF i <= Len(t) THEN t[i] ELSE rest[i - Len(t)]
    BY <1>18, <1>20, <1>21, ConcatProperties
  <2>2. n + (m - n) = m /\ n + 1 \in 1 .. m /\ ~(n + 1 <= n) /\ n + 1 - n = 1
        /\ \A k \in 1 .. n : k \in 1 .. m /\ k <= n
    BY <1>5
  <2>3. QED
    BY <1>18, <1>20, <2>1, <2>2
<1>23. Permuted(s, old, n)
  <2>1. ASSUME NEW k \in 1 .. n PROVE \E j \in 1 .. n : s[k] = old[j]
    <3>1. s[k] \in Q
      BY <1>15, <1>22
    <3>2. QED
      BY <1>8, <1>12, <3>1
  <2>2. ASSUME NEW j \in 1 .. n PROVE \E k \in 1 .. n : s[k] = old[j]
    <3>1. old[j] \in Q
      BY <1>8, <1>12
    <3>2. PICK k \in 1 .. n : t[k] = old[j]
      BY <1>16, <3>1
    <3>3. QED
      BY <1>22, <3>2
  <2>3. ASSUME NEW j \in 1 .. n, NEW k \in 1 .. n, s[j].buf = s[k].buf PROVE j = k
    <3>1. PICK a \in 1 .. n : s[j] = array[a]
      BY <1>12, <1>15, <1>22
    <3>2. PICK b \in 1 .. n : s[k] = array[b]
      BY <1>12, <1>15, <1>22
    <3>3. a = b
      BY <1>9, <2>3, <3>1, <3>2
    <3>4. t[j] = t[k]
      BY <1>22, <3>1, <3>2, <3>3
    <3>5. QED
      BY <1>15, <3>4
  <2>4. QED
    BY <2>1, <2>2, <2>3 DEF Permuted
<1>24. HostChainArray_nitem(s) = n
  <2>1. \A k \in 1 .. n : s[k].buf \in heap
    <3>1. ASSUME NEW k \in 1 .. n PROVE s[k].buf \in heap
      <4>1. PICK a \in 1 .. n : s[k] = array[a]
        BY <1>12, <1>15, <1>22
      <4>2. QED
        BY <1>8, <4>1
    <3>2. QED
      BY <3>1
  <2>2. QED
    BY <1>10, <1>22, <2>1
<1>25. SubSeq(s, 1, n) = t
  <2>1. /\ SubSeq(s, 1, n) \in Seq(S) /\ Len(SubSeq(s, 1, n)) = n
        /\ \A i \in 1 .. n : SubSeq(s, 1, n)[i] = s[i]
    <3>1. 1 \in Int /\ n \in Int /\ n - 1 + 1 = n /\ (~(1 <= n) => n = 0)
          /\ \A i \in 1 .. n : 1 + i - 1 = i /\ i \in 1 .. Len(s)
      BY <1>5, <1>22
    <3>2. \A i \in 1 .. n : s[i] \in S
      BY <1>22, <3>1, ElementOfSeq
    <3>3. /\ SubSeq(s, 1, n) \in Seq(S)
          /\ Len(SubSeq(s, 1, n)) = IF 1 <= n THEN n - 1 + 1 ELSE 0
          /\ \A i \in 1 .. n - 1 + 1 : SubSeq(s, 1, n)[i] = s[1 + i - 1]
      BY <3>1, <3>2, SubSeqProperties
    <3>4. QED
      BY <3>1, <3>3
  <2>2. QED
    BY <1>18, <1>22, <2>1, SeqEqual
<1>26. QED
  BY <1>1, <1>3, <1>4, <1>13, <1>22, <1>23, <1>24, <1>25

\* The arrays the workers are given: sorted, and with the buffers they had.
LEMMA TerminateIInv ==
  ASSUME IInv, Terminate
  PROVE  IInv'
<1>1. /\ pc = "parse" /\ Arrays
      /\ \A v6 \in BOOLEAN : len[v6] = 0 <=> slots[v6] = <<>>
      /\ UNCHANGED <<len, heap, last_chain_v6, nthread, if_name_set, ret>>
  <2>1. pc = "parse" /\ UNCHANGED <<len, heap, last_chain_v6, nthread, if_name_set, ret>>
    BY DEF Terminate
  <2>2. Arrays
    BY <2>1 DEF IInv, Arrays
  <2>3. \A v6 \in BOOLEAN : len[v6] = 0 <=> slots[v6] = <<>>
    BY <2>1 DEF IInv, Parsing, Fits
  <2>4. QED
    BY <2>1, <2>2, <2>3
<1>2. CASE pc' = "fail" /\ UNCHANGED slots
  BY <1>1, <1>2 DEF IInv, ControlTyped, ArraysTyped, Fits, Routed, Parsing, Owned, ReadyForWorkers
<1>3. ASSUME pc' = "ready", ~(\A v6 \in BOOLEAN : len[v6] = 0),
             slots' = [v6 \in BOOLEAN |-> slots'[v6]],
             \A v6 \in BOOLEAN :
               IF slots[v6] = <<>> THEN slots'[v6] = <<>>
               ELSE slots'[v6] \in HostChainArray_sort(Store(slots[v6], len[v6] + 1, Slot(NULL)))
      PROVE  IInv'
  <2>1. ASSUME NEW v6, v6 \in BOOLEAN
        PROVE  /\ slots'[v6] \in Seq(SlotOf(v6)) /\ Len(slots'[v6]) = Len(slots[v6])
               /\ slots'[v6] = <<>> <=> slots[v6] = <<>>
               /\ Permuted(slots'[v6], slots[v6], len[v6])
               /\ slots[v6] # <<>> =>
                    /\ HostChainArray_nitem(slots'[v6]) = len[v6]
                    /\ HostChainArray_sorted(SubSeq(slots'[v6], 1, len[v6]))
    <3>1. slots[v6] \in Seq(SlotOf(v6))
      BY <2>1, ArraysType DEF Arrays, IInv
    <3>2. CASE slots[v6] = <<>>
      <4>1. slots'[v6] = <<>> /\ len[v6] = 0
        BY <1>1, <1>3, <2>1, <3>2
      <4>2. 1 .. 0 = {}
        OBVIOUS
      <4>3. QED
        BY <3>1, <3>2, <4>1, <4>2 DEF Permuted
    <3>3. CASE slots[v6] # <<>>
      <4>1. PICK s : s = slots'[v6]
        OBVIOUS
      <4>2. PICK n : n = len[v6]
        OBVIOUS
      <4>3. s \in HostChainArray_sort(Store(slots[v6], n + 1, Slot(NULL)))
        BY <1>3, <2>1, <3>3, <4>1, <4>2
      <4>4. /\ s \in Seq(SlotOf(v6)) /\ Len(s) = Len(slots[v6])
            /\ Permuted(s, slots[v6], n)
            /\ HostChainArray_nitem(s) = n /\ HostChainArray_sorted(SubSeq(s, 1, n))
        BY <1>1, <2>1, <3>3, <4>2, <4>3, SortedArray
      <4>5. s # <<>>
        <5>1. Len(slots[v6]) # 0
          BY <3>1, <3>3
        <5>2. QED
          BY <4>4, <5>1
      <4>6. QED
        BY <3>3, <4>1, <4>2, <4>4, <4>5
    <3>4. QED
      BY <3>2, <3>3
  <2>2. \A v6 \in BOOLEAN : len'[v6] = len[v6]
    BY <1>1
  <2>3. ArraysTyped'
    <3>1. len' \in [BOOLEAN -> 0 .. MaxChains]
      BY <1>1 DEF Arrays, ArraysTyped
    <3>2. QED
      BY <1>3, <2>1, <3>1 DEF ArraysTyped, SlotOf
  <2>4. Fits'
    BY <1>1, <2>1, <2>2 DEF Arrays, Fits
  <2>5. Routed'
    <3>1. ASSUME NEW v6, v6 \in BOOLEAN, NEW k \in 1 .. len[v6], slots'[v6][k].prefix > 0
          PROVE  Clear(slots'[v6][k].network, slots'[v6][k].prefix, inet_size(v6))
      <4>1. PICK j \in 1 .. len[v6] : slots'[v6][k] = slots[v6][j]
        BY <2>1, <3>1 DEF Permuted
      <4>2. QED
        BY <1>1, <3>1, <4>1 DEF Arrays, Routed
    <3>2. QED
      BY <2>2, <3>1 DEF Routed
  <2>6. Owned'
    <3>1. heap' = heap /\ heap \subseteq Buffers
      BY <1>1 DEF Arrays, Owned
    <3>2. ASSUME NEW v6, v6 \in BOOLEAN, NEW k \in 1 .. len[v6]
          PROVE  \E j \in 1 .. len[v6] : slots'[v6][k] = slots[v6][j]
      BY <2>1, <3>2 DEF Permuted
    <3>3. ASSUME NEW v6, v6 \in BOOLEAN, NEW k \in 1 .. len[v6] PROVE slots'[v6][k].buf \in heap
      BY <1>1, <3>2, <3>3 DEF Arrays, Owned
    <3>4. ASSUME NEW v, v \in BOOLEAN, NEW w, w \in BOOLEAN,
                 NEW j \in 1 .. len[v], NEW k \in 1 .. len[w],
                 slots'[v][j].buf = slots'[w][k].buf
          PROVE  v = w /\ j = k
      <4>1. PICK a \in 1 .. len[v] : slots'[v][j] = slots[v][a]
        BY <3>2, <3>4
      <4>2. PICK b \in 1 .. len[w] : slots'[w][k] = slots[w][b]
        BY <3>2, <3>4
      <4>3. slots[v][a].buf = slots[w][b].buf
        BY <3>4, <4>1, <4>2
      <4>4. v = w
        BY <1>1, <3>4, <4>3 DEF Arrays, Owned
      <4>5. Permuted(slots'[v], slots[v], len[v])
        BY <2>1, <3>4
      <4>6. j = k
        BY <3>4, <4>4, <4>5 DEF Permuted
      <4>7. QED
        BY <4>4, <4>6
    <3>5. ASSUME NEW b \in heap
          PROVE  \E v6 \in BOOLEAN : \E k \in 1 .. len[v6] : slots'[v6][k].buf = b
      <4>1. PICK v6 \in BOOLEAN : \E k \in 1 .. len[v6] : slots[v6][k].buf = b
        BY <1>1 DEF Arrays, Owned
      <4>2. PICK j \in 1 .. len[v6] : slots[v6][j].buf = b
        BY <4>1
      <4>3. PICK k \in 1 .. len[v6] : slots'[v6][k] = slots[v6][j]
        BY <2>1, <4>2 DEF Permuted
      <4>4. QED
        BY <4>2, <4>3
    <3>6. QED
      BY <1>1, <3>1, <3>3, <3>4, <3>5 DEF Owned
  <2>7. ReadyForWorkers'
    <3>1. len[FALSE] + len[TRUE] > 0
      <4>1. PICK a : a = len[FALSE]
        OBVIOUS
      <4>2. PICK b : b = len[TRUE]
        OBVIOUS
      <4>3. a \in Nat /\ b \in Nat
        BY <1>1, <4>1, <4>2, ArraysType DEF Arrays
      <4>4. a # 0 \/ b # 0
        BY <1>3, <4>1, <4>2
      <4>5. a + b > 0
        BY <4>3, <4>4
      <4>6. QED
        BY <4>1, <4>2, <4>5
    <3>2. len' = len
      BY <1>1
    <3>3. \A v6 \in BOOLEAN :
            IF len[v6] = 0 THEN slots'[v6] = <<>>
            ELSE /\ HostChainArray_nitem(slots'[v6]) = len[v6]
                 /\ HostChainArray_sorted(SubSeq(slots'[v6], 1, len[v6]))
      BY <1>1, <2>1
    <3>4. QED
      BY <3>1, <3>2, <3>3 DEF ReadyForWorkers, HostChainArray_nitem, HostChainArray_sorted
  <2>8. ControlTyped' /\ Parsing'
    BY <1>1, <1>3 DEF IInv, ControlTyped, Parsing
  <2>9. QED
    BY <1>3, <2>3, <2>4, <2>5, <2>6, <2>7, <2>8 DEF IInv
<1>4. \/ pc' = "fail" /\ UNCHANGED slots
      \/ /\ pc' = "ready" /\ ~(\A v6 \in BOOLEAN : len[v6] = 0)
         /\ slots' = [v6 \in BOOLEAN |-> slots'[v6]]
         /\ \A v6 \in BOOLEAN :
              IF slots[v6] = <<>> THEN slots'[v6] = <<>>
              ELSE slots'[v6] \in HostChainArray_sort(Store(slots[v6], len[v6] + 1, Slot(NULL)))
  <2> DEFINE ready(v6) == IF slots[v6] = <<>> THEN {<<>>}
                          ELSE HostChainArray_sort(Store(slots[v6], len[v6] + 1, Slot(NULL)))
  <2>1. ~(slots[FALSE] # <<>> /\ len[FALSE] = 0) /\ ~(slots[TRUE] # <<>> /\ len[TRUE] = 0)
    BY <1>1
  <2>2. \/ pc' = "fail" /\ UNCHANGED slots
        \/ /\ pc' = "ready" /\ ~(\A v6 \in BOOLEAN : len[v6] = 0)
           /\ \E v4s \in ready(FALSE), v6s \in ready(TRUE) :
                slots' = [v6 \in BOOLEAN |-> IF v6 THEN v6s ELSE v4s]
    BY <2>1 DEF Terminate, Fail
  <2>3. ASSUME NEW v4s \in ready(FALSE), NEW v6s \in ready(TRUE),
               slots' = [v6 \in BOOLEAN |-> IF v6 THEN v6s ELSE v4s]
        PROVE  /\ slots' = [v6 \in BOOLEAN |-> slots'[v6]]
               /\ \A v6 \in BOOLEAN : slots'[v6] \in ready(v6)
    <3> HIDE DEF ready
    <3>1. slots'[TRUE] = v6s /\ slots'[FALSE] = v4s
      BY <2>3
    <3>2. QED
      BY <2>3, <3>1
  <2>4. QED
    BY <2>2, <2>3
<1>5. QED
  BY <1>2, <1>3, <1>4

-----------------------------------------------------------------------------
(* The invariant *)

\* The invariant holds before the first option,
LEMMA InitIInv ==
  ASSUME Init
  PROVE  IInv
<1>1. /\ pc = "parse" /\ slots = [v6 \in BOOLEAN |-> <<>>] /\ len = [v6 \in BOOLEAN |-> 0]
      /\ heap = {} /\ last_chain_v6 = FALSE /\ nthread = -1 /\ if_name_set = FALSE /\ ret = "none"
  BY DEF Init
<1>2. \A v6 \in BOOLEAN : slots[v6] = <<>> /\ len[v6] = 0
  BY <1>1
<1>3. 1 .. 0 = {} /\ 0 \in 0 .. MaxChains
  BY NumbersAssumption
<1>4. ArraysTyped
  BY <1>1, <1>2, <1>3 DEF ArraysTyped, SlotOf
<1>5. Fits /\ Routed /\ Owned
  BY <1>1, <1>2, <1>3 DEF Fits, Routed, Owned
<1>6. ControlTyped /\ Parsing /\ ReadyForWorkers
  <2>1. ControlTyped
    <3>1. nthread \in Int /\ nthread = -1
      BY <1>1
    <3>2. last_chain_v6 \in BOOLEAN /\ if_name_set \in BOOLEAN
      BY <1>1
    <3>3. QED
      BY <1>1, <3>1, <3>2, Zenon DEF ControlTyped
  <2>2. Parsing
    BY <1>2 DEF Parsing
  <2>3. ReadyForWorkers
    BY <1>1 DEF ReadyForWorkers
  <2>4. QED
    BY <2>1, <2>2, <2>3
<1>7. QED
  BY <1>1, <1>4, <1>5, <1>6 DEF IInv

\* Where the arrays are not touched.
LEMMA Kept ==
  ASSUME IInv, UNCHANGED arrays, ControlTyped', pc' \in {pc, "fail", "end"},
         pc = "exit" => pc' = "exit"
  PROVE  IInv'
<1>1. slots' = slots /\ len' = len /\ heap' = heap
  BY DEF arrays
<1>2. ArraysTyped'
  BY <1>1 DEF IInv, ArraysTyped, SlotOf
<1>3. Fits'
  BY <1>1 DEF IInv, Fits
<1>4. Routed'
  BY <1>1 DEF IInv, Routed
<1>5. Parsing'
  BY <1>1 DEF IInv, Parsing
<1>6. Owned => Owned'
  BY <1>1 DEF Owned
<1>7. IF pc' = "exit" THEN heap' = {} ELSE Owned'
  <2>1. CASE pc = "exit"
    BY <1>1, <2>1 DEF IInv
  <2>2. CASE pc # "exit"
    BY <1>6, <2>2 DEF IInv
  <2>3. QED
    BY <2>1, <2>2
<1>8. ReadyForWorkers'
  BY <1>1 DEF IInv, ReadyForWorkers
<1>9. QED
  BY <1>2, <1>3, <1>4, <1>5, <1>7, <1>8 DEF IInv

\* An option leaves arrays that fit, or the program ends.
LEMMA GrownIInv ==
  ASSUME IInv, pc = "parse", NEW v6, v6 \in BOOLEAN, NEW m, NEW array, NEW bufs,
         Grows(v6, m, array, bufs), pc' \in {pc, "fail"},
         pc' = "fail" \/ m > 0 \/ len[v6] > 0,
         last_chain_v6' \in BOOLEAN, UNCHANGED <<nthread, if_name_set, ret>>
  PROVE  IInv'
<1>1. Arrays /\ Parsing /\ ControlTyped
  BY DEF IInv, Arrays
<1>2. Arrays'
  BY <1>1, GrownArrays
<1>3. ASSUME pc' = "parse", NEW w \in BOOLEAN, len'[w] = 0 PROVE slots'[w] = <<>>
  <2>1. CASE w = v6
    <3>1. len'[v6] = len[v6] + m /\ len[v6] \in Nat /\ m \in Nat
      <4>1. ArraysTyped
        BY <1>1 DEF Arrays
      <4>2. len'[v6] = len[v6] + m
        BY <4>1, GrownSlots
      <4>3. QED
        BY <4>1, <4>2, ArraysType DEF Grows
    <3>2. m > 0 \/ len[v6] > 0
      BY <1>3
    <3>3. PICK l : l = len[v6]
      OBVIOUS
    <3>4. l \in Nat /\ l + m = 0 /\ (m > 0 \/ l > 0)
      BY <1>3, <2>1, <3>1, <3>2, <3>3
    <3>5. QED
      BY <3>1, <3>4
  <2>2. CASE w # v6
    <3>1. slots'[w] = slots[w] /\ len'[w] = len[w]
      BY <1>1, <2>2, GrownSlots DEF Arrays
    <3>2. QED
      BY <1>1, <1>3, <3>1 DEF Parsing
  <2>3. QED
    BY <2>1, <2>2
<1>4. Parsing'
  BY <1>3 DEF Parsing
<1>5. ControlTyped' /\ ReadyForWorkers' /\ pc' # "exit"
  BY <1>1 DEF ControlTyped, ReadyForWorkers
<1>6. QED
  BY <1>2, <1>4, <1>5 DEF IInv, Arrays

\* after -4 and -6,
LEMMA ChainOptionIInv ==
  ASSUME IInv, NEW v6, v6 \in BOOLEAN, ChainOption(v6)
  PROVE  IInv'
<1>1. pc = "parse" /\ Arrays /\ last_chain_v6 \in BOOLEAN
  BY DEF ChainOption, IInv, Arrays, ControlTyped
<1>2. /\ \/ pc' = "fail" /\ UNCHANGED arrays
         \/ pc' = "fail" /\ \E array, bufs : Grows(v6, 0, array, bufs)
         \/ pc' = pc /\ \E array, bufs : Grows(v6, 1, array, bufs)
      /\ UNCHANGED <<nthread, if_name_set, ret>>
      /\ last_chain_v6' \in {last_chain_v6, v6}
  BY <1>1, ChainOptionGrows
<1>3. CASE pc' = "fail" /\ UNCHANGED arrays
  <2>1. ControlTyped'
    BY <1>1, <1>2, <1>3 DEF IInv, ControlTyped
  <2>2. QED
    BY <1>1, <1>3, <2>1, Kept
<1>4. CASE pc' = "fail" /\ \E array, bufs : Grows(v6, 0, array, bufs)
  BY <1>1, <1>2, <1>4, GrownIInv
<1>5. CASE pc' = pc /\ \E array, bufs : Grows(v6, 1, array, bufs)
  BY <1>1, <1>2, <1>5, GrownIInv
<1>6. QED
  BY <1>2, <1>3, <1>4, <1>5

\* after -E,
LEMMA DuplicateIInv ==
  ASSUME IInv, NEW step \in Steps, NEW prefix \in ShiftPrefixes, NEW n \in Counts,
         Duplicate(step, prefix, n)
  PROVE  IInv'
<1>1. pc = "parse" /\ Arrays /\ last_chain_v6 \in BOOLEAN
  BY DEF Duplicate, IInv, Arrays, ControlTyped
<1>2. /\ \E m, array, bufs : Grows(last_chain_v6, m, array, bufs)
      /\ pc' \in {pc, "fail"} /\ len[last_chain_v6] > 0
      /\ UNCHANGED <<last_chain_v6, nthread, if_name_set, ret>>
  BY <1>1, DuplicateGrows
<1>3. PICK m, array, bufs : Grows(last_chain_v6, m, array, bufs)
  BY <1>2
<1>4. QED
  BY <1>1, <1>2, <1>3, GrownIInv

\* The numbers of threads.
LEMMA ThreadsOptionIInv ==
  ASSUME IInv, NEW arg \in Threads, ThreadsOption(arg)
  PROVE  IInv'
<1>1. /\ pc = "parse" /\ UNCHANGED <<arrays, last_chain_v6, if_name_set, ret>>
      /\ pc' \in {pc, "fail"}
  BY DEF ThreadsOption, Fail
<1>2. nthread' \in Int /\ (pc' = "parse" => nthread' > 0)
  <2>1. PICK res : res = int(arg)
    OBVIOUS
  <2>2. res \in Int /\ MaxThreads \in Int
    <3>1. arg \in Int /\ MaxThreads \in 1 .. INT_MAX
      BY NumbersAssumption
    <3>2. QED
      BY <2>1, <3>1, Wraps, IntType
  <2>3. argtoi(arg, 0, MaxThreads).res = res /\ (argtoi(arg, 0, MaxThreads).ok <=> res \in 0 .. MaxThreads)
    BY <2>1 DEF argtoi
  <2>4. \/ pc' = "fail" /\ nthread' = res
        \/ \E n \in Processors : nthread' = IF n <= 0 THEN 1 ELSE n
        \/ res \in 0 .. MaxThreads /\ res # 0 /\ nthread' = res
    BY <2>3 DEF ThreadsOption, Fail
  <2>5. CASE \E n \in Processors : nthread' = IF n <= 0 THEN 1 ELSE n
    <3>1. PICK n \in Processors : nthread' = IF n <= 0 THEN 1 ELSE n
      BY <2>5
    <3>2. n \in Int
      BY NumbersAssumption
    <3>3. QED
      BY <3>1, <3>2
  <2>6. CASE pc' = "fail" /\ nthread' = res
    BY <2>2, <2>6
  <2>7. CASE res \in 0 .. MaxThreads /\ res # 0 /\ nthread' = res
    BY <2>2, <2>7
  <2>8. QED
    BY <2>4, <2>5, <2>6, <2>7
<1>3. ControlTyped'
  BY <1>1, <1>2 DEF IInv, ControlTyped
<1>4. QED
  BY <1>1, <1>3, Kept

\* The cleanup frees what is owned, and that is everything.
LEMMA CleanupIInv ==
  ASSUME IInv, Cleanup
  PROVE  IInv'
<1>1. /\ pc \in {"fail", "end", "ready"} /\ pc' = "exit"
      /\ UNCHANGED <<slots, len, last_chain_v6, nthread, if_name_set>>
      /\ heap' = heap \ UNION {{slots[v6][k].buf : k \in 1 .. len[v6]} : v6 \in BOOLEAN}
      /\ ret' \in {"success", "failure"}
  BY DEF Cleanup
<1>2. Owned
  BY <1>1 DEF IInv
<1>3. heap' = {}
  <2>1. ASSUME NEW b \in heap PROVE b \notin heap'
    <3>1. PICK v6 \in BOOLEAN : \E k \in 1 .. len[v6] : slots[v6][k].buf = b
      BY <1>2 DEF Owned
    <3>2. PICK k \in 1 .. len[v6] : slots[v6][k].buf = b
      BY <3>1
    <3>3. b \in {slots[v6][j].buf : j \in 1 .. len[v6]}
      BY <3>2
    <3>4. QED
      BY <1>1, <3>3
  <2>2. QED
    BY <1>1, <2>1
<1>4. ControlTyped' /\ Parsing' /\ ReadyForWorkers'
  BY <1>1 DEF IInv, ControlTyped, Parsing, ReadyForWorkers
<1>5. ArraysTyped' /\ Fits' /\ Routed'
  BY <1>1 DEF IInv, ArraysTyped, Fits, Routed
<1>6. QED
  BY <1>1, <1>3, <1>4, <1>5 DEF IInv

\* and after every step.
LEMMA NextIInv ==
  ASSUME IInv, [Next]_vars
  PROVE  IInv'
<1>1. CASE \E v6 \in BOOLEAN : ChainOption(v6)
  BY <1>1, ChainOptionIInv
<1>2. CASE DuplicateRefused
  <2>1. pc = "parse" /\ UNCHANGED arrays /\ pc' \in {pc, "fail", "end"}
    BY <1>2 DEF DuplicateRefused, Fail
  <2>2. ControlTyped'
    BY <1>2, <2>1 DEF DuplicateRefused, Fail, IInv, ControlTyped
  <2>3. QED
    BY <2>1, <2>2, Kept
<1>3. CASE \E step \in Steps, prefix \in ShiftPrefixes, n \in Counts : Duplicate(step, prefix, n)
  BY <1>3, DuplicateIInv
<1>4. CASE \E arg \in Threads : ThreadsOption(arg)
  BY <1>4, ThreadsOptionIInv
<1>5. CASE IfaceOption
  <2>1. pc = "parse" /\ UNCHANGED arrays /\ pc' \in {pc, "fail", "end"}
    BY <1>5 DEF IfaceOption, Fail
  <2>2. ControlTyped'
    BY <1>5, <2>1 DEF IfaceOption, Fail, IInv, ControlTyped
  <2>3. QED
    BY <2>1, <2>2, Kept
<1>6. CASE HelpOption
  <2>1. pc = "parse" /\ UNCHANGED arrays /\ pc' \in {pc, "fail", "end"}
    BY <1>6 DEF HelpOption
  <2>2. ControlTyped'
    BY <1>6, <2>1 DEF HelpOption, IInv, ControlTyped
  <2>3. QED
    BY <2>1, <2>2, Kept
<1>7. CASE Terminate
  BY <1>7, TerminateIInv
<1>8. CASE Cleanup
  BY <1>8, CleanupIInv
<1>9. CASE UNCHANGED vars
  <2>1. ControlTyped'
    BY <1>9 DEF vars, IInv, ControlTyped
  <2>2. QED
    BY <1>9, <2>1, Kept DEF vars, arrays
<1>10. QED
  BY <1>1, <1>2, <1>3, <1>4, <1>5, <1>6, <1>7, <1>8, <1>9 DEF Next

\* Whatever the options, and wherever memory runs out, the chains of an array lie
\* within it and own what is allocated (rdnstun.c:163-351).
THEOREM InductiveInvariant == Spec => []IInv
<1>1. Init => IInv
  BY InitIInv
<1>2. IInv /\ [Next]_vars => IInv'
  BY NextIInv
<1>3. QED
  BY <1>1, <1>2, PTL DEF Spec

-----------------------------------------------------------------------------
\* Lengths, slots and counts stay in their types, and a program that goes on knows
\* how many threads it runs (rdnstun.c:163-351).
THEOREM TypeCorrect == Spec => []TypeOK
<1>1. ASSUME IInv PROVE TypeOK
  <2>1. ControlTyped /\ ArraysTyped
    BY <1>1 DEF IInv
  <2>2. heap \subseteq Buffers
    BY <1>1 DEF IInv, Owned
  <2>3. ASSUME NEW v6, v6 \in BOOLEAN, NEW k \in DOMAIN slots[v6]
        PROVE  /\ slots[v6][k].network \in Addrs(v6) /\ slots[v6][k].prefix \in 0 .. inet_size(v6)
               /\ slots[v6][k].buf \in Buffers \cup {NULL, Stray}
    <3>1. PICK slot : slot = slots[v6][k]
      OBVIOUS
    <3>2. slots[v6] \in Seq(SlotOf(v6)) /\ k \in 1 .. Len(slots[v6])
      BY <2>1, <2>3, ArraysType
    <3>3. slot \in SlotOf(v6)
      BY <3>1, <3>2, ElementOfSeq
    <3>4. QED
      BY <3>1, <3>3 DEF SlotOf
  <2>4. len \in [BOOLEAN -> 0 .. MaxChains]
    BY <2>1 DEF ArraysTyped
  <2>5. /\ pc \in {"parse", "fail", "end", "ready", "exit"}
        /\ last_chain_v6 \in BOOLEAN /\ if_name_set \in BOOLEAN
        /\ nthread \in Int /\ (pc = "ready" => nthread = -1 \/ nthread > 0)
        /\ ret \in {"none", "success", "failure"}
    BY <2>1 DEF ControlTyped
  <2>6. QED
    BY <2>2, <2>3, <2>4, <2>5 DEF TypeOK
<1>2. QED
  BY <1>1, InductiveInvariant, PTL

\* HostChainArray_init and the growth by -E leave a slot for the terminator, and the
\* options write it there (rdnstun.c:203-211, 243-247, 334-351).
THEOREM TerminatorsFit == Spec => []RoomForTerminator
<1>1. ASSUME IInv PROVE RoomForTerminator
  BY <1>1 DEF IInv, Fits, RoomForTerminator
<1>2. QED
  BY <1>1, InductiveInvariant, PTL

\* HostChainArray_destroy_size frees every buffer, once (rdnstun.c:438-454).
THEOREM BuffersFreedOnce == Spec => []BuffersOwned
<1>1. ASSUME IInv PROVE BuffersOwned
  <2>1. CASE pc = "exit"
    BY <1>1, <2>1 DEF IInv, BuffersOwned
  <2>2. CASE pc # "exit"
    <3>1. ArraysTyped /\ Owned
      BY <1>1, <2>2 DEF IInv
    <3>2. Cardinality(heap) = len[FALSE] + len[TRUE]
      BY <3>1, HeapCounts
    <3>3. ASSUME NEW c \in Given(FALSE) \cup Given(TRUE) PROVE c.buf \in heap
      <4>1. PICK v6 \in BOOLEAN : c \in Given(v6)
        BY <3>3
      <4>2. PICK k \in 1 .. len[v6] : c = slots[v6][k]
        BY <4>1 DEF Given
      <4>3. QED
        BY <3>1, <4>2 DEF Owned
    <3>4. ASSUME NEW b \in heap PROVE \E c \in Given(FALSE) \cup Given(TRUE) : c.buf = b
      <4>1. PICK v6 \in BOOLEAN : \E k \in 1 .. len[v6] : slots[v6][k].buf = b
        BY <3>1 DEF Owned
      <4>2. PICK k \in 1 .. len[v6] : slots[v6][k].buf = b
        BY <4>1
      <4>3. slots[v6][k] \in Given(v6)
        BY <4>2 DEF Given
      <4>4. Given(v6) \subseteq Given(FALSE) \cup Given(TRUE)
        BY <4>1
      <4>5. QED
        BY <4>2, <4>3, <4>4
    <3>5. PICK given : given = Given(FALSE) \cup Given(TRUE)
      OBVIOUS
    <3>6. heap = {c.buf : c \in given}
      BY <3>3, <3>4, <3>5
    <3>7. QED
      BY <2>2, <3>2, <3>5, <3>6 DEF BuffersOwned
  <2>3. QED
    BY <2>1, <2>2
<1>2. QED
  BY <1>1, InductiveInvariant, PTL

\* HostChainArray_nitem finds the terminator, and HostChainArray_sort orders what is
\* before it (chain.c:360-371).
THEOREM ArraysReady == Spec => []ReadyForWorkers
<1>1. IInv => ReadyForWorkers
  BY DEF IInv
<1>2. QED
  BY <1>1, InductiveInvariant, PTL

\* Duplicates keep to networks (chain.c:69-80, rdnstun.c:253-270).
THEOREM RoutesRemain == Spec => []RoutesStayNetworks
<1>1. ASSUME IInv PROVE RoutesStayNetworks
  <2>1. ArraysTyped /\ Routed /\ Fits
    BY <1>1 DEF IInv
  <2>2. ASSUME NEW v6, v6 \in BOOLEAN, NEW c \in Given(v6), c.prefix > 0
        PROVE  inet_isnetwork(v6, c.network, c.prefix) = {TRUE}
    <3>1. PICK k \in 1 .. len[v6] : c = slots[v6][k]
      BY <2>2 DEF Given
    <3>2. k \in 1 .. Len(slots[v6])
      <4>1. slots[v6] # <<>>
        BY <2>1, <2>2, <3>1 DEF Fits
      <4>2. len[v6] \in Nat /\ Len(slots[v6]) \in Nat
        BY <2>1, <2>2, ArraysType
      <4>3. len[v6] < Len(slots[v6])
        BY <2>1, <2>2, <4>1 DEF Fits
      <4>4. QED
        BY <4>2, <4>3
    <3>3. c \in SlotOf(v6)
      <4>1. slots[v6] \in Seq(SlotOf(v6))
        BY <2>1, <2>2, ArraysType
      <4>2. QED
        BY <3>1, <3>2, <4>1, ElementOfSeq
    <3>4. c.network \in Nat /\ c.prefix \in Nat \ {0} /\ c.prefix <= inet_size(v6)
      <4>1. c.network \in Addrs(v6) /\ c.prefix \in 0 .. inet_size(v6)
        BY <3>3 DEF SlotOf
      <4>2. QED
        BY <2>2, <4>1, AddrsType, SizeType
    <3>5. inet_isnetwork(v6, c.network, c.prefix) = {Clear(c.network, c.prefix, inet_size(v6))}
      BY <2>2, <3>4, ChecksClear
    <3>6. Clear(c.network, c.prefix, inet_size(v6)) = TRUE
      BY <2>1, <2>2, <3>1 DEF Routed, Clear
    <3>7. QED
      BY <3>5, <3>6
  <2>3. QED
    BY <2>2 DEF RoutesStayNetworks
<1>2. QED
  BY <1>1, InductiveInvariant, PTL

-----------------------------------------------------------------------------
(* The spacing of duplicates *)

\* Integers that an int as wide as an IPv4 address does not tell apart.
Alike(x, y) == \E q \in Int : x = y + q * 2 ^ WordBits

\* As far as the addresses of a version can tell, x blocks are y blocks.
SameBlocks(v6, x, y) == (v6 /\ y = x) \/ (~v6 /\ Alike(x, y))

\* The address that is x blocks of a prefix behind another.
Behind(v6, addr, x, prefix) ==
  (addr + x * 2 ^ (inet_size(v6) - prefix)) % 2 ^ inet_size(v6)

\* What argtoi and the product of -E leave of step * i blocks.
LEMMA ProductWraps ==
  ASSUME NEW step, step \in Int, NEW i, i \in Nat
  PROVE  /\ int(int(step) * i) \in Int
         /\ Alike(step * i, int(int(step) * i))
         /\ i > 0 /\ step * i \in 0 .. INT_MAX => int(int(step) * i) = step * i
<1>1. PICK s : s = int(step)
  OBVIOUS
<1>2. PICK d : d = 2 ^ WordBits
  OBVIOUS
<1>3. d \in Nat \ {0} /\ INT_MAX \in Nat
  BY <1>2, IntType
<1>4. s \in Int /\ (step >= 0 /\ step <= INT_MAX => s = step)
  BY <1>1, Wraps
<1>5. PICK p \in Int : step = s + p * d
  BY <1>1, <1>2, Wraps
<1>6. s * i \in Int /\ step * i \in Int
  BY <1>4
<1>7. int(s * i) \in Int /\ (s * i >= 0 /\ s * i <= INT_MAX => int(s * i) = s * i)
  BY <1>6, Wraps
<1>8. PICK q \in Int : s * i = int(s * i) + q * d
  BY <1>2, <1>6, Wraps
<1>9. Alike(step * i, int(s * i))
  <2>1. PICK c : c = p * i + q
    OBVIOUS
  <2>2. c \in Int
    BY <1>5, <1>8, <2>1
  <2>3. step * i = s * i + (p * i) * d
    BY <1>3, <1>4, <1>5
  <2>4. PICK e : e = p * i
    OBVIOUS
  <2>5. e \in Int /\ c = e + q
    BY <1>5, <2>1, <2>4
  <2>6. c * d = e * d + q * d
    BY <1>3, <1>8, <2>5
  <2>7. step * i = int(s * i) + c * d
    <3>1. e * d \in Int /\ q * d \in Int
      BY <1>3, <1>8, <2>5
    <3>2. QED
      BY <1>6, <1>7, <1>8, <2>3, <2>4, <2>6, <3>1
  <2>8. QED
    BY <1>2, <2>2, <2>7 DEF Alike
<1>10. ASSUME i > 0, step * i \in 0 .. INT_MAX PROVE int(s * i) = step * i
  <2>1. step >= 0 /\ step <= INT_MAX
    <3>1. PICK z : z = step * i
      OBVIOUS
    <3>2. z \in 0 .. INT_MAX
      BY <1>10, <3>1
    <3>3. step >= 0
      <4>1. SUFFICES ASSUME step <= -1 PROVE FALSE
        OBVIOUS
      <4>2. step * i <= -1 * i
        BY <1>10, <4>1
      <4>3. QED
        BY <1>3, <1>10, <3>1, <3>2, <4>2
    <3>4. step <= step * i
      BY <1>10, <3>3
    <3>5. QED
      BY <1>3, <3>1, <3>2, <3>3, <3>4
  <2>2. s = step
    BY <1>4, <2>1
  <2>3. QED
    BY <1>3, <1>6, <1>7, <1>10, <2>2
<1>11. QED
  BY <1>1, <1>7, <1>9, <1>10

\* Blocks that differ by a multiple of the addresses there are move an address alike.
LEMMA ShiftWraps ==
  ASSUME NEW v6, v6 \in BOOLEAN, NEW addr, addr \in Addrs(v6), NEW x, x \in Int,
         NEW y, y \in Int, NEW prefix, prefix \in 0 .. inet_size(v6),
         SameBlocks(v6, x, y)
  PROVE  inet_shift(v6, addr, y, prefix) = Behind(v6, addr, x, prefix)
<1>1. PICK size : size = inet_size(v6)
  OBVIOUS
<1>2. PICK p : p = 2 ^ (size - prefix)
  OBVIOUS
<1>3. PICK e : e = 2 ^ size
  OBVIOUS
<1>4. p \in Nat \ {0} /\ e \in Nat \ {0} /\ addr \in Nat
  <2>1. size \in Widths
    BY <1>1, SizeType
  <2>2. 2 ^ (size - prefix) \in Nat \ {0} /\ 2 ^ size \in Nat \ {0}
    BY <1>1, <2>1, PowerSplit
  <2>3. QED
    BY <1>2, <1>3, <2>2, AddrsType
<1>5. inet_shift(v6, addr, y, prefix) = (addr + y * p) % e
  BY <1>1, <1>2, <1>3 DEF inet_shift
<1>6. (addr + y * p) % e = (addr + x * p) % e
  <2>1. CASE v6 /\ y = x
    BY <2>1
  <2>2. CASE ~v6 /\ Alike(x, y)
    <3>1. e = 2 ^ WordBits
      BY <1>1, <1>3, <2>2 DEF inet_size
    <3>2. PICK q \in Int : x = y + q * e
      BY <2>2, <3>1 DEF Alike
    <3>3. PICK c : c = q * p
      OBVIOUS
    <3>4. PICK z : z = addr + y * p
      OBVIOUS
    <3>5. c \in Int /\ z \in Int
      BY <1>4, <3>3, <3>4
    <3>6. addr + x * p = z + c * e
      <4>1. x * p = y * p + (q * p) * e
        BY <1>4, <3>2
      <4>2. y * p \in Int /\ c * e \in Int
        BY <1>4, <3>5
      <4>3. QED
        BY <1>4, <3>3, <3>4, <4>1, <4>2
    <3>7. Added(z, c, e)
      BY <1>4, <3>5, MultipleAdded
    <3>8. QED
      BY <3>4, <3>6, <3>7 DEF Added
  <2>3. QED
    BY <2>1, <2>2 DEF SameBlocks
<1>7. QED
  BY <1>1, <1>2, <1>3, <1>5, <1>6 DEF Behind

\* A chain that is moved by y blocks lies where x blocks would have brought it.
LEMMA MovedBehind ==
  ASSUME NEW v6, v6 \in BOOLEAN, NEW base, base \in SlotOf(v6), NEW dup,
         NEW x, x \in Int, NEW y, y \in Int, SameBlocks(v6, x, y),
         NEW prefix, prefix \in 0 .. inet_size(v6), Moved(v6, base, y, prefix, dup)
  PROVE  MovedBy(v6, dup, base, x * 2 ^ (inet_size(v6) - prefix))
<1>1. PICK d : d = x * 2 ^ (inet_size(v6) - prefix)
  OBVIOUS
<1>2. ASSUME NEW addr, addr \in Addrs(v6)
      PROVE  inet_shift(v6, addr, y, prefix) = (addr + d) % 2 ^ inet_size(v6)
  <2>1. inet_shift(v6, addr, y, prefix) = Behind(v6, addr, x, prefix)
    BY <1>2, ShiftWraps, Zenon
  <2>2. QED
    BY <1>1, <2>1 DEF Behind
<1>3. dup.network = (base.network + d) % 2 ^ inet_size(v6)
  <2>1. base.network \in Addrs(v6)
    BY DEF SlotOf
  <2>2. QED
    BY <1>2, <2>1 DEF Moved
<1>4. ASSUME NEW k \in 1 .. HostChain_nitem(base)
      PROVE  dup.hosts[k].addr = (base.hosts[k].addr + d) % 2 ^ inet_size(v6)
  <2>1. base.hosts[k].addr \in Addrs(v6)
    <3>1. base.hosts \in Seq([addr : Addrs(v6)])
      BY DEF SlotOf
    <3>2. HostChain_nitem(base) \in 0 .. Len(base.hosts)
      BY <3>1, NitemIsTerminator
    <3>3. Len(base.hosts) \in Nat
      BY <3>1
    <3>4. k \in 1 .. Len(base.hosts)
      BY <3>2, <3>3
    <3>5. base.hosts[k] \in [addr : Addrs(v6)]
      BY <3>1, <3>4, ElementOfSeq
    <3>6. QED
      BY <3>5
  <2>2. QED
    BY <1>2, <2>1 DEF Moved
<1>5. dup.prefix = base.prefix
  BY DEF Moved
<1>6. QED
  BY <1>1, <1>3, <1>4, <1>5 DEF MovedBy

\* "duplicates the previous chain by <n>": each lies as many blocks behind it as -E was
\* asked for (rdnstun.c:222-272).
THEOREM DuplicatesAreSpaced == Spec => DuplicatesSpaced
<1> DEFINE Correct(step, prefix, n) ==
      LET v6 == last_chain_v6
          block == 2 ^ (inet_size(v6) - prefix)
      IN  /\ pc' = "parse" /\ n \in 0 .. INT_MAX => len'[v6] - len[v6] = n
          /\ prefix \in 0 .. INT_MAX =>
               \A i \in Duplicates(v6) :
                 (v6 => step * i \in 0 .. INT_MAX) => LiesBehind(v6, i, step * i * block)
<1>1. ASSUME IInv, NEW step \in Steps, NEW prefix \in ShiftPrefixes, NEW n \in Counts,
             Duplicate(step, prefix, n)
      PROVE  Correct(step, prefix, n)
  <2>1. Arrays /\ last_chain_v6 \in BOOLEAN
    BY <1>1 DEF IInv, Arrays, ControlTyped, Duplicate
  <2>2. PICK v6 : v6 = last_chain_v6
    OBVIOUS
  <2>3. PICK m, array, bufs :
          /\ Grows(v6, m, array, bufs)
          /\ m > 0 => Spaced(v6, int(step), int(prefix), m, array)
          /\ pc' = "parse" => m = int(n)
    BY <1>1, <2>1, <2>2, DuplicateGrows
  <2>4. PICK l : l = len[v6]
    OBVIOUS
  <2>5. /\ slots'[v6] = array /\ len'[v6] = l + m /\ l \in Nat /\ m \in Nat
        /\ v6 \in BOOLEAN /\ l > 0
    <3>1. slots'[v6] = array /\ len'[v6] = len[v6] + m
      BY <2>1, <2>2, <2>3, GrownSlots DEF Arrays
    <3>2. l > 0
      BY <1>1, <2>2, <2>4 DEF Duplicate
    <3>3. QED
      BY <2>1, <2>2, <2>3, <2>4, <3>1, <3>2, ArraysType DEF Arrays, Grows
  <2>6. len'[v6] - len[v6] = m
    BY <2>4, <2>5
  <2>7. step \in Int /\ prefix \in Int /\ n \in Int
    BY <1>1, NumbersAssumption
  <2>8. ASSUME pc' = "parse", n \in 0 .. INT_MAX PROVE len'[v6] - len[v6] = n
    <3>1. n >= 0 /\ n <= INT_MAX
      BY <2>7, <2>8, IntType
    <3>2. int(n) = n
      BY <2>7, <3>1, Wraps
    <3>3. QED
      BY <2>3, <2>6, <2>8, <3>2
  <2>9. ASSUME prefix \in 0 .. INT_MAX, NEW i \in Duplicates(v6),
               v6 => step * i \in 0 .. INT_MAX
        PROVE  LiesBehind(v6, i, step * i * 2 ^ (inet_size(v6) - prefix))
    <3>1. i \in 1 .. m /\ i \in Nat /\ i > 0 /\ m > 0
      BY <2>5, <2>6, <2>9 DEF Duplicates
    <3>2. int(prefix) = prefix
      <4>1. prefix >= 0 /\ prefix <= INT_MAX
        BY <2>7, <2>9, IntType
      <4>2. QED
        BY <2>7, <4>1, Wraps
    <3>3. PICK base : base = slots[v6][l]
      OBVIOUS
    <3>4. PICK x : x = step * i
      OBVIOUS
    <3>5. PICK y : y = int(int(step) * i)
      OBVIOUS
    <3>6. x \in Int /\ y \in Int /\ SameBlocks(v6, x, y)
      <4>1. x \in Int
        BY <2>7, <3>1, <3>4
      <4>2. y \in Int /\ Alike(x, y) /\ (x \in 0 .. INT_MAX => y = x)
        BY <2>7, <3>1, <3>4, <3>5, ProductWraps
      <4>3. v6 => x \in 0 .. INT_MAX
        BY <2>9, <3>4
      <4>4. QED
        BY <2>5, <4>1, <4>2, <4>3 DEF SameBlocks
    <3>7. base \in SlotOf(v6)
      <4>1. slots[v6] \in Seq(SlotOf(v6)) /\ Len(slots[v6]) \in Nat
        BY <2>1, <2>5, ArraysType DEF Arrays
      <4>2. slots[v6] # <<>> => l < Len(slots[v6])
        BY <2>1, <2>4, <2>5 DEF Arrays, Fits
      <4>3. slots[v6] = <<>> => l = 0
        BY <2>1, <2>4, <2>5 DEF Arrays, Fits
      <4>4. l \in 1 .. Len(slots[v6])
        BY <2>5, <4>1, <4>2, <4>3
      <4>5. QED
        BY <3>3, <4>1, <4>4, ElementOfSeq
    <3>8. /\ prefix \in 1 .. base.prefix
          /\ \A j \in 1 .. m : Moved(v6, base, int(int(step) * j), prefix, array[l + j])
      BY <2>3, <2>4, <3>1, <3>2, <3>3 DEF Spaced
    <3>9. PICK dup : dup = array[l + i]
      OBVIOUS
    <3>10. Moved(v6, base, y, prefix, dup)
      BY <3>1, <3>5, <3>8, <3>9
    <3>11. prefix \in 0 .. inet_size(v6)
      <4>1. base.prefix \in 0 .. inet_size(v6) /\ inet_size(v6) \in Nat
        BY <2>5, <3>7, SizeType DEF SlotOf
      <4>2. QED
        BY <3>8, <4>1
    <3>12. MovedBy(v6, dup, base, x * 2 ^ (inet_size(v6) - prefix))
      BY <2>5, <3>6, <3>7, <3>10, <3>11, MovedBehind
    <3>13. base = slots[v6][len[v6]] /\ dup = slots'[v6][len[v6] + i]
      BY <2>4, <2>5, <3>3, <3>9
    <3>14. LiesBehind(v6, i, x * 2 ^ (inet_size(v6) - prefix))
      BY <3>12, <3>13, Zenon DEF LiesBehind
    <3>15. QED
      BY <3>4, <3>14
  <2>10. QED
    BY <2>2, <2>8, <2>9
<1>2. ASSUME IInv
      PROVE  [\A step \in Steps, prefix \in ShiftPrefixes, n \in Counts :
                Duplicate(step, prefix, n) => Correct(step, prefix, n)]_vars
  BY <1>1, <1>2
<1>3. QED
  BY <1>2, InductiveInvariant, PTL DEF DuplicatesSpaced
=============================================================================
