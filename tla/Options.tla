------------------------------ MODULE Options ------------------------------
(***************************************************************************)
(* main() up to the opening of the tun device (rdnstun.c:163-351): the     *)
(* options build the two chain arrays, which are then terminated and       *)
(* sorted for the workers.  What -4 and -6 make of their argument is       *)
(* ChainInit's business: here HostChain_init fails or yields one of a few  *)
(* chains.  Every allocation may fail.                                     *)
(*                                                                         *)
(* An array is the sequence of its slots, none when it is a null pointer;  *)
(* a slot is a chain [hosts, network, prefix, buf], buf naming its         *)
(* allocation.                                                             *)
(***************************************************************************)
EXTENDS Chain, SequencesExt

CONSTANTS Specs,      \* the chains -4 and -6 may be given, without their buffer
          Steps, ShiftPrefixes, Counts,  \* the numbers read in an argument of -E
          Threads,    \* and in one of -T
          SHRT_MAX,
          Processors, \* what sysconf(_SC_NPROCESSORS_ONLN) may return
          MaxThreads, \* 1024
          MaxChains   \* bound on the chains of one array

\* An int is as wide as a word.
INT_MAX == 2 ^ (WordBits - 1) - 1

ASSUME NumbersAssumption ==
  /\ SHRT_MAX \in 1 .. INT_MAX /\ MaxThreads \in 1 .. INT_MAX
  /\ MaxChains \in Nat
  /\ Steps \cup ShiftPrefixes \cup Counts \cup Threads \cup Processors \subseteq Int

\* The parser lets no other route pass.
ASSUME SpecsAssumption ==
  \A v6 \in BOOLEAN : \A c \in Specs[v6] :
    /\ c \in [hosts : Seq([addr : Addrs(v6)]), network : Addrs(v6), prefix : 0 .. inet_size(v6)]
    /\ TRUE \in inet_isnetwork(v6, c.network, c.prefix)

VARIABLES pc,             \* "parse", "fail", "end", "ready" or "exit"
          slots, len,     \* v4_chains, v6_chains and their lengths, by v6
          heap,           \* the host buffers allocated and not freed
          last_chain_v6,
          nthread,
          if_name_set,
          ret

vars == <<pc, slots, len, heap, last_chain_v6, nthread, if_name_set, ret>>
arrays == <<slots, len, heap>>

\* The values of _buf that are no live buffer: the terminator's null pointer, and
\* whatever realloc or a failed HostChain_init leaves.
NULL == 0
Stray == -1
Slot(buf) == [hosts |-> <<>>, network |-> 0, prefix |-> 0, buf |-> buf]

Buffers == 1 .. 2 * MaxChains

Init ==
  /\ pc = "parse"
  /\ slots = [v6 \in BOOLEAN |-> <<>>]
  /\ len = [v6 \in BOOLEAN |-> 0]
  /\ heap = {}
  /\ last_chain_v6 = FALSE
  /\ nthread = -1
  /\ if_name_set = FALSE
  /\ ret = "none"

-----------------------------------------------------------------------------
(* Memory *)

\* Mutant of irealloc: one slot less than asked for.
irealloc_short(array, n) ==
  [k \in 1 .. n - 1 |-> IF k <= Len(array) THEN array[k] ELSE Slot(Stray)]

\* irealloc: the array gets n slots; when it fails the old array stays.
irealloc(array, n) ==
  [k \in 1 .. n |-> IF k <= Len(array) THEN array[k] ELSE Slot(Stray)]

\* m buffers that malloc may return.
malloc(m) == CHOOSE s \in [1 .. m -> Buffers \ heap] : IsInjective(s)

\* A store behind the array is lost here; RoomForTerminator is that none happens.
Store(array, k, slot) == [array EXCEPT ![k] = slot]

Fail == pc' = "fail"

-----------------------------------------------------------------------------
(* -4 and -6 *)

ChainOption(v6) ==
  LET n     == len[v6]
      grown == irealloc(slots[v6], n + 2)
  IN  /\ pc = "parse"
      /\ n < MaxChains
      /\ \/ /\ Fail
            /\ slots' \in {slots, [slots EXCEPT ![v6] = Store(grown, n + 1, Slot(Stray))]}
            /\ UNCHANGED <<len, heap, last_chain_v6>>
         \/ \E c \in Specs[v6] :
              LET buf   == malloc(1)[1]
                  chain == [hosts |-> c.hosts, network |-> c.network, prefix |-> c.prefix,
                            buf |-> buf]
              IN  /\ slots' = [slots EXCEPT ![v6] = Store(grown, n + 1, chain)]
                  /\ heap' = heap \cup {buf}
                  /\ len' = [len EXCEPT ![v6] = n + 1]
                  /\ last_chain_v6' = v6
                  /\ UNCHANGED pc
      /\ UNCHANGED <<nthread, if_name_set, ret>>

-----------------------------------------------------------------------------
(* Numbers *)

\* What an int keeps of a number.
int(n) == ((n + INT_MAX + 1) % 2 ^ WordBits) - INT_MAX - 1

\* argtoi.  The long that strtol read, 0 in a text that begins with no number, is
\* cut to an int before it is compared, and any text may follow it: strtol never
\* stops at a digit.
argtoi(arg, least, most) == [res |-> int(arg), ok |-> int(arg) \in least .. most]

-----------------------------------------------------------------------------
(* -E <step>/<prefix>,<n>: duplicates of the last chain of last_chain_v6's  *)
(* array, the i-th moved by step * i blocks.                                *)

\* Mutants of duplicate: its hosts stay those of the original; it is moved by
\* blocks of half the size; it is moved from the duplicate before it.
duplicate_shallow(v6, base, step, prefix, i, buf) ==
  HostChain_shift(v6, base, int(step * i), prefix)
duplicate_half(v6, base, step, prefix, i, buf) ==
  [HostChain_shift(v6, HostChain_copy(base), int(step * i), prefix + 1) EXCEPT !.buf = buf]
duplicate_further(v6, base, step, prefix, i, buf) ==
  [HostChain_shift(v6, HostChain_copy(base), int(step * ((i * (i + 1)) \div 2)), prefix)
     EXCEPT !.buf = buf]

\* The product is an int: it wraps (in C its overflow is undefined).
duplicate(v6, base, step, prefix, i, buf) ==
  [HostChain_shift(v6, HostChain_copy(base), int(step * i), prefix) EXCEPT !.buf = buf]

\* The specification is malformed, or there is nothing to duplicate or no memory.
DuplicateRefused ==
  /\ pc = "parse"
  /\ Fail
  /\ UNCHANGED <<arrays, last_chain_v6, nthread, if_name_set, ret>>

\* The array is resized, then the prefix is compared with the chain's, then
\* "done" duplicates are made until n are, or memory runs out.
Duplicate(step_arg, prefix_arg, n_arg) ==
  LET v6     == last_chain_v6
      l      == len[v6]
      step   == argtoi(step_arg, 1, SHRT_MAX).res
      prefix == argtoi(prefix_arg, 1, inet_size(v6)).res
      n      == argtoi(n_arg, 0, INT_MAX).res
      grown  == irealloc(slots[v6], l + n + 1)
      base   == grown[l]
  IN  /\ pc = "parse"
      /\ UNCHANGED <<last_chain_v6, nthread, if_name_set, ret>>
      /\ argtoi(step_arg, 1, SHRT_MAX).ok /\ argtoi(prefix_arg, 1, inet_size(v6)).ok
      /\ argtoi(n_arg, 0, INT_MAX).ok
      /\ l > 0 /\ l + n <= MaxChains
      /\ IF prefix > base.prefix
         THEN /\ Fail
              /\ slots' = [slots EXCEPT ![v6] = grown]
              /\ UNCHANGED <<len, heap>>
         ELSE \E done \in 0 .. n :
                LET bufs == malloc(done)
                    made == [k \in DOMAIN grown |->
                               IF k \in l + 1 .. l + done
                               THEN duplicate(v6, base, step, prefix, k - l, bufs[k - l])
                               ELSE IF k = l + done + 1 /\ done < n
                               THEN [base EXCEPT !.buf = NULL]
                               ELSE grown[k]]
                IN  /\ IF done < n THEN Fail ELSE UNCHANGED pc
                    /\ len' = [len EXCEPT ![v6] = l + done]
                    /\ heap' = heap \cup Range(bufs)
                    /\ slots' = [slots EXCEPT ![v6] = made]

-----------------------------------------------------------------------------
(* The other options *)

\* Mutant of ThreadsOption: whatever sysconf returns is taken.
ThreadsOptionUnchecked(arg) ==
  LET number == argtoi(arg, 0, MaxThreads)
  IN  /\ pc = "parse"
      /\ IF number.res = 0 THEN nthread' \in Processors ELSE nthread' = number.res
      /\ IF number.ok THEN UNCHANGED pc ELSE Fail
      /\ UNCHANGED <<arrays, last_chain_v6, if_name_set, ret>>

ThreadsOption(arg) ==
  LET number == argtoi(arg, 0, MaxThreads)
  IN  /\ pc = "parse"
      /\ CASE ~number.ok -> Fail /\ nthread' = number.res
           [] number.res = 0 ->
                \E n \in Processors : nthread' = (IF n <= 0 THEN 1 ELSE n) /\ UNCHANGED pc
           [] OTHER -> nthread' = number.res /\ UNCHANGED pc
      /\ UNCHANGED <<arrays, last_chain_v6, if_name_set, ret>>

\* A positional argument; a second one, or one that is too long, is refused.
IfaceOption ==
  /\ pc = "parse"
  /\ if_name_set' = TRUE
  /\ \/ Fail
     \/ ~if_name_set /\ UNCHANGED pc
  /\ UNCHANGED <<arrays, last_chain_v6, nthread, ret>>

\* -h, which ends well, and an option getopt does not know.
HelpOption ==
  /\ pc = "parse"
  /\ pc' \in {"end", "fail"}
  /\ UNCHANGED <<arrays, last_chain_v6, nthread, if_name_set, ret>>

-----------------------------------------------------------------------------
(* No option is left *)

\* HostChainArray_sort: qsort of the chains before the terminator, in no
\* particular order where HostChain_compare finds no difference.
HostChainArray_nitem(array) == Min({k \in 0 .. Len(array) - 1 : array[k + 1].buf = NULL})
\* Mutant of HostChainArray_sort: the chains stay in the order they were given.
HostChainArray_unsorted(array) == {array}
HostChainArray_sort(array) ==
  LET n == HostChainArray_nitem(array)
  IN  {s \o SubSeq(array, n + 1, Len(array)) :
         s \in {t \in SetToSeqs({array[k] : k \in 1 .. n}) : HostChainArray_sorted(t)}}

\* The terminator is written and the array sorted.  An array without a chain is
\* freed, and v4_chains set to null whichever of the two it was.
Terminate ==
  LET empty(v6) == slots[v6] # <<>> /\ len[v6] = 0
      ready(v6) == IF slots[v6] = <<>> THEN {<<>>}
                   ELSE HostChainArray_sort(Store(slots[v6], len[v6] + 1, Slot(NULL)))
  IN  /\ pc = "parse"
      /\ IF \A v6 \in BOOLEAN : len[v6] = 0
         THEN Fail /\ UNCHANGED slots
         ELSE /\ pc' = "ready"
              /\ \E v4s \in IF empty(FALSE) \/ empty(TRUE) THEN {<<>>} ELSE ready(FALSE),
                    v6s \in IF empty(TRUE) THEN {slots[TRUE]} ELSE ready(TRUE) :
                   slots' = [v6 \in BOOLEAN |-> IF v6 THEN v6s ELSE v4s]
      /\ UNCHANGED <<len, heap, last_chain_v6, nthread, if_name_set, ret>>

\* HostChainArray_destroy_size and free, for both arrays: also when the workers
\* are done with arrays that were ready.
Cleanup ==
  /\ pc \in {"fail", "end", "ready"}
  /\ ret' \in CASE pc = "fail" -> {"failure"}
                [] pc = "end" -> {"success"}
                [] OTHER -> {"success", "failure"}
  /\ heap' = heap \ UNION {{slots[v6][k].buf : k \in 1 .. len[v6]} : v6 \in BOOLEAN}
  /\ pc' = "exit"
  /\ UNCHANGED <<slots, len, last_chain_v6, nthread, if_name_set>>

Next ==
  \/ \E v6 \in BOOLEAN : ChainOption(v6)
  \/ DuplicateRefused
  \/ \E step \in Steps, prefix \in ShiftPrefixes, n \in Counts : Duplicate(step, prefix, n)
  \/ \E arg \in Threads : ThreadsOption(arg)
  \/ IfaceOption
  \/ HelpOption
  \/ Terminate
  \/ Cleanup

Spec == Init /\ [][Next]_vars

-----------------------------------------------------------------------------
(* Properties *)

Given(v6) == {slots[v6][k] : k \in 1 .. len[v6]}

TypeOK ==
  /\ pc \in {"parse", "fail", "end", "ready", "exit"}
  /\ len \in [BOOLEAN -> 0 .. MaxChains]
  /\ \A v6 \in BOOLEAN : \A k \in DOMAIN slots[v6] :
       /\ slots[v6][k].network \in Addrs(v6) /\ slots[v6][k].prefix \in 0 .. inet_size(v6)
       /\ slots[v6][k].buf \in Buffers \cup {NULL, Stray}
  /\ heap \subseteq Buffers
  /\ last_chain_v6 \in BOOLEAN /\ if_name_set \in BOOLEAN
  /\ nthread \in Int /\ (pc = "ready" => nthread = -1 \/ nthread > 0)
  /\ ret \in {"none", "success", "failure"}

\* Every host buffer belongs to one chain within the length of its array, and to
\* no other: however options are mixed and wherever an allocation fails midway,
\* the cleanup frees each buffer once and leaves none.
BuffersOwned ==
  IF pc = "exit" THEN heap = {}
  ELSE /\ heap = {c.buf : c \in Given(FALSE) \cup Given(TRUE)}
       /\ Cardinality(heap) = len[FALSE] + len[TRUE]

\* An array always has a slot for its terminator behind its chains, after the
\* growth by two of -4 and -6 as after that by n of -E, which counts on it.
RoomForTerminator ==
  \A v6 \in BOOLEAN : slots[v6] # <<>> => len[v6] < Len(slots[v6])

\* What the workers rely on: an array they are given ends at its terminator, not
\* before and not in what realloc left behind, it has a chain, and more specific
\* routes come first.
ReadyForWorkers ==
  pc = "ready" =>
    /\ len[FALSE] + len[TRUE] > 0
    /\ \A v6 \in BOOLEAN :
         IF len[v6] = 0 THEN slots[v6] = <<>>
         ELSE /\ HostChainArray_nitem(slots[v6]) = len[v6]
              /\ HostChainArray_sorted(SubSeq(slots[v6], 1, len[v6]))

\* A duplicate is a chain the parser could have read: its route has no bits
\* behind its prefix, or membcmp would match addresses it does not show.
RoutesStayNetworks ==
  \A v6 \in BOOLEAN : \A c \in Given(v6) :
    c.prefix > 0 => inet_isnetwork(v6, c.network, c.prefix) = {TRUE}

\* One chain lies some distance behind another, its route and its hosts do.
MovedBy(v6, dup, base, distance) ==
  LET moved(addr) == (addr + distance) % 2 ^ inet_size(v6)
  IN  /\ dup.prefix = base.prefix /\ dup.network = moved(base.network)
      /\ \A k \in 1 .. HostChain_nitem(base) : dup.hosts[k].addr = moved(base.hosts[k].addr)

\* The chains that a step adds to an array, and that the i-th of them lies some
\* distance behind the one it comes after.
Duplicates(v6) == 1 .. len'[v6] - len[v6]
LiesBehind(v6, i, distance) ==
  MovedBy(v6, slots'[v6][len[v6] + i], slots[v6][len[v6]], distance)

\* -E <step>/<prefix>,<n> either fails or makes n duplicates, and the i-th lies
\* step * i blocks of that prefix behind the chain, whatever an option, a failure or
\* an int that is too short did to the arguments (rdnstun.c:222-272): a number of
\* blocks, since only they keep its route a route.  IPv4 addresses wrap as the int
\* does; an IPv6 duplicate is where it should be as long as the product fits.
DuplicatesSpaced ==
  [][\A step \in Steps, prefix \in ShiftPrefixes, n \in Counts :
       Duplicate(step, prefix, n) =>
         LET v6 == last_chain_v6
             block == 2 ^ (inet_size(v6) - prefix)
         IN  /\ pc' = "parse" /\ n \in 0 .. INT_MAX => len'[v6] - len[v6] = n
             /\ prefix \in 0 .. INT_MAX =>
                  \A i \in Duplicates(v6) :
                    (v6 => step * i \in 0 .. INT_MAX) => LiesBehind(v6, i, step * i * block)]_vars

\* "duplicates the previous chain by <n>, with interval of <step>*2^<prefix>. All
\* route and hosts will be shifted" (rdnstun.c:152-153), for arguments within their
\* limits whose product fits an int.
DocumentedInterval ==
  [][\A step \in Steps \cap 1 .. SHRT_MAX, prefix \in ShiftPrefixes, n \in Counts :
       Duplicate(step, prefix, n) =>
         \A i \in Duplicates(last_chain_v6) :
           step * i <= INT_MAX => LiesBehind(last_chain_v6, i, i * step * 2 ^ prefix)]_vars
=============================================================================
