----------------------------- MODULE Traceroute -----------------------------
(***************************************************************************)
(* A traceroute through rdnstun: the probes of one client are spread over  *)
(* the tun queues, each worker answers what its queue holds, and the       *)
(* answers come back in any order, or not at all.  The workers' loop       *)
(* (rdnstun.c:40-116) is composed here with the kernel's queues, the       *)
(* network and the client, none of which are the program's.                *)
(***************************************************************************)
EXTENDS ChainArray, Sequences, FiniteSets, Functions

CONSTANTS Workers,    \* the tun queues, one worker each
          Arrays,     \* the IPv4 chain arrays that may be configured
          Traces,     \* the traces run: destination, and whether by echo requests
          Client,     \* the address they are run from
          Hops,       \* the TTLs probed
          MaxQueue    \* the packets a tun queue holds

\* A trace has one route, and its destination is not where it starts.
ASSUME TracerouteAssumption ==
  /\ Hops \subseteq 1 .. 255 /\ MaxQueue \in Nat \ {0}
  /\ Client \in Addr
  /\ Traces \subseteq [dst : Addr \ {Client}, echo : BOOLEAN]
  /\ \A a \in Arrays : /\ a \in ChainArrays(FALSE)
                       /\ \A t \in Traces : \E c \in Range(a) :
                            {d \in Range(a) : HostChain_in(FALSE, d, t.dst)} = {c}

NoPacket == <<>>
Unanswered == <<>>

VARIABLES v4_chains,   \* the chain array all workers share; there are no IPv6 chains
          client,      \* the trace that runs
          shown,       \* shown[h]: who answered a probe of TTL h, and how
          queue,       \* queue[k]: the packets that wait at tun queue k
          worker,      \* worker[k]: where worker k is in its turn, and the turn's locals
          wire         \* the answers on their way to the client

vars == <<v4_chains, client, shown, queue, worker, wire>>

\* The head of rdnstun()'s loop, where no local variable has a value.
Turn == [at |-> "read", received |-> NoPacket, packet |-> NoPacket, ret |-> 0]

Init ==
  /\ v4_chains \in Arrays
  /\ client \in Traces
  /\ shown = [h \in Hops |-> Unanswered]
  /\ queue = [k \in Workers |-> <<>>]
  /\ worker = [k \in Workers |-> Turn]
  /\ wire = {}

-----------------------------------------------------------------------------
(* The client.  A probe is known by its sequence number, in the last half of *)
(* an ICMP header, or by its port, in the second word of a UDP header.       *)

FirstPort == 33434

EchoData(h) == LET data == [type |-> ICMP_ECHO, code |-> 0, cksum |-> 0, un |-> h]
               IN  [data EXCEPT !.cksum = inet_cksum(DataWords(data))]
UdpData(h) == [type |-> 128, code |-> 7, cksum |-> FirstPort + h, un |-> 65535]

ProbeOf(c, h) ==
  [len |-> 28, quote |-> NoQuote, rest |-> 0, cut |-> 0,
   ip |-> [ttl |-> h, src |-> Client, dst |-> c.dst, len |-> 28, sum |-> 0, other |-> 69,
           proto |-> IF c.echo THEN IPPROTO_ICMP ELSE 17],
   data |-> IF c.echo THEN EchoData(h) ELSE UdpData(h)]

\* The hop an answer is about, taken from what it quotes or echoes.
HopOf(a) ==
  LET data == IF a.quote = NoQuote THEN a.data ELSE a.quote.data
  IN  IF client.echo THEN data.un ELSE data.cksum - FirstPort

\* An answer is taken if it is the client's and arrives undamaged.
Acceptable(a) ==
  /\ a.ip.dst = Client
  /\ Verifies(IpWords(a.ip) + a.ip.sum) /\ Verifies(IcmpWords(a))
  /\ IF a.quote = NoQuote THEN client.echo /\ a.data.type = ICMP_ECHOREPLY
                          ELSE a.quote.ip.dst = client.dst
  /\ HopOf(a) \in Hops

\* An unanswered probe is sent again at any time; the kernel gives it to one of
\* the queues, or drops it when that is full.
Probe(h) ==
  /\ shown[h] = Unanswered
  /\ \E k \in Workers : /\ Len(queue[k]) < MaxQueue
                        /\ queue' = [queue EXCEPT ![k] = Append(@, ProbeOf(client, h))]
  /\ UNCHANGED <<v4_chains, client, shown, worker, wire>>

\* The first answer for a hop is shown; another one, or a damaged one, is not.
Deliver(a) ==
  /\ wire' = wire \ {a}
  /\ shown' = IF Acceptable(a) /\ shown[HopOf(a)] = Unanswered
              THEN [shown EXCEPT ![HopOf(a)] = <<a.ip.src, Kind4(a)>>]
              ELSE shown
  /\ UNCHANGED <<v4_chains, client, queue, worker>>

\* An answer is lost, or its write() had failed.
Lose(a) ==
  /\ wire' = wire \ {a}
  /\ UNCHANGED <<v4_chains, client, shown, queue, worker>>

-----------------------------------------------------------------------------
(* Worker k *)

\* Mutant of Read: the buffer is one for all workers.
ReadShared(k) ==
  /\ worker[k].at = "read" /\ queue[k] # <<>>
  /\ queue' = [queue EXCEPT ![k] = Tail(@)]
  /\ worker' = [j \in Workers |->
                  IF j = k THEN [at |-> "reply", received |-> Head(queue[k]),
                                 packet |-> Head(queue[k]), ret |-> 0]
                  ELSE [worker[j] EXCEPT !.packet = Head(queue[k])]]
  /\ UNCHANGED <<v4_chains, client, shown, wire>>

\* poll() and read(), into a buffer of the turn's own.
Read(k) ==
  /\ worker[k].at = "read" /\ queue[k] # <<>>
  /\ queue' = [queue EXCEPT ![k] = Tail(@)]
  /\ worker' = [worker EXCEPT ![k] = [at |-> "reply", received |-> Head(queue[k]),
                                      packet |-> Head(queue[k]), ret |-> 0]]
  /\ UNCHANGED <<v4_chains, client, shown, wire>>

\* HostChain4Array_reply, for the packets a worker can read, as a relation between
\* chain arrays, packets and replies: worked out once.
Probes == {ProbeOf(c, h) : c \in Traces, h \in Hops}
Replies == {<<a, p, HostChain4Array_reply(a, p)>> : a \in Arrays, p \in Probes}

Reply(k) ==
  /\ worker[k].at = "reply"
  /\ \E t \in Replies :
       /\ t[1] = v4_chains /\ t[2] = worker[k].packet
       /\ worker' = [worker EXCEPT
            ![k].packet = t[3].pkt,
            ![k].ret = t[3].ret,
            ![k].at = IF t[3].ret = 0 /\ t[3].pkt.len > 0 THEN "write" ELSE "continue"]
  /\ UNCHANGED <<v4_chains, client, shown, queue, wire>>

Write(k) ==
  /\ worker[k].at \in {"write", "continue"}
  /\ worker' = [worker EXCEPT ![k] = Turn]
  /\ wire' = wire \cup IF worker[k].at = "write" THEN {worker[k].packet} ELSE {}
  /\ UNCHANGED <<v4_chains, client, shown, queue>>

WorkerStep(k) == Read(k) \/ Reply(k) \/ Write(k)

-----------------------------------------------------------------------------

Next ==
  \/ \E h \in Hops : Probe(h)
  \/ \E a \in wire : Deliver(a) \/ Lose(a)
  \/ \E k \in Workers : WorkerStep(k)

\* Workers are scheduled.  Of the client and the network no more is asked than a
\* traceroute needs: while hops are missing and a queue has room, another probe is
\* sent, and not every answer is lost.
Fairness ==
  /\ \A k \in Workers : WF_vars(WorkerStep(k))
  /\ WF_vars(\E h \in Hops : Probe(h))
  /\ SF_vars(\E a \in wire : Deliver(a))

Spec == Init /\ [][Next]_vars /\ Fairness

-----------------------------------------------------------------------------
(* Properties *)

\* What a trace should show at each hop: the answers of the routers of the chain
\* that its destination belongs to.  Like Replies, a relation worked out once.
Paths == UNION {{<<a, t, h, Path(c, t.dst, h)>> :
                   h \in Hops, c \in {d \in Range(a) : HostChain_in(FALSE, d, t.dst)}} :
                  a \in Arrays, t \in Traces}
PathOf(a, t) == [h \in Hops |-> (CHOOSE p \in Paths : <<p[1], p[2], p[3]>> = <<a, t, h>>)[4]]

\* However probes and answers overtake each other, however many are lost or sent
\* twice, and whichever worker answers them, the trace shows the routers of the
\* route, each at its hop, and in the end all of them.
PT == INSTANCE PathTrace WITH path <- PathOf(v4_chains, client)
ShowsPath == PT!Spec

\* Each worker, whatever the others do meanwhile, is the responder that Responder
\* describes: it shares with them nothing but the chains.
W(k) == INSTANCE Responder WITH
          Configs <- {<<a, <<>>>> : a \in Arrays},
          Packets <- LAMBDA v6, cs : IF v6 THEN {} ELSE Probes,
          Stale <- {}, v4_chains <- v4_chains, v6_chains <- <<>>, ipver <- 4,
          at <- worker[k].at, received <- worker[k].received,
          packet <- worker[k].packet, ret <- worker[k].ret
WorkersRespond ==
  /\ \A k \in Workers : W(k)!Init
  /\ [][\A k \in Workers : [W(k)!Next]_(W(k)!vars)]_vars

TypeOK ==
  /\ v4_chains \in Arrays
  /\ client \in Traces
  /\ \A h \in Hops : shown[h] \in {Unanswered} \cup
                       (Addr \X {"transit", "target", "astray", "other"})
  /\ \A k \in Workers :
       /\ Len(queue[k]) <= MaxQueue
       /\ \A j \in DOMAIN queue[k] : \E h \in Hops : queue[k][j] = ProbeOf(client, h)
       /\ worker[k].at \in {"read", "reply", "write", "continue"}
       /\ worker[k].ret \in {0, 17, 18, 19}
  /\ \A a \in wire : a.ip.src \in Addr /\ a.ip.dst = Client
=============================================================================
