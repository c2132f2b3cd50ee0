--------------------------- MODULE ResolverProofs ---------------------------
(***************************************************************************)
(* For any hosts, names, numbers of tries and any traffic: what the calls  *)
(* of network.c await they await only while they poll (AwaitedOnlyInCall), *)
(* a ping counts only the reply to its own request (PingsHonest), every    *)
(* frame is sent to the right neighbour (FramesReachHop), and a lookup     *)
(* ends with the address of the name it was for (LookupsRight).            *)
(***************************************************************************)
EXTENDS Resolver, TLAPS

(* The fields of the records. *)
Shapes ==
  /\ g_dns = [waiting |-> g_dns.waiting, reply |-> g_dns.reply, ip |-> g_dns.ip,
              id |-> g_dns.id, port |-> g_dns.port]
  /\ g_ping = [waiting |-> g_ping.waiting, reply |-> g_ping.reply, seq |-> g_ping.seq,
               target |-> g_ping.target]
  /\ cmd = [host |-> cmd.host, ip |-> cmd.ip, left |-> cmd.left]
  /\ g_ping_seq \in Nat

Awaited ==
  /\ NothingAwaited
  /\ g_ping.waiting => g_ping.reply = NoReply

AwaitInv == Shapes /\ Awaited
-----------------------------------------------------------------------------
(* An id counted up, which wraps at the number of ids. *)
LEMMA ModFact ==
  ASSUME NEW M \in Nat, NEW k \in Nat, k <= M, M > 1
  PROVE  k % M = IF k = M THEN 0 ELSE k
OBVIOUS

(* What network_init does to what is awaited. *)
LEMMA InitForgets ==
  ASSUME Shapes, NEW ok \in BOOLEAN, network_init(ok)
  PROVE  /\ g_dns' = [waiting |-> g_dns'.waiting, reply |-> g_dns'.reply, ip |-> g_dns'.ip,
                      id |-> g_dns'.id, port |-> g_dns'.port]
         /\ g_ping' = [waiting |-> g_ping'.waiting, reply |-> g_ping'.reply,
                       seq |-> g_ping'.seq, target |-> g_ping'.target]
         /\ g_dns'.waiting => g_dns.waiting
         /\ g_ping'.waiting => g_ping.waiting
         /\ g_ping'.reply = g_ping.reply \/ g_ping'.reply = NoReply
         /\ g_ping'.seq = g_ping.seq /\ g_ping'.target = g_ping.target
         /\ g_arp' = g_arp \/ g_arp' = NoEntry
<1>1. CASE g_dns' = g_dns /\ g_ping' = g_ping /\ g_arp' = g_arp
  BY <1>1 DEF Shapes
<1>2. CASE /\ g_dns' = [waiting |-> FALSE, reply |-> FALSE, ip |-> NoAddress,
                        id |-> 0, port |-> 0]
           /\ g_ping' = [g_ping EXCEPT !.waiting = FALSE, !.reply = NoReply]
           /\ g_arp' = NoEntry
  <2>1. g_ping' = [waiting |-> FALSE, reply |-> NoReply, seq |-> g_ping.seq,
                   target |-> g_ping.target]
    BY <1>2 DEF Shapes
  <2>. QED
    BY <1>2, <2>1
<1>. QED
  BY <1>1, <1>2 DEF network_init

LEMMA InitAwait == Init => AwaitInv
BY DEF Init, AwaitInv, Shapes, Awaited, NothingAwaited, NoCommand

LEMMA HandlerAwait == AwaitInv /\ handle_ethernet_frame => AwaitInv'
<1>. SUFFICES ASSUME AwaitInv, handle_ethernet_frame PROVE AwaitInv'
  OBVIOUS
<1>1. pc' = pc /\ cmd' = cmd /\ g_ping_seq' = g_ping_seq
  BY DEF handle_ethernet_frame, callVars
<1>2. PICK m \in wire : handle_arp_packet(m) \/ handle_dns_payload(m) \/ handle_icmp(m)
  BY DEF handle_ethernet_frame
<1>3. CASE g_dns' = g_dns /\ g_ping' = g_ping
  BY <1>1, <1>3 DEF AwaitInv, Shapes, Awaited, NothingAwaited
<1>4. CASE handle_dns_payload(m)
  <2>1. g_ping' = g_ping
    BY <1>4 DEF handle_dns_payload
  <2>2. \/ g_dns' = [g_dns EXCEPT !.waiting = FALSE]
        \/ g_dns' = [g_dns EXCEPT !.waiting = FALSE, !.reply = TRUE, !.ip = m.ip]
    BY <1>4 DEF handle_dns_payload
  <2>3. /\ g_dns' = [waiting |-> FALSE, reply |-> g_dns'.reply, ip |-> g_dns'.ip,
                     id |-> g_dns'.id, port |-> g_dns'.port]
    BY <2>2 DEF AwaitInv, Shapes
  <2>. QED
    BY <1>1, <2>1, <2>3 DEF AwaitInv, Shapes, Awaited, NothingAwaited
<1>5. CASE g_ping' = [g_ping EXCEPT !.waiting = FALSE, !.reply = m] /\ g_dns' = g_dns
  <2>1. g_ping' = [waiting |-> FALSE, reply |-> m, seq |-> g_ping.seq, target |-> g_ping.target]
    BY <1>5 DEF AwaitInv, Shapes
  <2>. QED
    BY <1>1, <1>5, <2>1 DEF AwaitInv, Shapes, Awaited, NothingAwaited
<1>. QED
  BY <1>2, <1>3, <1>4, <1>5 DEF handle_arp_packet, handle_icmp

LEMMA ResolveAwait == AwaitInv /\ network_dns_resolve_a => AwaitInv'
<1>. SUFFICES ASSUME AwaitInv, network_dns_resolve_a PROVE AwaitInv'
  OBVIOUS
<1>1. g_ping_seq' = g_ping_seq /\ pc = "resolve"
  BY DEF network_dns_resolve_a
<1>2. cmd' = [host |-> cmd'.host, ip |-> cmd'.ip, left |-> cmd'.left]
  BY DEF network_dns_resolve_a, AwaitInv, Shapes, GiveUp, Goto, NoCommand
<1>3. PICK ok \in BOOLEAN : network_init(ok)
  BY DEF network_dns_resolve_a
<1>. QED
  BY <1>1, <1>2, <1>3, InitForgets DEF AwaitInv, Shapes, Awaited, NothingAwaited

LEMMA PingAwait == AwaitInv /\ network_ping_ipv4 => AwaitInv'
<1>. SUFFICES ASSUME AwaitInv, network_ping_ipv4 PROVE AwaitInv'
  OBVIOUS
<1>1. g_ping_seq' = g_ping_seq /\ pc = "ping"
  BY DEF network_ping_ipv4
<1>2. cmd' = [host |-> cmd'.host, ip |-> cmd'.ip, left |-> cmd'.left]
  BY DEF network_ping_ipv4, AwaitInv, Shapes, PingDone, Goto
<1>3. PICK ok \in BOOLEAN : network_init(ok)
  BY DEF network_ping_ipv4
<1>. QED
  BY <1>1, <1>2, <1>3, InitForgets DEF AwaitInv, Shapes, Awaited, NothingAwaited

(* The steps of arp_resolve, of a command's start and end, and of the      *)
(* commands that only look for the card.                                   *)
LEMMA OthersAwait ==
  ASSUME AwaitInv, g_dns' = g_dns, g_ping' = g_ping, g_ping_seq' = g_ping_seq,
         cmd' = [host |-> cmd'.host, ip |-> cmd'.ip, left |-> cmd'.left],
         pc \notin {"dns_poll", "ping_poll"} \/ pc' = pc
  PROVE  AwaitInv'
BY DEF AwaitInv, Shapes, Awaited, NothingAwaited

(* Every step is one of these. *)
LEMMA StepKinds ==
  ASSUME Next
  PROVE  \/ CardOverruns
         \/ handle_ethernet_frame \/ network_dns_resolve_a \/ network_ping_ipv4
         \/ SendQuery \/ DnsPollReturns \/ SendEcho \/ PingPollReturns
         \/ arp_resolve \/ ArpPollReturns \/ EndCommand \/ network_get_info
         \/ \E host \in Targets, n \in Nat : StartCommand(host, n)
<1>1. ASSUME NEW host \in Targets,
             \/ \E n \in PingCounts : cmd_ping(host, n)
             \/ cmd_nslookup(host) \/ cmd_traceroute(host)
             \/ cmd_curl(host) \/ cmd_telnet(host) \/ cmd_wget(host)
      PROVE  \E n \in Nat : StartCommand(host, n)
  BY <1>1, ResolverAssumption
     DEF cmd_ping, cmd_nslookup, cmd_traceroute, cmd_curl, cmd_telnet, cmd_wget
<1>. QED
  BY <1>1 DEF Next, Shell, Call, PollReturns

(* A sequence number stays one. *)
LEMMA SeqTyped == ASSUME NEW k \in Nat PROVE (k + 1) % PING_SEQ_MOD \in Nat
BY ResolverAssumption

LEMMA StepAwait == AwaitInv /\ [Next]_vars => AwaitInv'
<1>. SUFFICES ASSUME AwaitInv, [Next]_vars PROVE AwaitInv'
  OBVIOUS
<1>1. CASE handle_ethernet_frame
  BY <1>1, HandlerAwait
<1>2. CASE network_dns_resolve_a
  BY <1>2, ResolveAwait
<1>3. CASE network_ping_ipv4
  BY <1>3, PingAwait
<1>4. CASE SendQuery
  BY <1>4 DEF AwaitInv, Shapes, Awaited, NothingAwaited, SendQuery, GiveUp, NoCommand,
              Await, pingVars
<1>5. CASE DnsPollReturns
  BY <1>5 DEF AwaitInv, Shapes, Awaited, NothingAwaited, DnsPollReturns, GiveUp, NoCommand,
              StayUntil, DnsTimeout, pingVars
<1>6. CASE SendEcho
  <2>1. g_ping_seq' \in Nat
    BY <1>6, SeqTyped DEF SendEcho, AwaitInv, Shapes
  <2>. QED
    BY <1>6, <2>1 DEF AwaitInv, Shapes, Awaited, NothingAwaited, SendEcho, PingDone, Await,
                      dnsVars
<1>7. CASE PingPollReturns
  BY <1>7 DEF AwaitInv, Shapes, Awaited, NothingAwaited, PingPollReturns, PingDone,
              StayUntil, dnsVars
<1>8. CASE arp_resolve
  <2>1. /\ g_dns' = g_dns /\ g_ping' = g_ping /\ g_ping_seq' = g_ping_seq /\ cmd' = cmd
        /\ pc = "arp"
    BY <1>8 DEF arp_resolve, dnsVars, pingVars, Found, Goto, Attempt
  <2>. QED
    BY <2>1, OthersAwait DEF AwaitInv, Shapes
<1>9. CASE ArpPollReturns
  <2>1. /\ g_dns' = g_dns /\ g_ping' = g_ping /\ g_ping_seq' = g_ping_seq /\ pc = "arp_poll"
        /\ cmd' = [host |-> cmd'.host, ip |-> cmd'.ip, left |-> cmd'.left]
    BY <1>9 DEF ArpPollReturns, dnsVars, pingVars, Found, Goto, Attempt, GiveUp, PingDone,
                NoCommand, StayUntil, AwaitInv, Shapes
  <2>. QED
    BY <2>1, OthersAwait
<1>10. CASE EndCommand
  BY <1>10, OthersAwait DEF EndCommand, dnsVars, pingVars, GiveUp, NoCommand
<1>11. CASE network_get_info
  BY <1>11, OthersAwait DEF network_get_info, dnsVars, pingVars, callVars, AwaitInv, Shapes
<1>12. CASE \E host \in Targets, n \in Nat : StartCommand(host, n)
  BY <1>12, OthersAwait DEF StartCommand, dnsVars, pingVars
<1>13. CASE UNCHANGED vars
  BY <1>13 DEF AwaitInv, Shapes, Awaited, NothingAwaited, vars, dnsVars, pingVars, callVars
<1>14. CASE CardOverruns
  BY <1>14 DEF CardOverruns, AwaitInv, Shapes, Awaited, NothingAwaited, dnsVars, pingVars, callVars
<1>. QED
  BY <1>1, <1>2, <1>3, <1>4, <1>5, <1>6, <1>7, <1>8, <1>9, <1>10, <1>11, <1>12, <1>13, <1>14,
     StepKinds

(* What network_dns_resolve_a and network_ping_ipv4 await they await only  *)
(* while they poll: every exit, the time-out included, takes it back.      *)
THEOREM AwaitedOnlyInCall == Spec => []NothingAwaited
<1>1. AwaitInv => NothingAwaited
  BY DEF AwaitInv, Awaited
<1>. QED
  BY <1>1, InitAwait, StepAwait, PTL DEF Spec

-----------------------------------------------------------------------------
(* Until they come round, the k-th request has a number of its own, every  *)
(* reply on the wire carries that of its request, and a ping's reply is    *)
(* the one to its request.                                                 *)
SeqOf(k) == IF k = PING_SEQ_MOD THEN 0 ELSE k

Numbered ==
  /\ pings \in Nat
  /\ pings < PING_SEQ_MOD => g_ping_seq = SeqOf(pings + 1)
  /\ pings <= PING_SEQ_MOD =>
       \A m \in wire : m.kind = "echo_reply" => m.nth \in 1 .. pings /\ m.seq = SeqOf(m.nth)

PingCall ==
  pc = "ping_poll" =>
    /\ g_ping.target = cmd.ip
    /\ pings <= PING_SEQ_MOD => pings > 0 /\ g_ping.seq = SeqOf(pings)
    /\ g_ping.reply # NoReply =>
         /\ g_ping.reply.ip = g_ping.target
         /\ pings <= PING_SEQ_MOD => g_ping.reply.nth = pings

(* Two requests with one number are one. *)
LEMMA SeqsDiffer ==
  ASSUME NEW i \in 1 .. PING_SEQ_MOD, NEW j \in 1 .. PING_SEQ_MOD, SeqOf(i) = SeqOf(j)
  PROVE  i = j
BY ResolverAssumption DEF SeqOf

(* The number after that of the k-th request. *)
LEMMA SeqNext ==
  ASSUME NEW k \in Nat, k < PING_SEQ_MOD
  PROVE  (SeqOf(k) + 1) % PING_SEQ_MOD = SeqOf(k + 1)
<1>1. SeqOf(k) = k /\ k + 1 \in Nat /\ k + 1 <= PING_SEQ_MOD
  BY ResolverAssumption DEF SeqOf
<1>2. (k + 1) % PING_SEQ_MOD = IF k + 1 = PING_SEQ_MOD THEN 0 ELSE k + 1
  BY <1>1, ModFact, ResolverAssumption
<1>. QED
  BY <1>1, <1>2 DEF SeqOf

LEMMA NumberedInit == Init => Numbered
<1>. SUFFICES ASSUME Init PROVE Numbered
  OBVIOUS
<1>1. pings = 0 /\ g_ping_seq = 1 /\ wire = Noise
  BY DEF Init
<1>2. SeqOf(1) = 1
  BY ResolverAssumption DEF SeqOf
<1>3. \A m \in wire : m.kind # "echo_reply"
  BY <1>1, NoiseAssumption
<1>. QED
  BY <1>1, <1>2, <1>3 DEF Numbered

(* A step that makes no request and adds no echo reply to the wire. *)
LEMMA NumberedSame ==
  ASSUME Numbered, pings' = pings, g_ping_seq' = g_ping_seq,
         \A m \in wire' : m \in wire \/ m.kind # "echo_reply"
  PROVE  Numbered'
BY DEF Numbered

LEMMA NumberedEcho ==
  ASSUME Numbered, SendEcho
  PROVE  Numbered'
<1>1. /\ pings' = pings + 1 /\ pings \in Nat
      /\ g_ping_seq' = (g_ping_seq + 1) % PING_SEQ_MOD
  BY DEF SendEcho, Numbered
<1>. DEFINE reply == [kind |-> "echo_reply", ip |-> cmd.ip, seq |-> g_ping_seq, nth |-> pings']
<1>2. wire' \subseteq wire \cup {reply}
  BY DEF SendEcho, Send
<1>3. reply.nth = pings + 1 /\ reply.seq = g_ping_seq
  BY <1>1
<1>. HIDE DEF reply
<1>4. ASSUME pings + 1 < PING_SEQ_MOD PROVE g_ping_seq' = SeqOf(pings + 2)
  <2>1. g_ping_seq = SeqOf(pings + 1) /\ pings + 1 \in Nat
    BY <1>1, <1>4, ResolverAssumption DEF Numbered
  <2>. QED
    BY <1>1, <1>4, <2>1, SeqNext
<1>5. ASSUME pings + 1 <= PING_SEQ_MOD, NEW m \in wire', m.kind = "echo_reply"
      PROVE  m.nth \in 1 .. (pings + 1) /\ m.seq = SeqOf(m.nth)
  <2>1. pings < PING_SEQ_MOD /\ pings <= PING_SEQ_MOD
    BY <1>1, <1>5, ResolverAssumption
  <2>2. CASE m \in wire
    <3>1. m.nth \in 1 .. pings /\ m.seq = SeqOf(m.nth)
      BY <1>5, <2>1, <2>2 DEF Numbered
    <3>. QED
      BY <1>1, <3>1
  <2>3. CASE m = reply
    <3>1. g_ping_seq = SeqOf(pings + 1)
      BY <2>1 DEF Numbered
    <3>. QED
      BY <1>1, <1>3, <2>3, <3>1
  <2>. QED
    BY <1>2, <1>5, <2>2, <2>3
<1>6. pings' < PING_SEQ_MOD => g_ping_seq' = SeqOf(pings' + 1)
  BY <1>1, <1>4, ResolverAssumption
<1>. QED
  BY <1>1, <1>5, <1>6 DEF Numbered

LEMMA StepNumbered == Numbered /\ [Next]_vars => Numbered'
<1>. SUFFICES ASSUME Numbered, [Next]_vars PROVE Numbered'
  OBVIOUS
<1>1. CASE SendEcho
  BY <1>1, NumberedEcho
<1>2. CASE SendQuery
  BY <1>2, NumberedSame DEF SendQuery, Send, GiveUp, pingVars
<1>3. CASE arp_resolve \/ ArpPollReturns
  BY <1>3, NumberedSame DEF arp_resolve, ArpPollReturns, Found, Attempt, pingVars
<1>4. CASE \/ handle_ethernet_frame \/ network_dns_resolve_a \/ network_ping_ipv4
           \/ DnsPollReturns \/ PingPollReturns \/ EndCommand \/ network_get_info
           \/ CardOverruns \/ UNCHANGED vars
  <2>1. pings' = pings /\ g_ping_seq' = g_ping_seq /\ wire' = wire
    BY <1>4 DEF handle_ethernet_frame, network_dns_resolve_a, network_ping_ipv4, DnsPollReturns,
                PingPollReturns, EndCommand, network_get_info, CardOverruns, vars, pingVars
  <2>. QED
    BY <2>1, NumberedSame
<1>5. CASE \E host \in Targets, n \in Nat : StartCommand(host, n)
  <2>1. pings' = pings /\ g_ping_seq' = g_ping_seq /\ wire' = wire
    BY <1>5 DEF StartCommand, pingVars
  <2>. QED
    BY <2>1, NumberedSame
<1>. QED
  BY <1>1, <1>2, <1>3, <1>4, <1>5, StepKinds

LEMMA StepPing == AwaitInv /\ Numbered /\ PingCall /\ [Next]_vars => PingCall'
<1>. SUFFICES ASSUME AwaitInv, Numbered, PingCall, [Next]_vars, pc' = "ping_poll" PROVE PingCall'
  BY DEF PingCall
<1>1. CASE handle_ethernet_frame
  <2>1. pc' = pc /\ cmd' = cmd /\ pings' = pings
    BY <1>1 DEF handle_ethernet_frame, callVars
  <2>2. PICK m \in wire : handle_arp_packet(m) \/ handle_dns_payload(m) \/ handle_icmp(m)
    BY <1>1 DEF handle_ethernet_frame
  <2>3. CASE g_ping' = g_ping
    BY <2>1, <2>3 DEF PingCall
  <2>4. CASE /\ m.kind = "echo_reply"
             /\ m.seq = g_ping.seq /\ m.ip = g_ping.target
             /\ g_ping' = [g_ping EXCEPT !.waiting = FALSE, !.reply = m]
    <3>1. g_ping' = [waiting |-> FALSE, reply |-> m, seq |-> g_ping.seq, target |-> g_ping.target]
      BY <2>4 DEF AwaitInv, Shapes
    <3>2. ASSUME pings <= PING_SEQ_MOD PROVE m.nth = pings
      <4>1. m.nth \in 1 .. pings /\ m.seq = SeqOf(m.nth) /\ pings \in Nat
        BY <2>4, <3>2 DEF Numbered
      <4>2. pings > 0 /\ g_ping.seq = SeqOf(pings)
        BY <2>1, <3>2 DEF PingCall
      <4>3. m.nth \in 1 .. PING_SEQ_MOD /\ pings \in 1 .. PING_SEQ_MOD
        BY <3>2, <4>1, <4>2, ResolverAssumption
      <4>. QED
        BY <2>4, <4>1, <4>2, <4>3, SeqsDiffer
    <3>. QED
      BY <2>1, <2>4, <3>1, <3>2 DEF PingCall
  <2>. QED
    BY <2>2, <2>3, <2>4 DEF handle_arp_packet, handle_dns_payload, handle_icmp
<1>2. CASE SendEcho
  <2>1. PICK sent \in BOOLEAN :
          /\ g_ping' = [waiting |-> sent, reply |-> NoReply, seq |-> g_ping_seq,
                        target |-> cmd.ip]
          /\ ~sent => PingDone
          /\ sent => Await("ping_poll")
    BY <1>2 DEF SendEcho
  <2>2. cmd' = cmd
    BY <2>1 DEF PingDone, Await
  <2>3. pings' = pings + 1 /\ pings \in Nat
    BY <1>2 DEF SendEcho, Numbered
  <2>4. ASSUME pings' <= PING_SEQ_MOD PROVE pings' > 0 /\ g_ping_seq = SeqOf(pings')
    <3>1. pings < PING_SEQ_MOD /\ pings + 1 > 0
      BY <2>3, <2>4, ResolverAssumption
    <3>. QED
      BY <2>3, <3>1 DEF Numbered
  <2>. QED
    BY <2>1, <2>2, <2>4 DEF PingCall
<1>3. CASE PingPollReturns
  <2>1. pc = "ping_poll" /\ g_ping' = g_ping /\ cmd' = cmd /\ pings' = pings
    BY <1>3 DEF PingPollReturns, PingDone, StayUntil
  <2>. QED
    BY <2>1 DEF PingCall
<1>4. CASE UNCHANGED vars \/ CardOverruns
  BY <1>4 DEF PingCall, vars, CardOverruns, pingVars, callVars
<1>5. CASE network_dns_resolve_a \/ network_ping_ipv4
  BY <1>5 DEF network_dns_resolve_a, network_ping_ipv4, GiveUp, Goto, PingDone
<1>6. CASE SendQuery \/ DnsPollReturns
  BY <1>6 DEF SendQuery, DnsPollReturns, GiveUp, Await, StayUntil, DnsTimeout
<1>7. CASE arp_resolve \/ ArpPollReturns
  BY <1>7 DEF arp_resolve, ArpPollReturns, Found, Goto, Attempt, StayUntil, GiveUp, PingDone
<1>8. CASE EndCommand \/ network_get_info
  BY <1>8 DEF EndCommand, network_get_info, GiveUp, callVars
<1>9. CASE \E host \in Targets, n \in Nat : StartCommand(host, n)
  BY <1>9 DEF StartCommand
<1>. QED
  BY <1>1, <1>2, <1>3, <1>4, <1>5, <1>6, <1>7, <1>8, <1>9, StepKinds

(* handle_icmp takes an echo reply for the answer to a ping only if it is  *)
(* the answer to the request that network_ping_ipv4 is waiting on, for as  *)
(* many requests as g_ping_seq has values.                                 *)
THEOREM PingsHonest == Spec => []PingHonest
<1>1. Init => PingCall
  BY DEF Init, PingCall
<1>2. PingCall => PingHonest
  BY DEF PingCall, PingHonest
<1>. QED
  BY <1>1, <1>2, InitAwait, StepAwait, NumberedInit, StepNumbered, StepPing, PTL DEF Spec

-----------------------------------------------------------------------------
(* Every hardware address that is on the wire or in the cache is that of   *)
(* the address beside it; when a call goes on to send, the entry it found  *)
(* is still there.                                                         *)
WireHonest ==
  \A m \in wire :
    /\ m.kind = "arp_reply" => m.mac = MAC(m.ip)
    /\ m.kind \in {"arp_request", "echo_request"} => m.mac = MAC(route_next_hop(m.ip))

AtHop ==
  /\ pc = "query" => g_arp.ip = route_next_hop(dns_server)
  /\ pc = "echo" => g_arp.ip = route_next_hop(cmd.ip)

HopInv == WireHonest /\ g_arp.mac = MAC(g_arp.ip) /\ AtHop /\ ReachesHop

LEMMA InitHop == Init => HopInv
<1>. SUFFICES ASSUME Init PROVE HopInv
  OBVIOUS
<1>1. \A m \in Noise : m.kind = "arp_reply" => m.mac = MAC(m.ip)
  BY NoiseAssumption DEF route_next_hop
<1>2. WireHonest
  BY <1>1, NoiseAssumption DEF Init, WireHonest
<1>. QED
  BY <1>2 DEF Init, HopInv, AtHop, ReachesHop, NoEntry, MAC

(* A step that leaves the entry alone, or forgets it, and sends nothing. *)
LEMMA NothingSent ==
  ASSUME HopInv, wire' = wire, g_arp' = g_arp \/ g_arp' = NoEntry, out' = NoFrame,
         pc' \notin {"query", "echo"}
  PROVE  HopInv'
<1>1. g_arp'.mac = MAC(g_arp'.ip)
  BY DEF HopInv, NoEntry, MAC
<1>2. WireHonest'
  BY DEF HopInv, WireHonest
<1>. QED
  BY <1>1, <1>2 DEF HopInv, AtHop, ReachesHop

LEMMA StepHop == HopInv /\ [Next]_vars => HopInv'
<1>. SUFFICES ASSUME HopInv, [Next]_vars PROVE HopInv'
  OBVIOUS
<1>1. CASE handle_ethernet_frame
  <2>1. pc' = pc /\ cmd' = cmd /\ wire' = wire /\ pc \notin {"query", "echo"}
    BY <1>1 DEF handle_ethernet_frame, callVars, Polling
  <2>2. PICK m \in wire : handle_arp_packet(m) \/ handle_dns_payload(m) \/ handle_icmp(m)
    BY <1>1 DEF handle_ethernet_frame
  <2>3. CASE out' = NoFrame /\ g_arp' = g_arp
    BY <2>1, <2>3, NothingSent
  <2>4. CASE /\ m.kind = "arp_reply" /\ out' = NoFrame
             /\ g_arp' = [ip |-> m.ip, mac |-> m.mac]
    <3>1. g_arp'.mac = MAC(g_arp'.ip)
      BY <2>4 DEF HopInv, WireHonest
    <3>2. WireHonest'
      BY <2>1 DEF HopInv, WireHonest
    <3>. QED
      BY <2>1, <2>4, <3>1, <3>2 DEF HopInv, AtHop, ReachesHop
  <2>5. CASE /\ m.kind \in {"arp_request", "echo_request"}
             /\ out' = [mac |-> m.mac, dst |-> m.ip] /\ g_arp' = g_arp
    <3>1. out'.mac = MAC(route_next_hop(out'.dst))
      BY <2>5 DEF HopInv, WireHonest
    <3>2. WireHonest'
      BY <2>1 DEF HopInv, WireHonest
    <3>3. ReachesHop'
      BY <3>1 DEF ReachesHop
    <3>. QED
      BY <2>1, <2>5, <3>2, <3>3 DEF HopInv, AtHop
  <2>. QED
    BY <2>2, <2>3, <2>4, <2>5 DEF handle_arp_packet, handle_dns_payload, handle_icmp
<1>2. CASE network_dns_resolve_a
  BY <1>2, NothingSent DEF network_dns_resolve_a, network_init, GiveUp, Goto
<1>3. CASE network_ping_ipv4
  BY <1>3, NothingSent DEF network_ping_ipv4, network_init, PingDone, Goto
<1>4. CASE arp_resolve \/ ArpPollReturns
  <2>1. g_arp' = g_arp /\ out' = NoFrame
    BY <1>4 DEF arp_resolve, ArpPollReturns
  <2>2. CASE Found
    <3>1. wire' = wire /\ cmd' = cmd /\ g_arp.ip = Hop
      BY <2>2 DEF Found, Goto, Cached
    <3>2. pc' = (IF Lookup THEN "query" ELSE "echo")
      BY <2>2 DEF Found, Goto
    <3>3. AtHop'
      BY <2>1, <3>1, <3>2 DEF AtHop, Hop, Lookup
    <3>. QED
      BY <2>1, <3>1, <3>3 DEF HopInv, WireHonest, ReachesHop
  <2>3. CASE \E n : Attempt(n)
    <3>1. /\ wire' = wire \cup {[kind |-> "arp_reply", ip |-> Hop, mac |-> MAC(Hop),
                                 target |-> us]}
          /\ pc' = "arp_poll"
      BY <2>3 DEF Attempt
    <3>2. WireHonest'
      BY <3>1 DEF HopInv, WireHonest
    <3>. QED
      BY <2>1, <3>1, <3>2 DEF HopInv, AtHop, ReachesHop
  <2>4. CASE wire' = wire /\ pc' \notin {"query", "echo"}
    BY <2>1, <2>4, NothingSent
  <2>. QED
    BY <1>4, <2>2, <2>3, <2>4
       DEF arp_resolve, ArpPollReturns, StayUntil, GiveUp, PingDone
<1>5. CASE SendQuery
  <2>1. pc = "query" /\ pc' \notin {"query", "echo"} /\ g_arp' = g_arp
    BY <1>5 DEF SendQuery, GiveUp, Await
  <2>2. CASE out' = NoFrame /\ wire' = wire
    BY <2>1, <2>2, NothingSent
  <2>3. CASE ~(out' = NoFrame /\ wire' = wire)
    <3>1. out' = [mac |-> g_arp.mac, dst |-> dns_server]
      BY <1>5, <2>3 DEF SendQuery, Send
    <3>2. \A m \in wire' : m \in wire \/ m.kind \in {"dns_reply", "dns_error", "dns_short"}
      BY <1>5, <2>3 DEF SendQuery, Send
    <3>3. WireHonest'
      BY <3>2 DEF HopInv, WireHonest
    <3>4. out'.mac = MAC(route_next_hop(out'.dst))
      BY <2>1, <3>1 DEF HopInv, AtHop
    <3>. QED
      BY <2>1, <3>3, <3>4 DEF HopInv, AtHop, ReachesHop
  <2>. QED
    BY <2>2, <2>3
<1>6. CASE SendEcho
  <2>1. pc = "echo" /\ pc' \notin {"query", "echo"} /\ g_arp' = g_arp
    BY <1>6 DEF SendEcho, PingDone, Await
  <2>2. CASE out' = NoFrame /\ wire' = wire
    BY <2>1, <2>2, NothingSent
  <2>3. CASE ~(out' = NoFrame /\ wire' = wire)
    <3>1. out' = [mac |-> g_arp.mac, dst |-> cmd.ip]
      BY <1>6, <2>3 DEF SendEcho, Send
    <3>2. \A m \in wire' : m \in wire \/ m.kind = "echo_reply"
      BY <1>6, <2>3 DEF SendEcho, Send
    <3>3. WireHonest'
      BY <3>2 DEF HopInv, WireHonest
    <3>4. out'.mac = MAC(route_next_hop(out'.dst))
      BY <2>1, <3>1 DEF HopInv, AtHop
    <3>. QED
      BY <2>1, <3>3, <3>4 DEF HopInv, AtHop, ReachesHop
  <2>. QED
    BY <2>2, <2>3
<1>7. CASE DnsPollReturns
  BY <1>7, NothingSent DEF DnsPollReturns, GiveUp, StayUntil, DnsTimeout
<1>8. CASE PingPollReturns
  BY <1>8, NothingSent DEF PingPollReturns, PingDone, StayUntil
<1>9. CASE EndCommand \/ network_get_info
  BY <1>9, NothingSent DEF EndCommand, network_get_info, GiveUp, callVars
<1>10. CASE \E host \in Targets, n \in Nat : StartCommand(host, n)
  BY <1>10, NothingSent DEF StartCommand
<1>11. CASE UNCHANGED vars \/ CardOverruns
  BY <1>11 DEF HopInv, WireHonest, AtHop, ReachesHop, CardOverruns, vars, callVars
<1>. QED
  BY <1>1, <1>2, <1>3, <1>4, <1>5, <1>6, <1>7, <1>8, <1>9, <1>10, <1>11, StepKinds

(* The one cache entry that serves all destinations is never used for a    *)
(* hop that it is not of, whatever ARP replies are handed on meanwhile.    *)
THEOREM FramesReachHop == Spec => []ReachesHop
<1>1. HopInv => ReachesHop
  BY DEF HopInv
<1>. QED
  BY <1>1, InitHop, StepHop, PTL DEF Spec

-----------------------------------------------------------------------------
(* Lookups: how many queries were asked, and the calls that will ask one. *)
Asked == (IF g_dns_next_id = 0 THEN DNS_ID_MOD ELSE g_dns_next_id) - 1

LookingUp ==
  \/ pc \in {"resolve", "query"}
  \/ pc \in {"arp", "arp_poll"} /\ cmd.ip = NoAddress

(* There is an id for every query, and none of them is used twice. *)
Counted ==
  /\ g_dns_next_id \in 0 .. (DNS_ID_MOD - 1)
  /\ commands \in Nat /\ commands <= MAX_COMMANDS
  /\ Asked <= commands
  /\ LookingUp => Asked < commands

AnswersOK ==
  \A m \in wire :
    /\ m.kind \in {"dns_reply", "dns_error"} => m.id \in 1 .. Asked
    /\ m.kind = "dns_error" => m.ip = NoAddress

(* While a call waits, the answers that carry its id are to its name. *)
DnsCall ==
  pc = "dns_poll" =>
    /\ cmd.host \in Names /\ cmd.ip = NoAddress
    /\ g_dns.id = Asked
    /\ g_dns.reply /\ g_dns.ip # NoAddress => g_dns.ip = AddressOf[cmd.host]
    /\ \A m \in wire : m.kind = "dns_reply" /\ m.id = g_dns.id => m.ip = AddressOf[cmd.host]

(* The address is known from the lookup on. *)
Addressed ==
  /\ pc \in {"resolve", "query"} => cmd.ip = NoAddress
  /\ pc \in {"ping", "echo", "ping_poll"} => cmd.ip # NoAddress

LookupInv == Counted /\ AnswersOK /\ DnsCall /\ Addressed /\ RightAnswer

LEMMA InitLookup == Init => LookupInv
BY ResolverAssumption, NoiseAssumption
   DEF Init, LookupInv, Counted, Asked, LookingUp, AnswersOK, DnsCall, Addressed, RightAnswer,
       NoCommand

LEMMA AskedFacts ==
  ASSUME Counted
  PROVE  Asked \in Nat /\ Asked < DNS_ID_MOD
BY ResolverAssumption DEF Counted, Asked

(* The steps that neither ask nor answer. *)
LEMMA SameLookup ==
  ASSUME LookupInv, g_dns_next_id' = g_dns_next_id, commands' = commands,
         \A m \in wire' : m \in wire \/ m.kind \in {"arp_reply", "echo_reply"},
         pc' # "dns_poll", LookingUp' => LookingUp, Addressed', RightAnswer'
  PROVE  LookupInv'
<1>1. Asked' = Asked
  BY DEF Asked
<1>2. Counted'
  BY <1>1 DEF LookupInv, Counted
<1>3. AnswersOK'
  BY <1>1 DEF LookupInv, AnswersOK
<1>. QED
  BY <1>2, <1>3 DEF LookupInv, DnsCall

LEMMA HandlerLookup == Shapes /\ LookupInv /\ handle_ethernet_frame => LookupInv'
<1>. SUFFICES ASSUME Shapes, LookupInv, handle_ethernet_frame PROVE LookupInv'
  OBVIOUS
<1>1. /\ pc' = pc /\ cmd' = cmd /\ wire' = wire /\ commands' = commands
      /\ g_dns_next_id' = g_dns_next_id
  BY DEF handle_ethernet_frame, callVars
<1>2. Asked' = Asked /\ LookingUp' = LookingUp
  BY <1>1 DEF Asked, LookingUp
<1>3. Counted' /\ AnswersOK' /\ Addressed' /\ RightAnswer'
  BY <1>1, <1>2 DEF LookupInv, Counted, AnswersOK, Addressed, RightAnswer
<1>4. DnsCall'
  <2>. SUFFICES ASSUME pc = "dns_poll" PROVE DnsCall'
    BY <1>1 DEF DnsCall
  <2>1. PICK m \in wire : handle_arp_packet(m) \/ handle_dns_payload(m) \/ handle_icmp(m)
    BY DEF handle_ethernet_frame
  <2>2. CASE g_dns' = g_dns
    BY <1>1, <1>2, <2>2 DEF LookupInv, DnsCall
  <2>3. CASE g_dns' = [g_dns EXCEPT !.waiting = FALSE]
    <3>1. g_dns'.id = g_dns.id /\ g_dns'.reply = g_dns.reply /\ g_dns'.ip = g_dns.ip
      BY <2>3 DEF Shapes
    <3>. QED
      BY <1>1, <1>2, <3>1 DEF LookupInv, DnsCall
  <2>4. CASE /\ m.kind \in {"dns_reply", "dns_error"} /\ m.id = g_dns.id
             /\ g_dns' = [g_dns EXCEPT !.waiting = FALSE, !.reply = TRUE, !.ip = m.ip]
    <3>1. g_dns'.id = g_dns.id /\ g_dns'.ip = m.ip
      BY <2>4 DEF Shapes
    <3>2. m.ip # NoAddress => m.ip = AddressOf[cmd.host]
      BY <2>4 DEF LookupInv, DnsCall, AnswersOK
    <3>. QED
      BY <1>1, <1>2, <3>1, <3>2 DEF LookupInv, DnsCall
  <2>. QED
    BY <2>1, <2>2, <2>3, <2>4 DEF handle_arp_packet, handle_dns_payload, handle_icmp
<1>. QED
  BY <1>3, <1>4 DEF LookupInv

LEMMA QueryLookup ==
  ASSUME MAX_COMMANDS < DNS_ID_MOD, Shapes, LookupInv, SendQuery
  PROVE  LookupInv'
<1>1. /\ pc = "query" /\ commands' = commands /\ commands \in Nat /\ commands < DNS_ID_MOD
      /\ Asked \in Nat /\ Asked < commands /\ cmd.ip = NoAddress
      /\ g_dns_next_id \in Nat /\ DNS_ID_MOD \in Nat
  BY AskedFacts, ResolverAssumption DEF SendQuery, LookupInv, Counted, LookingUp, Addressed
<1>2. g_dns_next_id = Asked + 1 /\ g_dns_next_id # 0
  BY <1>1 DEF Asked
<1>3. g_dns_next_id' = (Asked + 2) % DNS_ID_MOD
  BY <1>1, <1>2 DEF SendQuery
<1>4. g_dns_next_id' = IF Asked + 2 = DNS_ID_MOD THEN 0 ELSE Asked + 2
  <2>1. Asked + 2 \in Nat /\ Asked + 2 <= DNS_ID_MOD /\ DNS_ID_MOD > 1
    BY <1>1
  <2>. QED
    BY <1>1, <1>3, <2>1, ModFact
<1>5. Asked' = Asked + 1 /\ g_dns_next_id' \in 0 .. (DNS_ID_MOD - 1)
  BY <1>1, <1>4, ResolverAssumption DEF Asked
<1>6. pc' \in {"idle", "dns_poll"}
  BY DEF SendQuery, GiveUp, Await
<1>7. Counted'
  BY <1>1, <1>5, <1>6 DEF LookupInv, Counted, LookingUp
<1>8. CASE pc' = "idle" /\ cmd' = NoCommand /\ wire' = wire
  <2>1. AnswersOK'
    BY <1>1, <1>5, <1>8 DEF LookupInv, AnswersOK
  <2>. QED
    BY <1>7, <1>8, <2>1 DEF LookupInv, DnsCall, Addressed, RightAnswer, NoCommand
<1>9. CASE pc' # "idle"
  <2>. DEFINE id == Asked + 1
              yes == [kind |-> "dns_reply", id |-> id, port |-> g_dns_src_port,
                      ip |-> AddressOf[cmd.host]]
              no == [kind |-> "dns_error", id |-> id, port |-> g_dns_src_port,
                     ip |-> NoAddress]
              bad == [kind |-> "dns_short", port |-> g_dns_src_port]
  <2>1. /\ cmd.host \in Names /\ cmd' = cmd
        /\ g_dns' = [waiting |-> TRUE, reply |-> FALSE, ip |-> NoAddress,
                     id |-> id, port |-> g_dns_src_port]
        /\ Send([mac |-> g_arp.mac, dst |-> dns_server], {yes, no, bad})
    BY <1>2, <1>9 DEF SendQuery, GiveUp, Await
  <2>2. \A m \in wire' : m \in wire \/ m = yes \/ m = no \/ m = bad
    BY <2>1 DEF Send
  <2>3. \A m \in wire : m.kind \in {"dns_reply", "dns_error"} => m.id \in 1 .. Asked
    BY DEF LookupInv, AnswersOK
  <2>4. AnswersOK'
    <3>. SUFFICES ASSUME NEW m \in wire'
                  PROVE  /\ m.kind \in {"dns_reply", "dns_error"} => m.id \in 1 .. id
                         /\ m.kind = "dns_error" => m.ip = NoAddress
      BY <1>5 DEF AnswersOK
    <3>1. CASE m \in wire
      BY <1>1, <2>3, <3>1 DEF LookupInv, AnswersOK
    <3>2. CASE m = yes \/ m = no \/ m = bad
      BY <1>1, <3>2
    <3>. QED
      BY <2>2, <3>1, <3>2
  <2>5. DnsCall'
    <3>1. ASSUME NEW m \in wire', m.kind = "dns_reply", m.id = id
          PROVE  m.ip = AddressOf[cmd.host]
      <4>1. m \notin wire
        BY <1>1, <2>3, <3>1
      <4>. QED
        BY <2>2, <3>1, <4>1
    <3>. QED
      BY <1>1, <1>5, <2>1, <3>1 DEF DnsCall
  <2>6. Addressed' /\ RightAnswer'
    BY <1>1, <1>6, <1>9, <2>1 DEF Addressed, RightAnswer
  <2>. QED
    BY <1>7, <2>4, <2>5, <2>6 DEF LookupInv
<1>. QED
  BY <1>6, <1>8, <1>9 DEF SendQuery, GiveUp, Await

LEMMA StepLookup ==
  ASSUME MAX_COMMANDS < DNS_ID_MOD, Shapes, LookupInv, [Next]_vars
  PROVE  LookupInv'
<1>1. CASE handle_ethernet_frame
  BY <1>1, HandlerLookup
<1>2. CASE SendQuery
  BY <1>2, QueryLookup
<1>3. CASE network_dns_resolve_a
  <2>1. /\ pc = "resolve" /\ cmd.ip = NoAddress /\ g_dns_next_id' = g_dns_next_id
        /\ commands' = commands /\ wire' = wire /\ LookingUp
    BY <1>3 DEF network_dns_resolve_a, LookupInv, Addressed, LookingUp
  <2>2. \/ pc' = "idle" /\ cmd' = NoCommand
        \/ pc' = "ping" /\ cmd.host = "localhost" /\ cmd' = [cmd EXCEPT !.ip = us]
        \/ pc' = "arp" /\ cmd' = cmd
    BY <1>3 DEF network_dns_resolve_a, GiveUp, Goto
  <2>3. us # NoAddress /\ "localhost" \notin Names
    BY NamesAssumption DEF Address, Subnet
  <2>4. Addressed' /\ RightAnswer' /\ pc' # "dns_poll"
    BY <2>1, <2>2, <2>3 DEF Addressed, RightAnswer, Shapes, NoCommand, LookupInv
  <2>. QED
    BY <2>1, <2>4, SameLookup
<1>4. CASE network_ping_ipv4
  <2>1. /\ pc = "ping" /\ cmd.ip # NoAddress /\ g_dns_next_id' = g_dns_next_id
        /\ commands' = commands /\ wire' = wire
    BY <1>4 DEF network_ping_ipv4, LookupInv, Addressed
  <2>2. pc' \in {"ping", "arp"} /\ cmd'.ip = cmd.ip /\ cmd'.host = cmd.host
    BY <1>4 DEF network_ping_ipv4, PingDone, Goto, Shapes
  <2>3. Addressed' /\ RightAnswer' /\ pc' # "dns_poll" /\ ~LookingUp'
    BY <2>1, <2>2 DEF Addressed, RightAnswer, LookupInv, LookingUp
  <2>. QED
    BY <2>1, <2>3, SameLookup
<1>5. CASE arp_resolve \/ ArpPollReturns
  <2>1. /\ pc \in {"arp", "arp_poll"} /\ g_dns_next_id' = g_dns_next_id
        /\ commands' = commands
    BY <1>5 DEF arp_resolve, ArpPollReturns, dnsVars
  <2>2. \A m \in wire' : m \in wire \/ m.kind \in {"arp_reply", "echo_reply"}
    BY <1>5 DEF arp_resolve, ArpPollReturns, Found, Attempt
  <2>3. \/ cmd' = cmd /\ pc' \in {"arp", "arp_poll"}
        \/ cmd' = cmd /\ pc' = "query" /\ cmd.ip = NoAddress
        \/ cmd' = cmd /\ pc' = "echo" /\ cmd.ip # NoAddress
        \/ pc' = "idle" /\ cmd' = NoCommand
        \/ pc' = "ping" /\ cmd.ip # NoAddress /\ cmd' = [cmd EXCEPT !.left = @ - 1]
    BY <1>5, <2>1 DEF arp_resolve, ArpPollReturns, Found, Attempt, Goto, StayUntil, GiveUp,
                      PingDone, Lookup
  <2>4. /\ Addressed' /\ RightAnswer' /\ pc' # "dns_poll"
        /\ LookingUp' => LookingUp
    BY <2>1, <2>3 DEF Addressed, RightAnswer, Shapes, NoCommand, LookupInv, LookingUp
  <2>. QED
    BY <2>1, <2>2, <2>4, SameLookup
<1>6. CASE DnsPollReturns
  <2>1. /\ pc = "dns_poll" /\ g_dns_next_id' = g_dns_next_id /\ commands' = commands
        /\ wire' = wire
    BY <1>6 DEF DnsPollReturns
  <2>2. CASE pc' = pc /\ cmd' = cmd /\ g_dns' = g_dns
    BY <2>1, <2>2 DEF LookupInv, Counted, Asked, LookingUp, AnswersOK, DnsCall, Addressed,
                      RightAnswer
  <2>3. CASE pc' = "idle" /\ cmd' = NoCommand
    BY <2>1, <2>3, SameLookup DEF LookingUp, Addressed, RightAnswer, NoCommand
  <2>4. CASE /\ g_dns.reply /\ g_dns.ip # NoAddress /\ pc' = "ping"
             /\ cmd' = [cmd EXCEPT !.ip = g_dns.ip]
    <3>1. g_dns.ip = AddressOf[cmd.host]
      BY <2>1, <2>4 DEF LookupInv, DnsCall
    <3>2. cmd'.ip = g_dns.ip /\ cmd'.host = cmd.host
      BY <2>4 DEF Shapes
    <3>. QED
      BY <2>1, <2>4, <3>1, <3>2, SameLookup DEF LookingUp, Addressed, RightAnswer
  <2>. QED
    BY <1>6, <2>2, <2>3, <2>4 DEF DnsPollReturns, StayUntil, GiveUp, DnsTimeout
<1>7. CASE SendEcho \/ PingPollReturns
  <2>1. /\ pc \in {"echo", "ping_poll"} /\ cmd.ip # NoAddress
        /\ g_dns_next_id' = g_dns_next_id /\ commands' = commands
    BY <1>7 DEF SendEcho, PingPollReturns, dnsVars, LookupInv, Addressed
  <2>2. \A m \in wire' : m \in wire \/ m.kind \in {"arp_reply", "echo_reply"}
    BY <1>7 DEF SendEcho, PingPollReturns, Send
  <2>3. pc' \in {"ping", "ping_poll"} /\ cmd'.ip = cmd.ip /\ cmd'.host = cmd.host
    BY <1>7 DEF SendEcho, PingPollReturns, PingDone, Await, StayUntil, Shapes
  <2>4. Addressed' /\ RightAnswer' /\ pc' # "dns_poll" /\ ~LookingUp'
    BY <2>1, <2>3 DEF Addressed, RightAnswer, LookupInv, LookingUp
  <2>. QED
    BY <2>1, <2>2, <2>4, SameLookup
<1>8. CASE EndCommand \/ network_get_info
  <2>1. /\ g_dns_next_id' = g_dns_next_id /\ commands' = commands /\ wire' = wire
        /\ pc' = "idle" /\ (cmd' = NoCommand \/ cmd' = cmd)
    BY <1>8 DEF EndCommand, network_get_info, dnsVars, callVars, GiveUp
  <2>. QED
    BY <2>1, SameLookup DEF LookingUp, Addressed, RightAnswer, NoCommand, LookupInv
<1>9. CASE \E host \in Targets, n \in Nat : StartCommand(host, n)
  <2>1. PICK host \in Targets, n \in Nat : StartCommand(host, n)
    BY <1>9
  <2>2. /\ commands < MAX_COMMANDS /\ commands' = commands + 1 /\ wire' = wire
        /\ g_dns_next_id' = g_dns_next_id
        /\ pc' = IF host \in Address THEN "ping" ELSE "resolve"
        /\ cmd' = [host |-> host, ip |-> IF host \in Address THEN host ELSE NoAddress,
                   left |-> n]
    BY <2>1 DEF StartCommand, dnsVars
  <2>3. Asked' = Asked /\ Asked \in Nat /\ Asked <= commands /\ commands \in Nat
    BY <2>2, AskedFacts DEF Asked, LookupInv, Counted
  <2>4. Counted'
    BY <2>2, <2>3, ResolverAssumption DEF LookupInv, Counted
  <2>5. AnswersOK'
    BY <2>2, <2>3 DEF LookupInv, AnswersOK
  <2>6. Addressed' /\ RightAnswer' /\ DnsCall'
    BY <2>2, NamesAssumption DEF Addressed, RightAnswer, DnsCall
  <2>. QED
    BY <2>4, <2>5, <2>6 DEF LookupInv
<1>10. CASE UNCHANGED vars \/ CardOverruns
  BY <1>10 DEF LookupInv, Counted, Asked, LookingUp, AnswersOK, DnsCall, Addressed,
               RightAnswer, CardOverruns, vars, dnsVars, callVars
<1>. QED
  BY <1>1, <1>2, <1>3, <1>4, <1>5, <1>6, <1>7, <1>8, <1>9, <1>10, StepKinds

(* As long as the ids have not come round (65535 lookups in the code), a   *)
(* command that looked a name up goes on with the address of that name,    *)
(* however late, often and disordered the answers to earlier queries       *)
(* arrive at handle_dns_payload.                                           *)
THEOREM LookupsRight ==
  ASSUME MAX_COMMANDS < DNS_ID_MOD
  PROVE  Spec => []RightAnswer
<1>1. Shapes /\ LookupInv /\ [Next]_vars => LookupInv'
  BY StepLookup
<1>2. LookupInv => RightAnswer
  BY DEF LookupInv
<1>3. AwaitInv => Shapes
  BY DEF AwaitInv
<1>. QED
  BY <1>1, <1>2, <1>3, InitAwait, StepAwait, InitLookup, PTL DEF Spec
=============================================================================
