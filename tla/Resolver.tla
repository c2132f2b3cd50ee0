------------------------------ MODULE Resolver ------------------------------
(***************************************************************************)
(* Address resolution, name lookup and ping of src/drivers/network.c, and  *)
(* the commands of the shell that use them (ping, nslookup, traceroute,    *)
(* curl, telnet, wget, ifconfig, netstat).                                 *)
(*                                                                         *)
(* Everything runs in the shell's one thread: a call sends a frame, then   *)
(* polls the card a number of times, and gives up.  Each poll hands on any *)
(* number of frames (NetRing) to handlers that keep what came in globals;  *)
(* the call looks at these globals after the poll.  The network (external) *)
(* is a set of messages that only grows: each may be handed on late, more  *)
(* than once, in any order, or never.  It is honest: an ARP reply carries  *)
(* the sender's own address, and only the name server answers queries.     *)
(* A poll returns when NetRing's driver has emptied the ring.  Its loop    *)
(* has no bound of its own: after an overrun of the card it may go round   *)
(* over old pages, and the poll then need not return (overrun).            *)
(***************************************************************************)
EXTENDS Integers, FiniteSets

CONSTANTS
  us, gateway, dns_server,  \* g_ip, g_gateway, g_dns_server
  Near, Far,                \* the other addresses, inside and outside the subnet
  Names, AddressOf,         \* host names, and the address each has
  Noise,                    \* messages nobody asked for
  ARP_TRIES, ARP_LOOPS, REPLY_LOOPS,
  DNS_ID_MOD, DNS_PORTS,    \* how many ids and source ports there are
  PING_SEQ_MOD,             \* how many ping sequence numbers (uint16_t) there are
  Targets,                  \* what a command may be given: names, addresses, others
  PingCounts,               \* the counts that ping is given
  PROBES,                   \* the pings of traceroute (3 in the code)
  MAX_COMMANDS

ASSUME ResolverAssumption ==
  /\ AddressOf \in [Names -> Near \cup Far]
  /\ {ARP_TRIES, ARP_LOOPS, REPLY_LOOPS, DNS_PORTS, MAX_COMMANDS} \subseteq Nat \ {0}
  /\ DNS_ID_MOD \in Nat /\ DNS_ID_MOD > 1
  /\ PING_SEQ_MOD \in Nat /\ PING_SEQ_MOD > 1
  /\ PingCounts \subseteq Nat /\ PROBES \in Nat

VARIABLES
  g_probe_done, g_present, g_ready,
  g_arp,                    \* the one cache entry, NoEntry unless g_arp_valid
  g_dns, g_dns_next_id, g_dns_src_port,
  g_ping, g_ping_seq,       \* reply is the message whose TTL and size were kept
  pings,                    \* how many echo requests were made
  wire,                     \* every message that has been sent to us
  out,                      \* the frame the last step sent, if it sent one
  pc, wait,                 \* where the call is, and its loop counters
  cmd, commands,            \* the command being run, and how many were
  overrun                   \* the card has reported an overrun

netVars == <<g_probe_done, g_present, g_ready>>
dnsVars == <<g_dns, g_dns_next_id, g_dns_src_port>>
pingVars == <<g_ping, g_ping_seq, pings>>
callVars == <<pc, wait, cmd, commands>>
vars == <<netVars, g_arp, dnsVars, pingVars, wire, out, callVars, overrun>>

NoAddress == "none"
NoEntry == [ip |-> NoAddress, mac |-> <<NoAddress>>]
NoWait == [attempt |-> 0, loops |-> 0]
NoReply == [kind |-> "none"]
NoFrame == [mac |-> <<NoAddress>>, dst |-> NoAddress]
NoCommand == [host |-> NoAddress, ip |-> NoAddress, left |-> 0]

Subnet == {us, gateway, dns_server} \cup Near
Address == Subnet \cup Far
MAC(ip) == <<ip>>           \* the hardware address of a neighbour

(* The hop that frames for an address are sent to, and come from. *)
route_next_hop(ip) == IF ip \in Subnet THEN ip ELSE gateway

(* A host that is an address, or localhost, is never looked up. *)
ASSUME NamesAssumption ==
  NoAddress \notin Address /\ Names \cap (Address \cup {"localhost"}) = {}

(* Nobody gives another's hardware address for his own, a frame from       *)
(* outside the subnet comes from the gateway, and only the name server     *)
(* sends what looks like an answer to a query.                             *)
ASSUME NoiseAssumption ==
  \A m \in Noise :
    /\ m.kind \in {"arp_reply", "arp_request", "echo_request"}
    /\ m.kind # "echo_request" => m.ip \in Subnet
    /\ m.mac = MAC(route_next_hop(m.ip))

Init ==
  /\ g_probe_done = FALSE /\ g_present = FALSE /\ g_ready = FALSE
  /\ g_arp = NoEntry
  /\ g_dns = [waiting |-> FALSE, reply |-> FALSE, ip |-> NoAddress, id |-> 0, port |-> 0]
  /\ g_dns_next_id = 1 /\ g_dns_src_port = 0
  /\ g_ping = [waiting |-> FALSE, reply |-> NoReply, seq |-> 0, target |-> NoAddress]
  /\ g_ping_seq = 1 /\ pings = 0
  /\ wire = Noise /\ out = NoFrame
  /\ pc = "idle" /\ wait = NoWait
  /\ cmd = NoCommand /\ commands = 0 /\ overrun = FALSE

-----------------------------------------------------------------------------
(* What the card hands on while a call polls it. *)
Polling == {"arp_poll", "dns_poll", "ping_poll"}

(* A reply for us replaces the entry, whoever it is from; a request for    *)
(* our address is answered.                                                *)
handle_arp_packet(m) ==
  \/ /\ m.kind = "arp_reply" /\ m.target = us
     /\ g_arp' = [ip |-> m.ip, mac |-> m.mac]
     /\ out' = NoFrame
     /\ UNCHANGED <<g_dns, g_ping>>
  \/ /\ m.kind = "arp_request" /\ m.target = us
     /\ out' = [mac |-> m.mac, dst |-> m.ip]
     /\ UNCHANGED <<g_arp, g_dns, g_ping>>

(* Mutant: the id is not compared. *)
DnsAnyId(m) ==
  /\ m.kind \in {"dns_reply", "dns_error"}
  /\ g_dns.waiting /\ m.port = g_dns.port
  /\ g_dns' = [g_dns EXCEPT !.waiting = FALSE, !.reply = TRUE, !.ip = m.ip]
  /\ out' = NoFrame
  /\ UNCHANGED <<g_arp, g_ping>>

(* A packet for the awaited port that is too short for a header ends the   *)
(* wait without a reply.  One with the awaited id and the reply bit ends   *)
(* it with the first A record, or with none: an error code, no such record *)
(* or a question that cannot be skipped.                                   *)
handle_dns_payload(m) ==
  /\ m.kind \in {"dns_short", "dns_reply", "dns_error"}
  /\ g_dns.waiting /\ m.port = g_dns.port
  /\ \/ /\ m.kind = "dns_short"
        /\ g_dns' = [g_dns EXCEPT !.waiting = FALSE]
     \/ /\ m.kind \in {"dns_reply", "dns_error"}
        /\ m.id = g_dns.id
        /\ g_dns' = [g_dns EXCEPT !.waiting = FALSE, !.reply = TRUE, !.ip = m.ip]
  /\ out' = NoFrame
  /\ UNCHANGED <<g_arp, g_ping>>

(* Mutant: any echo reply of the target will do. *)
IcmpAnySeq(m) ==
  /\ m.kind = "echo_reply"
  /\ g_ping.waiting /\ m.ip = g_ping.target
  /\ g_ping' = [g_ping EXCEPT !.waiting = FALSE, !.reply = m]
  /\ out' = NoFrame
  /\ UNCHANGED <<g_arp, g_dns>>

(* An echo request is answered to the hop it came from; an echo reply is   *)
(* taken if it is the one that is awaited.                                 *)
handle_icmp(m) ==
  \/ /\ m.kind = "echo_request"
     /\ out' = [mac |-> m.mac, dst |-> m.ip]
     /\ UNCHANGED <<g_arp, g_dns, g_ping>>
  \/ /\ m.kind = "echo_reply"
     /\ g_ping.waiting /\ m.seq = g_ping.seq /\ m.ip = g_ping.target
     /\ g_ping' = [g_ping EXCEPT !.waiting = FALSE, !.reply = m]
     /\ out' = NoFrame
     /\ UNCHANGED <<g_arp, g_dns>>

(* What the handlers do not take (not for us, too short, a fragment, not   *)
(* awaited) leaves everything as it is.                                    *)
handle_ethernet_frame ==
  /\ pc \in Polling
  /\ \E m \in wire :
       handle_arp_packet(m) \/ handle_dns_payload(m) \/ handle_icmp(m)
  /\ UNCHANGED <<netVars, g_dns_next_id, g_dns_src_port, g_ping_seq, pings, wire, callVars>>

-----------------------------------------------------------------------------
(* network_init: the card is looked for once and initialised until that    *)
(* succeeds; success forgets the cache and whatever was awaited.           *)
network_init(ok) ==
  \/ g_ready /\ ok /\ UNCHANGED <<netVars, g_arp, g_dns, g_ping>>
  \/ /\ ~g_ready
     /\ g_probe_done' = TRUE
     /\ g_present' \in IF g_probe_done THEN {g_present} ELSE BOOLEAN
     /\ ok => g_present'
     /\ g_ready' = ok
     /\ g_arp' = IF ok THEN NoEntry ELSE g_arp
     /\ g_dns' = IF ok THEN [waiting |-> FALSE, reply |-> FALSE, ip |-> NoAddress,
                             id |-> 0, port |-> 0] ELSE g_dns
     /\ g_ping' = IF ok THEN [g_ping EXCEPT !.waiting = FALSE, !.reply = NoReply] ELSE g_ping

(* ifconfig and netstat only look for the card. *)
network_get_info ==
  /\ pc = "idle"
  /\ g_probe_done' = TRUE
  /\ g_present' \in IF g_probe_done THEN {g_present} ELSE BOOLEAN
  /\ out' = NoFrame
  /\ UNCHANGED <<g_ready, g_arp, dnsVars, pingVars, wire, callVars>>

(* A command with a host and a number of pings.  A host that is an address *)
(* needs no lookup.                                                        *)
StartCommand(host, n) ==
  /\ pc = "idle" /\ commands < MAX_COMMANDS
  /\ commands' = commands + 1
  /\ cmd' = [host |-> host, ip |-> IF host \in Address THEN host ELSE NoAddress, left |-> n]
  /\ pc' = IF host \in Address THEN "ping" ELSE "resolve"
  /\ out' = NoFrame
  /\ UNCHANGED <<netVars, g_arp, dnsVars, pingVars, wire, wait>>

(* The commands, up to their first call.  What wget saves is an action of  *)
(* FileCommands.                                                           *)
cmd_ping(host, n) == StartCommand(host, n)
cmd_nslookup(host) == StartCommand(host, 0)
cmd_traceroute(host) == StartCommand(host, PROBES)
cmd_curl(host) == StartCommand(host, 1)
cmd_telnet(host) == StartCommand(host, 1)
cmd_wget(host) == StartCommand(host, 1)

GiveUp == pc' = "idle" /\ cmd' = NoCommand /\ wait' = NoWait
PingDone == pc' = "ping" /\ cmd' = [cmd EXCEPT !.left = @ - 1] /\ wait' = NoWait
Goto(p) == pc' = p /\ wait' = NoWait /\ UNCHANGED cmd
StayUntil(n) == wait' = [wait EXCEPT !.loops = n] /\ UNCHANGED <<pc, cmd>>

(* The last ping is over. *)
EndCommand ==
  /\ pc = "ping" /\ cmd.left = 0
  /\ GiveUp
  /\ out' = NoFrame
  /\ UNCHANGED <<netVars, g_arp, dnsVars, pingVars, wire, commands>>

(* network_dns_resolve_a up to arp_resolve. *)
network_dns_resolve_a ==
  /\ pc = "resolve"
  /\ \E ok \in BOOLEAN :
       /\ network_init(ok)
       /\ \/ ~ok /\ GiveUp
          \/ /\ ok /\ cmd.host = "localhost"
             /\ pc' = "ping" /\ cmd' = [cmd EXCEPT !.ip = us]
             /\ UNCHANGED wait
          \/ ok /\ cmd.host # "localhost" /\ Goto("arp")
  /\ out' = NoFrame
  /\ UNCHANGED <<g_dns_next_id, g_dns_src_port, g_ping_seq, pings, wire, commands>>

(* network_ping_ipv4 up to arp_resolve. *)
network_ping_ipv4 ==
  /\ pc = "ping" /\ cmd.left > 0
  /\ \E ok \in BOOLEAN :
       /\ network_init(ok)
       /\ \/ (~ok \/ cmd.ip = us) /\ PingDone
          \/ ok /\ cmd.ip # us /\ Goto("arp")
  /\ out' = NoFrame
  /\ UNCHANGED <<g_dns_next_id, g_dns_src_port, g_ping_seq, pings, wire, commands>>

-----------------------------------------------------------------------------
(* arp_resolve, for the name server or for the address to ping. *)
Lookup == cmd.ip = NoAddress
Hop == route_next_hop(IF Lookup THEN dns_server ELSE cmd.ip)

(* Mutant: whatever is in the cache is taken for the hop's. *)
CachedAny == g_arp # NoEntry

Cached == g_arp.ip = Hop

Found == Cached /\ Goto(IF Lookup THEN "query" ELSE "echo") /\ UNCHANGED wire

(* Mutant: the attempts are not counted. *)
AttemptUncounted(n) ==
  /\ wire' = wire \cup {[kind |-> "arp_reply", ip |-> Hop, mac |-> MAC(Hop), target |-> us]}
  /\ pc' = "arp_poll"
  /\ wait' = [attempt |-> 1, loops |-> ARP_LOOPS]
  /\ UNCHANGED cmd

(* The n-th broadcast request, which whoever has the address may answer;   *)
(* that the card could not send it is not looked at.                       *)
Attempt(n) ==
  /\ wire' = wire \cup {[kind |-> "arp_reply", ip |-> Hop, mac |-> MAC(Hop), target |-> us]}
  /\ pc' = "arp_poll"
  /\ wait' = [attempt |-> n, loops |-> ARP_LOOPS]
  /\ UNCHANGED cmd

arp_resolve ==
  /\ pc = "arp"
  /\ Found \/ (~Cached /\ Attempt(1))
  /\ out' = NoFrame
  /\ UNCHANGED <<netVars, g_arp, dnsVars, pingVars, commands>>

(* A poll returns: the entry may be there, the turns or the attempts may   *)
(* be used up, with which the lookup or the ping fails.                    *)
ArpPollReturns ==
  /\ pc = "arp_poll"
  /\ \/ Found
     \/ ~Cached /\ wait.loops > 1 /\ StayUntil(wait.loops - 1) /\ UNCHANGED wire
     \/ ~Cached /\ wait.loops = 1 /\ wait.attempt < ARP_TRIES /\ Attempt(wait.attempt + 1)
     \/ /\ ~Cached /\ wait.loops = 1 /\ wait.attempt = ARP_TRIES
        /\ IF Lookup THEN GiveUp ELSE PingDone
        /\ UNCHANGED wire
  /\ out' = NoFrame
  /\ UNCHANGED <<netVars, g_arp, dnsVars, pingVars, commands>>

-----------------------------------------------------------------------------
(* The network's side of a frame we send: the addressee may answer, if the *)
(* frame reaches it.                                                       *)
Send(f, msgs) ==
  /\ out' = f
  /\ wire' = IF f.mac = MAC(route_next_hop(f.dst)) THEN wire \cup msgs ELSE wire

Await(p) == pc' = p /\ wait' = [attempt |-> 0, loops |-> REPLY_LOOPS] /\ UNCHANGED cmd

(* The query.  A name the query cannot be built from has used its id and   *)
(* port all the same; a frame the card could not send ends the call.       *)
SendQuery ==
  LET id == IF g_dns_next_id = 0 THEN 1 ELSE g_dns_next_id
      port == g_dns_src_port
  IN  /\ pc = "query"
      /\ g_dns_next_id' = (id + 1) % DNS_ID_MOD
      /\ g_dns_src_port' = (port + 1) % DNS_PORTS
      /\ \/ cmd.host \notin Names /\ GiveUp /\ out' = NoFrame /\ UNCHANGED <<g_dns, wire>>
         \/ /\ cmd.host \in Names
            /\ \E sent \in BOOLEAN :
                 /\ g_dns' = [waiting |-> sent, reply |-> FALSE, ip |-> NoAddress,
                              id |-> id, port |-> port]
                 /\ \/ ~sent /\ GiveUp /\ out' = NoFrame /\ UNCHANGED wire
                    \/ /\ sent /\ Await("dns_poll")
                       /\ Send([mac |-> g_arp.mac, dst |-> dns_server],
                               {[kind |-> "dns_reply", id |-> id, port |-> port,
                                 ip |-> AddressOf[cmd.host]],
                                [kind |-> "dns_error", id |-> id, port |-> port,
                                 ip |-> NoAddress],
                                [kind |-> "dns_short", port |-> port]})
  /\ UNCHANGED <<netVars, g_arp, pingVars, commands>>

(* Mutant: the wait is left standing when the turns are used up. *)
DnsTimeoutLeaves == GiveUp /\ UNCHANGED g_dns

DnsTimeout == GiveUp /\ g_dns' = [g_dns EXCEPT !.waiting = FALSE]

DnsPollReturns ==
  /\ pc = "dns_poll"
  /\ \/ g_dns.waiting /\ wait.loops > 1 /\ StayUntil(wait.loops - 1) /\ UNCHANGED g_dns
     \/ g_dns.waiting /\ wait.loops = 1 /\ DnsTimeout
     \/ /\ ~g_dns.waiting /\ g_dns.reply /\ g_dns.ip # NoAddress
        /\ cmd' = [cmd EXCEPT !.ip = g_dns.ip]
        /\ pc' = "ping" /\ wait' = NoWait
        /\ UNCHANGED g_dns
     \/ ~g_dns.waiting /\ ~(g_dns.reply /\ g_dns.ip # NoAddress) /\ GiveUp /\ UNCHANGED g_dns
  /\ out' = NoFrame
  /\ UNCHANGED <<netVars, g_arp, g_dns_next_id, g_dns_src_port, pingVars, wire, commands>>

(* The echo request.  A reply repeats the sequence number of its request;  *)
(* nth, which request that was, is not in the packet.                      *)
SendEcho ==
  /\ pc = "echo"
  /\ g_ping_seq' = (g_ping_seq + 1) % PING_SEQ_MOD
  /\ pings' = pings + 1
  /\ \E sent \in BOOLEAN :
       /\ g_ping' = [waiting |-> sent, reply |-> NoReply, seq |-> g_ping_seq,
                     target |-> cmd.ip]
       /\ \/ ~sent /\ PingDone /\ out' = NoFrame /\ UNCHANGED wire
          \/ /\ sent /\ Await("ping_poll")
             /\ Send([mac |-> g_arp.mac, dst |-> cmd.ip],
                     {[kind |-> "echo_reply", ip |-> cmd.ip, seq |-> g_ping_seq,
                       nth |-> pings']})
  /\ UNCHANGED <<netVars, g_arp, dnsVars, commands>>

PingPollReturns ==
  /\ pc = "ping_poll"
  /\ \/ g_ping.reply # NoReply /\ PingDone /\ UNCHANGED g_ping
     \/ g_ping.reply = NoReply /\ wait.loops > 1 /\ StayUntil(wait.loops - 1) /\ UNCHANGED g_ping
     \/ /\ g_ping.reply = NoReply /\ wait.loops = 1
        /\ PingDone
        /\ g_ping' = [g_ping EXCEPT !.waiting = FALSE]
  /\ out' = NoFrame
  /\ UNCHANGED <<netVars, g_arp, dnsVars, g_ping_seq, pings, wire, commands>>

-----------------------------------------------------------------------------
(* The card loses frames and says so, between two frames it hands on. *)
CardOverruns ==
  /\ pc \in Polling
  /\ overrun' = TRUE
  /\ UNCHANGED <<netVars, g_arp, dnsVars, pingVars, wire, out, callVars>>

(* The code of a call between its polls, and the end of a poll. *)
Call ==
  \/ network_dns_resolve_a \/ network_ping_ipv4 \/ arp_resolve
  \/ SendQuery \/ SendEcho \/ EndCommand

PollReturns == ArpPollReturns \/ DnsPollReturns \/ PingPollReturns

Shell ==
  \/ Call
  \/ PollReturns
  \/ handle_ethernet_frame
  \/ network_get_info
  \/ \E host \in Targets :
       \/ \E n \in PingCounts : cmd_ping(host, n)
       \/ cmd_nslookup(host) \/ cmd_traceroute(host)
       \/ cmd_curl(host) \/ cmd_telnet(host) \/ cmd_wget(host)

Next == (Shell /\ UNCHANGED overrun) \/ CardOverruns

(* The code of a call runs on.  A poll comes to its end if NetRing's drain *)
(* does (DrainEnds): once the frames it finds are taken, unless the card   *)
(* was overrun.  Messages owe nothing.                                     *)
Spec ==
  /\ Init /\ [][Next]_vars
  /\ WF_vars(Call /\ UNCHANGED overrun)
  /\ WF_vars(~overrun /\ PollReturns /\ UNCHANGED overrun)

-----------------------------------------------------------------------------
(* A command that looked a name up goes on with the address of that name,  *)
(* although replies to earlier queries, some of them for the same port,    *)
(* may be handed on at any time.                                           *)
RightAnswer ==
  cmd.host \in Names /\ cmd.ip # NoAddress => cmd.ip = AddressOf[cmd.host]

(* A ping counts as answered only on the reply to this very request, not   *)
(* on a late or repeated reply to one that was given up or is over; until  *)
(* the 16-bit sequence numbers are used up, after which an old reply looks *)
(* like a new one.                                                         *)
PingHonest ==
  pc = "ping_poll" /\ g_ping.reply # NoReply /\ pings <= PING_SEQ_MOD =>
    g_ping.reply.ip = cmd.ip /\ g_ping.reply.nth = pings

(* Nothing is awaited outside of the call that awaits it, whichever of the *)
(* calls' exits was taken: what comes late changes nothing.                *)
NothingAwaited ==
  /\ g_dns.waiting => pc = "dns_poll"
  /\ g_ping.waiting => pc = "ping_poll"

(* Every frame goes to the hardware address of the hop for its             *)
(* destination, although one cache entry serves all of them and any ARP    *)
(* reply replaces it in the middle of a call.                              *)
ReachesHop == out # NoFrame => out.mac = MAC(route_next_hop(out.dst))

(* Every command comes back to the prompt, whatever is lost, late or sent  *)
(* twice, as long as the card has not been overrun: its attempts and turns *)
(* are counted, but the loop of each poll is not.                          *)
CommandEnds == (pc # "idle") ~> (pc = "idle" \/ overrun)
=============================================================================
