------------------------------ MODULE PeerTable ------------------------------
(***************************************************************************)
(* The peer table of one node (PeerManager behind SwarmManager's           *)
(* peer_mutex_) and what feeds it: the 100 ms status loop of every peer    *)
(* (a heartbeat, then a telemetry packet with the next sequence number),   *)
(* peers that crash and start again from sequence number 1, and the        *)
(* best-effort topics in between, which lose, delay, reorder and duplicate *)
(* packets.  The node's own packets, which multicast lets it hear, return  *)
(* early from both handlers and are left out.                              *)
(*                                                                         *)
(* Time is counted in ticks of that loop.  A record keeps in `silence` the *)
(* ticks since last_heartbeat_local; Thread 1 reads the clock first and    *)
(* refreshes the table `lag` ticks later, after its own publications.      *)
(***************************************************************************)
EXTENDS Integers, FiniteSets

CONSTANTS
  Peers,        \* drone_ids of the other nodes
  Threshold,    \* RESTART_DETECTION_THRESHOLD (20 in the code)
  Timeout,      \* heartbeat_timeout_ in ticks (30 in the code)
  SeqModulus,   \* sequence numbers are unsigned, of this modulus (2^32)
  MaxDelay,     \* a packet arrives within this many ticks or never
  MinDown,      \* a process is down for at least this many ticks
  MaxLag,       \* bound: ticks between reading the clock and refreshing
  MaxSeq,       \* bound: telemetry packets per run of a process
  MaxRuns       \* bound: starts of a peer's process

ASSUME TimingAssumption ==
  /\ Threshold \in Nat
  /\ Timeout \in Nat \ {0}
  /\ MaxDelay \in Nat
  /\ MaxLag \in Nat
  /\ MinDown \in Nat
  /\ MinDown > MaxDelay      \* starting a process takes longer than a packet
  /\ Timeout > MaxDelay
  /\ Threshold >= MaxDelay   \* the network reorders by a few packets only

ASSUME SequenceAssumption ==
  /\ MaxSeq \in Nat
  /\ SeqModulus \in Nat
  /\ SeqModulus > MaxSeq + Threshold   \* 13 years of telemetry at 10 Hz
  /\ MaxRuns \in Nat \ {0}

VARIABLES
  known,         \* keys of peers_
  status,        \* PeerRecord::status
  last_seen,     \* PeerInfo::last_seen_seq
  silence,       \* ticks since PeerInfo::last_heartbeat_local
  loop_pc, lag,  \* Thread 1: position in drone_list_loop, age of its `now`
  alive, run,    \* the peers' processes, and how often each has started
  seq,           \* telemetry_seq_num_ of each peer
  down,          \* ticks since a dead process died
  net,           \* packets in flight
  accepted,      \* history: run and number of the last accepted packet
  blackout       \* history: fresh packets rejected in a row

tableVars == <<known, status, last_seen, silence>>
peerVars == <<alive, run, seq, down>>
vars == <<tableVars, loop_pc, lag, peerVars, net, accepted, blackout>>

Packet == [kind : {"HEARTBEAT", "TELEMETRY"}, from : Peers, run : 1 .. MaxRuns,
           seq : 0 .. MaxSeq, age : 0 .. MaxDelay]

AtMost(n, limit) == IF n > limit THEN limit ELSE n

-----------------------------------------------------------------------------
(* PeerManager *)

MinusOneSeen == -1   \* faulty variant: a signed mark in an unsigned field
NoneSeen == 0

\* on_heartbeat: a new or returning peer starts with no sequence number seen.
\* operator[] creates a missing record, which is OFFLINE.
OnHeartbeat(p) ==
  LET returned == p \notin known \/ status[p] = "OFFLINE"
  IN  /\ known' = known \cup {p}
      /\ silence' = [silence EXCEPT ![p] = 0]
      /\ status' = [status EXCEPT ![p] = "ONLINE"]
      /\ last_seen' = IF returned THEN [last_seen EXCEPT ![p] = NoneSeen] ELSE last_seen

\* Faulty variants: every step back is a restart, or only a longer one.
AnyBackwardJump(n, last) == n % SeqModulus < last
LongerBackwardJump(n, last) == (n + 2 * Threshold) % SeqModulus < last

LargeBackwardJump(n, last) == (n + Threshold) % SeqModulus < last

\* on_telemetry: the number seen so far, after the restart detection.
LastSeenFor(p, n) == IF LargeBackwardJump(n, last_seen[p]) THEN NoneSeen ELSE last_seen[p]

\* Faulty variant: the time is refreshed, the status is not.
AcceptTelemetryQuietly(p, n) ==
  /\ p \in known
  /\ n > LastSeenFor(p, n)
  /\ last_seen' = [last_seen EXCEPT ![p] = n]
  /\ silence' = [silence EXCEPT ![p] = 0]
  /\ UNCHANGED <<known, status>>

AcceptTelemetry(p, n) ==
  /\ p \in known
  /\ n > LastSeenFor(p, n)
  /\ last_seen' = [last_seen EXCEPT ![p] = n]
  /\ silence' = [silence EXCEPT ![p] = 0]
  /\ status' = [status EXCEPT ![p] = "ONLINE"]
  /\ UNCHANGED known

RejectTelemetry(p, n) ==
  /\ p \in known
  /\ n <= LastSeenFor(p, n)
  /\ last_seen' = [last_seen EXCEPT ![p] = LastSeenFor(p, n)]
  /\ UNCHANGED <<known, status, silence>>

-----------------------------------------------------------------------------
(* Thread 1: drone_list_loop *)

ReadClock ==
  /\ loop_pc = "sleep"
  /\ loop_pc' = "refresh"
  /\ lag' = 0
  /\ UNCHANGED <<tableVars, peerVars, net, accepted, blackout>>

\* Faulty variant: only peers whose telemetry was seen are judged.
ExpiredIfSeen(p) == p \in known /\ last_seen[p] > NoneSeen /\ silence[p] - lag >= Timeout
Expired(p) == p \in known /\ silence[p] - lag >= Timeout

\* refresh_status with the `now` read earlier.
RefreshStatus ==
  /\ loop_pc = "refresh"
  /\ loop_pc' = "sleep"
  /\ status' = [p \in Peers |-> IF Expired(p) THEN "OFFLINE" ELSE status[p]]
  /\ lag' = 0
  /\ UNCHANGED <<known, last_seen, silence, peerVars, net, accepted, blackout>>

-----------------------------------------------------------------------------
(* The DDS callbacks: a packet may arrive again until it has expired *)

ReceiveHeartbeat(m) ==
  /\ m.kind = "HEARTBEAT"
  /\ OnHeartbeat(m.from)
  /\ UNCHANGED <<loop_pc, lag, peerVars, net, accepted, blackout>>

\* A fresh packet is the newest one of the sender's current run.
Fresh(m) == m.run = run[m.from] /\ m.seq = seq[m.from]

ReceiveTelemetry(m) ==
  /\ m.kind = "TELEMETRY"
  /\ \/ /\ AcceptTelemetry(m.from, m.seq)
        /\ accepted' = [accepted EXCEPT ![m.from] = [run |-> m.run, seq |-> m.seq]]
        /\ blackout' = [blackout EXCEPT ![m.from] = {}]
     \/ /\ RejectTelemetry(m.from, m.seq)
        /\ blackout' = [blackout EXCEPT ![m.from] =
                          IF Fresh(m) /\ accepted[m.from] # [run |-> m.run, seq |-> m.seq]
                            THEN @ \cup {m.seq} ELSE @]
        /\ UNCHANGED accepted
     \/ /\ m.from \notin known
        /\ UNCHANGED <<tableVars, accepted, blackout>>
  /\ UNCHANGED <<loop_pc, lag, peerVars, net>>

-----------------------------------------------------------------------------
(* The peers *)

\* A tick: every living peer runs its status loop once (send_self_status).
Tick ==
  /\ loop_pc = "refresh" => lag < MaxLag
  /\ lag' = IF loop_pc = "refresh" THEN lag + 1 ELSE lag
  /\ silence' = [p \in Peers |-> AtMost(silence[p] + 1, Timeout + MaxLag)]
  /\ down' = [p \in Peers |-> IF alive[p] THEN 0 ELSE AtMost(down[p] + 1, MinDown)]
  /\ seq' = [p \in Peers |-> IF alive[p] THEN AtMost(seq[p] + 1, MaxSeq) ELSE seq[p]]
  /\ LET older == {[m EXCEPT !.age = @ + 1] : m \in {n \in net : n.age < MaxDelay}}
         sent(kind, P) == {[kind |-> kind, from |-> p, run |-> run[p], age |-> 0,
                            seq |-> IF kind = "TELEMETRY" THEN seq'[p] ELSE 0] : p \in P}
     IN  net' = older \cup sent("HEARTBEAT", {p \in Peers : alive[p]})
                      \cup sent("TELEMETRY", {p \in Peers : alive[p] /\ seq[p] < MaxSeq})
  /\ UNCHANGED <<known, status, last_seen, loop_pc, alive, run, accepted, blackout>>

Crash(p) ==
  /\ alive[p]
  /\ alive' = [alive EXCEPT ![p] = FALSE]
  /\ UNCHANGED <<tableVars, loop_pc, lag, run, seq, down, net, accepted, blackout>>

\* A new process counts its telemetry from zero again.
StartAgain(p) ==
  /\ ~alive[p] /\ down[p] >= MinDown
  /\ run[p] < MaxRuns
  /\ alive' = [alive EXCEPT ![p] = TRUE]
  /\ run' = [run EXCEPT ![p] = @ + 1]
  /\ seq' = [seq EXCEPT ![p] = 0]
  /\ down' = [down EXCEPT ![p] = 0]
  /\ UNCHANGED <<tableVars, loop_pc, lag, net, accepted, blackout>>

-----------------------------------------------------------------------------
Init ==
  /\ known = {}
  /\ status = [p \in Peers |-> "OFFLINE"]
  /\ last_seen = [p \in Peers |-> NoneSeen]
  /\ silence = [p \in Peers |-> 0]
  /\ loop_pc = "sleep" /\ lag = 0
  /\ alive = [p \in Peers |-> TRUE]
  /\ run = [p \in Peers |-> 1]
  /\ seq = [p \in Peers |-> 0]
  /\ down = [p \in Peers |-> 0]
  /\ net = {}
  /\ accepted = [p \in Peers |-> [run |-> 0, seq |-> 0]]
  /\ blackout = [p \in Peers |-> {}]

DroneListLoop == ReadClock \/ RefreshStatus

Next ==
  \/ DroneListLoop
  \/ \E m \in net : ReceiveHeartbeat(m) \/ ReceiveTelemetry(m)
  \/ Tick
  \/ \E p \in Peers : Crash(p) \/ StartAgain(p)

Spec == Init /\ [][Next]_vars

\* Thread 1 runs until stop() and time passes; nothing makes packets arrive.
FairSpec == Spec /\ WF_vars(DroneListLoop) /\ WF_vars(Tick)

-----------------------------------------------------------------------------
(* Queries *)

OfflineIds == {p \in known : status[p] = "OFFLINE"}

-----------------------------------------------------------------------------
(* Properties *)

TypeOK ==
  /\ known \subseteq Peers
  /\ status \in [Peers -> {"ONLINE", "OFFLINE"}]
  /\ last_seen \in [Peers -> Nat]
  /\ silence \in [Peers -> Nat]
  /\ loop_pc \in {"sleep", "refresh"}
  /\ lag \in 0 .. MaxLag
  /\ alive \in [Peers -> BOOLEAN]
  /\ run \in [Peers -> 1 .. MaxRuns]
  /\ seq \in [Peers -> 0 .. MaxSeq]
  /\ down \in [Peers -> 0 .. MinDown]
  /\ net \subseteq Packet
  /\ accepted \in [Peers -> [run : Nat, seq : Nat]]
  /\ blackout \in [Peers -> SUBSET Nat]

\* Telemetry is never applied out of order: within one run of the sender the
\* accepted numbers increase, and no packet of an earlier run is accepted
\* after one of a later run, whatever is lost, delayed or repeated and however
\* often the table is reset in between (peer_manager.cpp:68-90).
AcceptedInOrder ==
  [][\A p \in Peers : accepted'[p] # accepted[p] =>
       \/ accepted'[p].run > accepted[p].run
       \/ accepted'[p].run = accepted[p].run /\ accepted'[p].seq > accepted[p].seq]_vars

\* A restart that is too quick to be seen as OFFLINE costs at most
\* Threshold + 1 fresh packets: the detection of the backward jump takes over
\* where the reset on return does not (peer_manager.hpp:61-81, README V31).
BlackoutBounded == \A p \in Peers : Cardinality(blackout[p]) <= Threshold + 1

\* No false alarm: a peer is OFFLINE, and so an emergency, only while nothing
\* it sent has been taken for the whole time-out, also when Thread 1 judges by
\* a clock it read some time ago.
OfflineMeansSilent ==
  \A p \in OfflineIds : silence[p] >= Timeout

\* A known peer that dies for good is eventually reported OFFLINE, which is
\* what check_emergency waits for.
DeathIsNoticed ==
  \A p \in Peers : (p \in known /\ ~alive[p]) ~> (p \in OfflineIds \/ alive[p])
=============================================================================
