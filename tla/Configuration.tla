--------------------------- MODULE Configuration ---------------------------
(***************************************************************************)
(* read_config_from_env: what the environment variables of a container     *)
(* mean for the process that starts in it.                                 *)
(*                                                                         *)
(* A text is abstracted to what std::stoul makes of it: absent (unset or   *)
(* empty), a word it rejects, or a number n that a minus sign may precede  *)
(* and other characters may follow.  The fields keep the widths of         *)
(* SwarmConfig and TcpTransportConfig.                                     *)
(***************************************************************************)
EXTENDS Integers, Sequences, FiniteSetsExt

CONSTANT UlongModulus   \* the numbers of an unsigned long are those below it

ASSUME UlongAssumption == UlongModulus \in Nat /\ UlongModulus > 65536

Absent == [given |-> FALSE, numeric |-> FALSE, negative |-> FALSE, trailing |-> FALSE, n |-> 0]
Word == [Absent EXCEPT !.given = TRUE]
Number(n) == [Word EXCEPT !.numeric = TRUE, !.n = n]

\* std::stoul ignores what follows the number, and takes a minus sign modulo
\* the width of an unsigned long.
Stoul(text) == IF text.negative THEN (UlongModulus - text.n) % UlongModulus ELSE text.n

\* Faulty variant: the limits are those of the types, and one too high.
FieldsTooWide ==
  << [name |-> "DRONE_ID",               default |-> 0,    max |-> 256],
     [name |-> "ROS_DOMAIN_ID",          default |-> 42,   max |-> 232],
     [name |-> "INITIAL_BATTERY",        default |-> 100,  max |-> 256],
     [name |-> "FAULT_SILENT_CONSENSUS", default |-> 0,    max |-> 1],
     [name |-> "TCP_PORT",               default |-> 5100, max |-> 65536] >>

\* The numeric fields, in the order in which they are read.
Fields ==
  << [name |-> "DRONE_ID",               default |-> 0,    max |-> 255],
     [name |-> "ROS_DOMAIN_ID",          default |-> 42,   max |-> 232],
     [name |-> "INITIAL_BATTERY",        default |-> 100,  max |-> 100],
     [name |-> "FAULT_SILENT_CONSENSUS", default |-> 0,    max |-> 1],
     [name |-> "TCP_PORT",               default |-> 5100, max |-> 65535] >>

\* Whether the text of a field is refused: std::stoul throws, or what it reads
\* is above the limit.
Refused(text, field) ==
  text.given /\ (~text.numeric \/ text.n >= UlongModulus \/ Stoul(text) > field.max)

ValueOf(text, field) == IF text.given THEN Stoul(text) ELSE field.default

Failure(name) == [success |-> FALSE, error |-> name]

\* A drone needs one of the two roles; a ground station's ROLE is not read.
RoleRefused(e) == e.NODE_TYPE # "GCS" /\ e.ROLE \notin {"", "SCOUT", "STRIKER"}

\* Faulty variant: an empty NODE_TYPE gets no default.
NodeTypeAsGiven(e) == e.NODE_TYPE

\* Whatever is neither refused nor "GCS" is a drone.
NodeType(e) == IF e.NODE_TYPE = "GCS" THEN "GCS" ELSE "DRONE"

\* e maps the name of a variable to its text.  The first field that is
\* refused is the one reported.
ReadConfig(e) ==
  LET refused == {i \in DOMAIN Fields : Refused(e[Fields[i].name], Fields[i])}
      value(i) == ValueOf(e[Fields[i].name], Fields[i])
      tcp == e.NODE_IP # ""
  IN  IF e.NODE_TYPE \notin {"", "DRONE", "GCS"} THEN Failure("NODE_TYPE")
      ELSE IF RoleRefused(e) THEN Failure("ROLE")
      ELSE IF refused # {} THEN Failure(Fields[Min(refused)].name)
      ELSE IF tcp /\ value(5) = 0 THEN Failure("TCP_PORT")
      ELSE [success |-> TRUE,
            error |-> "",
            node_type |-> NodeType(e),
            role |-> IF e.NODE_TYPE # "GCS" /\ e.ROLE = "STRIKER" THEN "STRIKER" ELSE "SCOUT",
            drone_id |-> value(1) % 2^8,
            domain_id |-> value(2),
            battery |-> value(3) % 2^8,
            fault_silent_consensus |-> value(4) = 1,
            tcp |-> [enabled |-> tcp,
                     listening_port |-> IF tcp THEN value(5) % 2^16 ELSE 5100]]
=============================================================================
